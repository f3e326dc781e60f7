---------------------------- MODULE FileOrderProofs ----------------------------
(***************************************************************************)
(* The chunks stay in step: for any number of receivers and chunks, and    *)
(* whoever sends the file, a receiver that finds a chunk out of its turn   *)
(* has missed the first ones of a broadcast, and nothing else.             *)
(*                                                                         *)
(* The chunks on their way to a receiver, those in its queue and those on  *)
(* the wire to the server, are numbered without a gap, from the one the    *)
(* receiver expects to the one before the chunk that is sent next.         *)
(***************************************************************************)
EXTENDS FileSendProofs, Integers

-----------------------------------------------------------------------------
(* The chunks of a queue of frames                                         *)

NoChunk(q) == \A i \in 1 .. Len(q) : q[i].kind # "chunk"

\* No chunk strictly between two places of q.
Gap(q, i, j) == \A m \in 1 .. Len(q) : i < m /\ m < j => q[m].kind # "chunk"

\* The chunks of q are chunks of the file, one after the other.
Ordered(q) ==
    /\ \A i \in 1 .. Len(q) : q[i].kind = "chunk" => q[i].index < Chunks
    /\ \A i, j \in 1 .. Len(q) :
          i < j /\ q[i].kind = "chunk" /\ q[j].kind = "chunk" /\ Gap(q, i, j)
              => q[j].index = q[i].index + 1

\* The first chunk of q, if there is one, is k; the last one is the one before k.
Starts(q, k) ==
    \A i \in 1 .. Len(q) : q[i].kind = "chunk" /\ Gap(q, 0, i) => q[i].index = k
Ends(q, k) ==
    \A i \in 1 .. Len(q) :
        q[i].kind = "chunk" /\ Gap(q, i, Len(q) + 1) => q[i].index + 1 = k

\* p has the chunks of q, d places further to the front.
SameChunks(p, q, d) ==
    /\ \A i \in 1 .. Len(p) :
          p[i].kind = "chunk" => i + d \in 1 .. Len(q) /\ q[i + d] = p[i]
    /\ \A i \in 1 .. Len(q) :
          q[i].kind = "chunk" => i - d \in 1 .. Len(p) /\ p[i - d] = q[i]

LEMMA SameChunksFacts ==
    ASSUME NEW q \in Seq(Frame), NEW p \in Seq(Frame), NEW d \in Nat,
           SameChunks(p, q, d)
    PROVE  /\ NoChunk(q) <=> NoChunk(p)
           /\ Ordered(q) => Ordered(p)
           /\ \A k : Starts(q, k) => Starts(p, k)
           /\ \A k : Ends(q, k) => Ends(p, k)
<1>1. Len(p) \in Nat /\ Len(q) \in Nat
    OBVIOUS
<1>2. NoChunk(q) <=> NoChunk(p) BY DEF SameChunks, NoChunk
<1>3. ASSUME NEW i \in Int, NEW j \in Int, Gap(p, i, j) PROVE Gap(q, i + d, j + d)
    <2> SUFFICES ASSUME NEW m \in 1 .. Len(q), i + d < m, m < j + d, q[m].kind = "chunk"
                 PROVE  FALSE
        BY DEF Gap
    <2>1. m - d \in 1 .. Len(p) /\ p[m - d] = q[m] BY DEF SameChunks
    <2>2. i < m - d /\ m - d < j BY <1>1
    <2>3. QED BY <1>3, <2>1, <2>2 DEF Gap
<1>4. ASSUME Ordered(q) PROVE Ordered(p)
    <2>1. \A i \in 1 .. Len(p) : p[i].kind = "chunk" => p[i].index < Chunks
        BY <1>4 DEF SameChunks, Ordered
    <2>2. ASSUME NEW i \in 1 .. Len(p), NEW j \in 1 .. Len(p), i < j,
                 p[i].kind = "chunk", p[j].kind = "chunk", Gap(p, i, j)
          PROVE  p[j].index = p[i].index + 1
        <3>1. /\ i + d \in 1 .. Len(q) /\ q[i + d] = p[i]
              /\ j + d \in 1 .. Len(q) /\ q[j + d] = p[j]
            BY <2>2 DEF SameChunks
        <3>2. Gap(q, i + d, j + d) /\ i + d < j + d BY <1>1, <1>3, <2>2
        <3>3. QED BY <1>4, <2>2, <3>1, <3>2 DEF Ordered
    <2>3. QED BY <2>1, <2>2 DEF Ordered
<1>5. ASSUME NEW k, Starts(q, k) PROVE Starts(p, k)
    <2> SUFFICES ASSUME NEW i \in 1 .. Len(p), p[i].kind = "chunk", Gap(p, 0, i)
                 PROVE  p[i].index = k
        BY DEF Starts
    <2>1. i + d \in 1 .. Len(q) /\ q[i + d] = p[i] BY DEF SameChunks
    <2>2. ASSUME NEW m \in 1 .. Len(q), 0 < m, m < i + d, q[m].kind = "chunk"
          PROVE  FALSE
        <3>1. m - d \in 1 .. Len(p) /\ p[m - d] = q[m] BY <2>2 DEF SameChunks
        <3>2. 0 < m - d /\ m - d < i BY <1>1, <2>2, <3>1
        <3>3. QED BY <2>2, <3>1, <3>2 DEF Gap
    <2>3. Gap(q, 0, i + d) BY <2>2 DEF Gap
    <2>4. QED BY <1>5, <2>1, <2>3 DEF Starts
<1>6. ASSUME NEW k, Ends(q, k) PROVE Ends(p, k)
    <2> SUFFICES ASSUME NEW i \in 1 .. Len(p), p[i].kind = "chunk", Gap(p, i, Len(p) + 1)
                 PROVE  p[i].index + 1 = k
        BY DEF Ends
    <2>1. i + d \in 1 .. Len(q) /\ q[i + d] = p[i] BY DEF SameChunks
    <2>2. ASSUME NEW m \in 1 .. Len(q), i + d < m, m < Len(q) + 1, q[m].kind = "chunk"
          PROVE  FALSE
        <3>1. m - d \in 1 .. Len(p) /\ p[m - d] = q[m] BY <2>2 DEF SameChunks
        <3>2. i < m - d /\ m - d < Len(p) + 1 BY <1>1, <2>2, <3>1
        <3>3. QED BY <2>2, <3>1, <3>2 DEF Gap
    <2>3. Gap(q, i + d, Len(q) + 1) BY <2>2 DEF Gap
    <2>4. QED BY <1>6, <2>1, <2>3 DEF Ends
<1>7. QED BY <1>2, <1>4, <1>5, <1>6

LEMMA AppendPlain ==
    ASSUME NEW q \in Seq(Frame), NEW f \in Frame, f.kind # "chunk"
    PROVE  SameChunks(Append(q, f), q, 0)
<1>1. /\ Len(q) \in Nat
      /\ Len(Append(q, f)) = Len(q) + 1
      /\ \A i \in 1 .. Len(q) : Append(q, f)[i] = q[i]
      /\ Append(q, f)[Len(q) + 1] = f
    BY AppendFacts
<1>2. \A i \in 1 .. Len(q) : i + 0 = i /\ i - 0 = i /\ i \in 1 .. Len(q) + 1
    BY <1>1
<1>3. ASSUME NEW i \in 1 .. Len(q) + 1, Append(q, f)[i].kind = "chunk"
      PROVE  i \in 1 .. Len(q)
    BY <1>1, <1>3
<1>4. QED BY <1>1, <1>2, <1>3 DEF SameChunks

LEMMA TailPlain ==
    ASSUME NEW q \in Seq(Frame), q # <<>>, q[1].kind # "chunk"
    PROVE  SameChunks(Tail(q), q, 1)
<1>1. /\ Len(q) \in Nat /\ Len(q) >= 1
      /\ Len(Tail(q)) = Len(q) - 1
      /\ \A i \in 1 .. Len(q) - 1 : Tail(q)[i] = q[i + 1]
    BY TailFacts
<1>2. ASSUME NEW i \in 1 .. Len(q), q[i].kind = "chunk"
      PROVE  i - 1 \in 1 .. Len(q) - 1 /\ Tail(q)[i - 1] = q[i]
    <2>1. i # 1 BY <1>2
    <2>2. i - 1 \in 1 .. Len(q) - 1 /\ (i - 1) + 1 = i BY <1>1, <2>1
    <2>3. QED BY <1>1, <2>2
<1>3. \A i \in 1 .. Len(q) - 1 : i + 1 \in 1 .. Len(q) BY <1>1
<1>4. QED BY <1>1, <1>2, <1>3 DEF SameChunks

\* One more chunk at the end.
LEMMA AppendChunk ==
    ASSUME NEW q \in Seq(Frame), NEW f \in Frame, f.kind = "chunk", f.index < Chunks,
           Ordered(q), Ends(q, f.index)
    PROVE  /\ Ordered(Append(q, f))
           /\ Ends(Append(q, f), f.index + 1)
           /\ ~NoChunk(Append(q, f))
           /\ \A k : Starts(q, k) /\ (NoChunk(q) => f.index = k)
                        => Starts(Append(q, f), k)
<1> DEFINE p == Append(q, f)
<1>1. /\ Len(q) \in Nat
      /\ Len(p) = Len(q) + 1
      /\ \A i \in 1 .. Len(q) : p[i] = q[i]
      /\ p[Len(q) + 1] = f
    BY AppendFacts
<1> HIDE DEF p
<1>2. \A i \in 1 .. Len(p) : i \in 1 .. Len(q) \/ i = Len(q) + 1 BY <1>1
<1>3. \A i \in 1 .. Len(q) : i \in 1 .. Len(p) BY <1>1
<1>4. ASSUME NEW i \in Int, NEW j \in Int, Gap(p, i, j) PROVE Gap(q, i, j)
    BY <1>1, <1>3, <1>4 DEF Gap
<1>5. Ordered(p)
    <2>1. \A i \in 1 .. Len(p) : p[i].kind = "chunk" => p[i].index < Chunks
        BY <1>1, <1>2 DEF Ordered
    <2>2. ASSUME NEW i \in 1 .. Len(p), NEW j \in 1 .. Len(p), i < j,
                 p[i].kind = "chunk", p[j].kind = "chunk", Gap(p, i, j)
          PROVE  p[j].index = p[i].index + 1
        <3>1. i \in 1 .. Len(q) BY <1>1, <1>2, <2>2
        <3>2. Gap(q, i, j) BY <1>4, <2>2
        <3>3. CASE j \in 1 .. Len(q)
            BY <1>1, <2>2, <3>1, <3>2, <3>3 DEF Ordered
        <3>4. CASE j = Len(q) + 1
            BY <1>1, <2>2, <3>1, <3>2, <3>4 DEF Ends
        <3>5. QED BY <1>2, <3>3, <3>4
    <2>3. QED BY <2>1, <2>2 DEF Ordered
<1>6. Ends(p, f.index + 1)
    <2> SUFFICES ASSUME NEW i \in 1 .. Len(p), p[i].kind = "chunk", Gap(p, i, Len(p) + 1)
                 PROVE  p[i].index = f.index
        BY DEF Ends
    <2>1. Len(q) + 1 \in 1 .. Len(p) /\ p[Len(q) + 1].kind = "chunk" BY <1>1
    <2>2. ~(i < Len(q) + 1) BY <1>1, <2>1 DEF Gap
    <2>3. QED BY <1>1, <2>2
<1>7. ~NoChunk(p) BY <1>1 DEF NoChunk
<1>8. ASSUME NEW k, Starts(q, k), NoChunk(q) => f.index = k PROVE Starts(p, k)
    <2> SUFFICES ASSUME NEW i \in 1 .. Len(p), p[i].kind = "chunk", Gap(p, 0, i)
                 PROVE  p[i].index = k
        BY DEF Starts
    <2>1. CASE i \in 1 .. Len(q)
        <3>1. Gap(q, 0, i) BY <1>4
        <3>2. QED BY <1>1, <1>8, <2>1, <3>1 DEF Starts
    <2>2. CASE i = Len(q) + 1
        <3>1. NoChunk(q)
            <4> SUFFICES ASSUME NEW m \in 1 .. Len(q) PROVE q[m].kind # "chunk"
                BY DEF NoChunk
            <4>1. 0 < m /\ m < i /\ m \in 1 .. Len(p) BY <1>1, <2>2
            <4>2. QED BY <1>1, <4>1 DEF Gap
        <3>2. QED BY <1>1, <1>8, <2>2, <3>1
    <2>3. QED BY <1>2, <2>1, <2>2
<1>9. QED BY <1>5, <1>6, <1>7, <1>8 DEF p

\* The first frame, a chunk, is taken.
LEMMA TailChunk ==
    ASSUME NEW q \in Seq(Frame), q # <<>>, q[1].kind = "chunk", Ordered(q)
    PROVE  /\ Ordered(Tail(q))
           /\ q[1].index < Chunks
           /\ \A k : Starts(q, k) => q[1].index = k
           /\ Starts(Tail(q), q[1].index + 1)
           /\ \A k : Ends(q, k) => /\ Ends(Tail(q), k)
                                   /\ NoChunk(Tail(q)) => q[1].index + 1 = k
<1> DEFINE p == Tail(q)
<1>1. /\ Len(q) \in Nat /\ Len(q) >= 1
      /\ Len(p) = Len(q) - 1
      /\ \A i \in 1 .. Len(q) - 1 : p[i] = q[i + 1]
    BY TailFacts
<1> HIDE DEF p
<1>2. \A i \in 1 .. Len(p) : i + 1 \in 1 .. Len(q) /\ p[i] = q[i + 1] BY <1>1
<1>3. \A m \in 1 .. Len(q) : 1 < m => m - 1 \in 1 .. Len(p) /\ p[m - 1] = q[m]
    <2> SUFFICES ASSUME NEW m \in 1 .. Len(q), 1 < m
                 PROVE  m - 1 \in 1 .. Len(p) /\ p[m - 1] = q[m]
        OBVIOUS
    <2>1. m - 1 \in 1 .. Len(q) - 1 /\ (m - 1) + 1 = m BY <1>1
    <2>2. QED BY <1>1, <2>1
<1>4. ASSUME NEW i \in Nat, NEW j \in Int, Gap(p, i, j) PROVE Gap(q, i + 1, j + 1)
    <2> SUFFICES ASSUME NEW m \in 1 .. Len(q), i + 1 < m, m < j + 1, q[m].kind = "chunk"
                 PROVE  FALSE
        BY DEF Gap
    <2>1. m - 1 \in 1 .. Len(p) /\ p[m - 1] = q[m] BY <1>1, <1>3
    <2>2. i < m - 1 /\ m - 1 < j BY <1>1
    <2>3. QED BY <1>4, <2>1, <2>2 DEF Gap
<1>5. 1 \in 1 .. Len(q) BY <1>1
<1>6. Ordered(p)
    <2>1. \A i \in 1 .. Len(p) : p[i].kind = "chunk" => p[i].index < Chunks
        BY <1>2 DEF Ordered
    <2>2. ASSUME NEW i \in 1 .. Len(p), NEW j \in 1 .. Len(p), i < j,
                 p[i].kind = "chunk", p[j].kind = "chunk", Gap(p, i, j)
          PROVE  p[j].index = p[i].index + 1
        <3>1. Gap(q, i + 1, j + 1) /\ i + 1 < j + 1 BY <1>1, <1>4, <2>2
        <3>2. QED BY <1>2, <2>2, <3>1 DEF Ordered
    <2>3. QED BY <2>1, <2>2 DEF Ordered
<1>7. q[1].index < Chunks BY <1>5 DEF Ordered
<1>8. ASSUME NEW k, Starts(q, k) PROVE q[1].index = k
    <2>1. Gap(q, 0, 1) BY <1>1 DEF Gap
    <2>2. QED BY <1>5, <1>8, <2>1 DEF Starts
<1>9. Starts(p, q[1].index + 1)
    <2> SUFFICES ASSUME NEW i \in 1 .. Len(p), p[i].kind = "chunk", Gap(p, 0, i)
                 PROVE  p[i].index = q[1].index + 1
        BY DEF Starts
    <2>1. Gap(q, 0 + 1, i + 1) BY <1>4
    <2>2. 0 + 1 = 1 /\ 1 < i + 1 BY <1>1
    <2>3. QED BY <1>2, <1>5, <2>1, <2>2 DEF Ordered
<1>10. ASSUME NEW k, Ends(q, k) PROVE Ends(p, k) /\ (NoChunk(p) => q[1].index + 1 = k)
    <2>1. ASSUME NEW i \in 1 .. Len(p), p[i].kind = "chunk", Gap(p, i, Len(p) + 1)
          PROVE  p[i].index + 1 = k
        <3>1. Gap(q, i + 1, Len(q) + 1)
            <4>1. Gap(q, i + 1, (Len(p) + 1) + 1) BY <1>1, <1>4, <2>1
            <4>2. (Len(p) + 1) + 1 = Len(q) + 1 BY <1>1
            <4>3. QED BY <4>1, <4>2
        <3>2. QED BY <1>2, <1>10, <2>1, <3>1 DEF Ends
    <2>2. ASSUME NoChunk(p) PROVE q[1].index + 1 = k
        <3>1. Gap(q, 1, Len(q) + 1) BY <1>3, <2>2 DEF Gap, NoChunk
        <3>2. QED BY <1>5, <1>10, <3>1 DEF Ends
    <2>3. QED BY <2>1, <2>2 DEF Ends
<1>11. QED BY <1>6, <1>7, <1>8, <1>9, <1>10 DEF p

\* The end is cut off.
LEMMA CutPlain ==
    ASSUME NEW q \in Seq(Frame), NEW n \in 0 .. Len(q)
    PROVE  /\ NoChunk(q) => NoChunk(SubSeq(q, 1, n))
           /\ Ordered(q) => Ordered(SubSeq(q, 1, n))
           /\ \A k : Starts(q, k) => Starts(SubSeq(q, 1, n), k)
<1> DEFINE p == SubSeq(q, 1, n)
<1>1. Len(q) \in Nat /\ Len(p) = n /\ \A i \in 1 .. n : p[i] = q[i]
    BY CutFacts
<1> HIDE DEF p
<1>2. \A i \in 1 .. Len(p) : i \in 1 .. Len(q) /\ p[i] = q[i] BY <1>1
<1>3. ASSUME NEW i \in Int, NEW j \in 1 .. Len(p), Gap(p, i, j) PROVE Gap(q, i, j)
    BY <1>1, <1>3 DEF Gap
<1>4. NoChunk(q) => NoChunk(p) BY <1>2 DEF NoChunk
<1>5. Ordered(q) => Ordered(p) BY <1>2, <1>3 DEF Ordered
<1>6. \A k : Starts(q, k) => Starts(p, k) BY <1>2, <1>3 DEF Starts
<1>7. QED BY <1>4, <1>5, <1>6 DEF p

LEMMA EverythingChunks ==
    /\ Everything \in Seq(Frame) /\ Len(Everything) = Chunks + 1
    /\ \A i \in 1 .. Chunks : Everything[i].kind = "chunk" /\ Everything[i].index = i - 1
    /\ Everything[Chunks + 1].kind = "complete"
<1> DEFINE chunks == [i \in 1 .. Chunks |-> Chunk(i - 1)]
<1> DEFINE last == <<Packet("complete")>>
<1>1. Packet("complete") \in Frame /\ Packet("complete").kind = "complete"
    BY SetFacts DEF Kinds
<1>2. \A i \in 1 .. Chunks : Chunk(i - 1) \in Frame /\ Chunk(i - 1).kind = "chunk"
    <2>1. \A i \in 1 .. Chunks : i - 1 \in 0 .. Chunks BY SetFacts
    <2>2. QED BY <2>1, SetFacts
<1>3. /\ chunks \in Seq(Frame) /\ Len(chunks) = Chunks
      /\ \A i \in 1 .. Chunks : chunks[i].kind = "chunk" /\ chunks[i].index = i - 1
    <2>1. chunks \in Seq(Frame) /\ Len(chunks) = Chunks BY <1>2, SetFacts
    <2>2. \A i \in 1 .. Chunks : chunks[i] = Chunk(i - 1) OBVIOUS
    <2>3. QED BY <1>2, <2>1, <2>2 DEF Chunk
<1>4. last \in Seq(Frame) /\ Len(last) = 1 /\ last[1].kind = "complete"
    BY <1>1
<1>5. Everything = chunks \o last BY DEF Everything
<1> HIDE DEF chunks, last
<1>6. /\ chunks \o last \in Seq(Frame)
      /\ Len(chunks \o last) = Len(chunks) + Len(last)
      /\ \A i \in 1 .. Len(chunks) : (chunks \o last)[i] = chunks[i]
      /\ \A i \in 1 .. Len(last) : (chunks \o last)[Len(chunks) + i] = last[i]
    <2>1. chunks \in Seq(Frame) /\ last \in Seq(Frame) BY <1>3, <1>4
    <2>2. QED BY <2>1, ConcatFacts
<1>7. (chunks \o last)[Chunks + 1] = last[1]
    <2>1. 1 \in 1 .. Len(last) BY <1>4
    <2>2. QED BY <1>3, <1>6, <2>1
<1>8. QED BY <1>3, <1>4, <1>5, <1>6, <1>7

\* All chunks at once, after none.
LEMMA ConcatEverything ==
    ASSUME NEW q \in Seq(Frame), NoChunk(q)
    PROVE  /\ q \o Everything \in Seq(Frame)
           /\ Ordered(q \o Everything)
           /\ Starts(q \o Everything, 0)
<1> DEFINE p == q \o Everything
<1>1. Chunks \in Nat BY SetFacts
<1>2. /\ p \in Seq(Frame) /\ Len(q) \in Nat
      /\ Len(p) = Len(q) + (Chunks + 1)
      /\ \A i \in 1 .. Len(q) : p[i] = q[i]
      /\ \A i \in 1 .. Chunks + 1 : p[Len(q) + i] = Everything[i]
    <2>1. q \in Seq(Frame) /\ Everything \in Seq(Frame)
        BY EverythingChunks
    <2> HIDE DEF p
    <2>2. /\ q \o Everything \in Seq(Frame) /\ Len(q) \in Nat
          /\ Len(q \o Everything) = Len(q) + Len(Everything)
          /\ \A i \in 1 .. Len(q) : (q \o Everything)[i] = q[i]
          /\ \A i \in 1 .. Len(Everything) :
                (q \o Everything)[Len(q) + i] = Everything[i]
        BY <2>1, ConcatFacts
    <2>3. Len(Everything) = Chunks + 1 BY EverythingChunks
    <2>4. QED BY <2>2, <2>3 DEF p
<1> HIDE DEF p
<1>3. ASSUME NEW m \in 1 .. Len(p), p[m].kind = "chunk"
      PROVE  m - Len(q) \in 1 .. Chunks /\ p[m].index = (m - Len(q)) - 1
    <2>1. m \notin 1 .. Len(q) BY <1>2, <1>3 DEF NoChunk
    <2>2. m - Len(q) \in 1 .. Chunks + 1 /\ Len(q) + (m - Len(q)) = m
        BY <1>1, <1>2, <2>1
    <2>3. p[m] = Everything[m - Len(q)] BY <1>2, <2>2
    <2>4. m - Len(q) # Chunks + 1 BY <1>3, <2>3, EverythingChunks
    <2>5. m - Len(q) \in 1 .. Chunks BY <1>1, <2>2, <2>4
    <2>6. QED BY <2>3, <2>5, EverythingChunks
<1>4. ASSUME NEW i \in 1 .. Chunks
      PROVE  Len(q) + i \in 1 .. Len(p) /\ p[Len(q) + i].kind = "chunk"
    <2>1. i \in 1 .. Chunks + 1 BY <1>1
    <2>2. p[Len(q) + i] = Everything[i] BY <1>2, <2>1
    <2>3. QED BY <1>1, <1>2, <2>2, EverythingChunks
<1>5. Ordered(p)
    <2>1. \A m \in 1 .. Len(p) : p[m].kind = "chunk" => p[m].index < Chunks
        BY <1>1, <1>2, <1>3
    <2>2. ASSUME NEW m \in 1 .. Len(p), NEW n \in 1 .. Len(p), m < n,
                 p[m].kind = "chunk", p[n].kind = "chunk", Gap(p, m, n)
          PROVE  p[n].index = p[m].index + 1
        <3> DEFINE i == (m - Len(q)) + 1
        <3>1. m - Len(q) \in 1 .. Chunks /\ n - Len(q) \in 1 .. Chunks BY <1>3, <2>2
        <3>2. Len(q) + i = m + 1 BY <1>2, <3>1
        <3>3. i \in 1 .. Chunks BY <1>1, <1>2, <2>2, <3>1
        <3>4. m + 1 \in 1 .. Len(p) /\ p[m + 1].kind = "chunk" BY <1>4, <3>2, <3>3
        <3>5. ~(m + 1 < n) BY <1>2, <2>2, <3>4 DEF Gap
        <3>6. n = m + 1 BY <1>2, <2>2, <3>5
        <3>7. p[m].index = (m - Len(q)) - 1 /\ p[n].index = (n - Len(q)) - 1
            BY <1>3, <2>2
        <3>8. QED BY <1>2, <3>6, <3>7
    <2>3. QED BY <2>1, <2>2 DEF Ordered
<1>6. Starts(p, 0)
    <2> SUFFICES ASSUME NEW m \in 1 .. Len(p), p[m].kind = "chunk", Gap(p, 0, m)
                 PROVE  p[m].index = 0
        BY DEF Starts
    <2>1. m - Len(q) \in 1 .. Chunks /\ p[m].index = (m - Len(q)) - 1 BY <1>3
    <2>2. 1 \in 1 .. Chunks BY <1>1, <2>1
    <2>3. Len(q) + 1 \in 1 .. Len(p) /\ p[Len(q) + 1].kind = "chunk" BY <1>4, <2>2
    <2>4. ~(Len(q) + 1 < m) BY <1>2, <2>3 DEF Gap
    <2>5. QED BY <1>2, <2>1, <2>4
<1>7. QED BY <1>2, <1>5, <1>6 DEF p

-----------------------------------------------------------------------------
(* The invariant                                                           *)

\* No chunk has been sent, and the first one still may be.
Unsent == task.at = "none" /\ flow \notin {"ack", "ended"}

\* The sender goes on with chunk k.
Upcoming(k) ==
    \/ task.at \in {"check", "put"} /\ k = task.pos
    \/ Unsent /\ k = 0

Wire ==
    /\ Ordered(uplink[Sender])
    /\ \A k : Upcoming(k) => Ends(uplink[Sender], k)
    /\ Unsent => NoChunk(uplink[Sender])

\* Who sends the file, and when the send task of a session has begun.
SenderFits ==
    /\ flow # "none" => task.at = "none" /\ local[Sender] = "absent"
    /\ local[Sender] = "WaitingAccept" => task.at = "none"
    /\ Fresh /\ Sender \in up => task.at = "none"

AcceptUp(r) == \E i \in 1 .. Len(uplink[r]) : uplink[r][i].kind = "accept"
AcceptIn == \E i \in 1 .. Len(packets[Sender]) : packets[Sender][i] = "accept"
CloseUp(r) == \E i \in 1 .. Len(uplink[r]) : uplink[r][i].kind = "close"

\* Files and packets are there for clients that are connected, legs for those the
\* file is addressed to.
Reached(r) ==
    /\ local[r] # "absent" \/ packets[r] # <<>> => r \in up
    /\ r \in up => r \in online /\ ~CloseUp(r)
    /\ legs[r] # "none" \/ frames[r] # <<>> => Broadcast \/ target = r

\* The server has not relayed the offer.
Ahead == Fresh \/ ~NoOfferUp

\* No chunk comes before the accept, and none is counted before the file arrives.
Begins(r) ==
    /\ Ahead \/ ~NoOfferIn(r) \/ local[r] = "PendingOffer" =>
          ~AcceptUp(r) /\ legs[r] # "accepted" /\ frames[r] = <<>>
    /\ Ahead \/ legs[r] = "offered" => frames[r] = <<>> /\ next[r] = 0
    /\ outcome[r] = "broken" =>
          /\ local[r] = "absent" /\ ~Ahead /\ NoOfferIn(r)
          /\ Broadcast /\ next[r] = 0

\* The sender has nothing to send yet, or never will.
Idle == task.at \in {"none", "ended"} /\ flow \in {"none", "start", "accept", "ended"}

\* A file for one receiver is not sent before that receiver has accepted it.
Waits(r) ==
    target = r /\ (Ahead \/ legs[r] = "offered") =>
        NoChunk(uplink[Sender]) /\ ~AcceptIn /\ Idle

\* The chunk that has to come next on the wire, to continue the queue of r.
Expect(r) == IF frames[r] = <<>> THEN next[r] ELSE frames[r][Len(frames[r])] + 1

\* r is in step, or was there before the first chunk.
Started(r) == frames[r] # <<>> \/ next[r] > 0 \/ target = r

InStep(r) ==
    /\ \A i \in 1 .. Len(frames[r]) : frames[r][i] < Chunks
    /\ local[r] = "Receiving" =>
          /\ \A i \in 1 .. Len(frames[r]) - 1 : frames[r][i + 1] = frames[r][i] + 1
          /\ frames[r] # <<>> /\ (next[r] > 0 \/ target = r) => frames[r][1] = next[r]
          /\ legs[r] = "accepted" /\ Started(r) =>
                /\ Starts(uplink[Sender], Expect(r))
                /\ NoChunk(uplink[Sender]) => \A k : Upcoming(k) => k = Expect(r)

FollowsFile(r) == Reached(r) /\ Begins(r) /\ Waits(r) /\ InStep(r)

OrderInv == Wire /\ SenderFits /\ \A r \in Receivers : FollowsFile(r)

-----------------------------------------------------------------------------
(* Steps that send no chunk and take none                                  *)

\* The wire keeps its chunks, or the sender will never add to them.
StreamPlain ==
    /\ NoChunk(uplink[Sender]) => NoChunk(uplink'[Sender])
    /\ Ordered(uplink[Sender]) => Ordered(uplink'[Sender])
    /\ \A k : Starts(uplink[Sender], k) => Starts(uplink'[Sender], k)
    /\ \A k : Upcoming(k)' =>
          /\ Upcoming(k)
          /\ Ends(uplink[Sender], k) => Ends(uplink'[Sender], k)
          /\ NoChunk(uplink'[Sender]) => NoChunk(uplink[Sender])

\* Nothing is begun without an accept.
SenderPlain ==
    /\ Ahead' => Ahead
    /\ AcceptIn' => AcceptIn
    /\ Unsent' => Unsent
    /\ Idle /\ ~AcceptIn => Idle'

StoreFollows(r) ==
    /\ local'[r] \in {local[r], "absent"}
    /\ next'[r] = next[r]
    /\ frames'[r] = frames[r] \/ (frames'[r] = <<>> /\ local'[r] = "absent")
    /\ outcome'[r] = "broken" => outcome[r] = "broken"

UpFollows(r) ==
    /\ AcceptUp(r)' => AcceptUp(r)
    /\ CloseUp(r)' => CloseUp(r) \/ r \notin up'

InFollows(r) ==
    /\ NoOfferIn(r) => NoOfferIn(r)'
    /\ packets'[r] # <<>> => packets[r] # <<>> \/ r \in up

LinkFollows(r) ==
    /\ r \in up' => r \in up
    /\ r \in up \ up' => packets'[r] = <<>> /\ local'[r] = "absent"
    /\ r \in online => r \in online' \/ CloseUp(r)

LegFollows(r) == legs'[r] \in {legs[r], "none"}

PlainAt(r) ==
    StoreFollows(r) /\ UpFollows(r) /\ InFollows(r) /\ LinkFollows(r) /\ LegFollows(r)

LEMMA WirePlain ==
    ASSUME Wire, StreamPlain, Unsent' => Unsent
    PROVE  Wire'
BY DEF Wire, StreamPlain

LEMMA ReachedPlain ==
    ASSUME NEW r, Reached(r), PlainAt(r), UNCHANGED target
    PROVE  Reached(r)'
<1>1. local'[r] # "absent" \/ packets'[r] # <<>> => r \in up'
    BY DEF Reached, PlainAt, StoreFollows, InFollows, LinkFollows
<1>2. r \in up' => r \in online' /\ ~CloseUp(r)'
    BY DEF Reached, PlainAt, UpFollows, LinkFollows
<1>3. legs'[r] # "none" \/ frames'[r] # <<>> => Broadcast' \/ target' = r
    BY DEF Reached, PlainAt, StoreFollows, LegFollows, Broadcast
<1>4. QED BY <1>1, <1>2, <1>3 DEF Reached

LEMMA BeginsPlain ==
    ASSUME NEW r, Begins(r), Ahead' => Ahead, UNCHANGED target,
           StoreFollows(r), UpFollows(r), InFollows(r), LegFollows(r)
    PROVE  Begins(r)'
<1>1. Ahead' \/ ~NoOfferIn(r)' \/ local'[r] = "PendingOffer" =>
          ~AcceptUp(r)' /\ legs'[r] # "accepted" /\ frames'[r] = <<>>
    BY DEF Begins, StoreFollows, UpFollows, InFollows, LegFollows
<1>2. Ahead' \/ legs'[r] = "offered" => frames'[r] = <<>> /\ next'[r] = 0
    BY DEF Begins, StoreFollows, LegFollows
<1>3. outcome'[r] = "broken" =>
          /\ local'[r] = "absent" /\ ~Ahead' /\ NoOfferIn(r)'
          /\ Broadcast' /\ next'[r] = 0
    BY DEF Begins, StoreFollows, InFollows, Broadcast
<1>4. QED BY <1>1, <1>2, <1>3 DEF Begins

LEMMA WaitsPlain ==
    ASSUME NEW r, Waits(r), StreamPlain, SenderPlain, UNCHANGED target, LegFollows(r)
    PROVE  Waits(r)'
BY DEF Waits, StreamPlain, SenderPlain, LegFollows

LEMMA InStepPlain ==
    ASSUME NEW r, InStep(r), StreamPlain, UNCHANGED target,
           StoreFollows(r), LegFollows(r)
    PROVE  InStep(r)'
<1>1. CASE local'[r] = "Receiving"
    <2>1. /\ local[r] = "Receiving" /\ frames'[r] = frames[r] /\ next'[r] = next[r]
          /\ legs'[r] = "accepted" => legs[r] = "accepted"
        BY <1>1 DEF StoreFollows, LegFollows
    <2>2. Expect(r)' = Expect(r) /\ (Started(r)' => Started(r))
        BY <2>1 DEF Expect, Started
    <2>3. QED BY <2>1, <2>2 DEF InStep, StreamPlain
<1>2. CASE local'[r] # "Receiving"
    <2>1. CASE frames'[r] = frames[r] BY <1>2, <2>1 DEF InStep
    <2>2. CASE frames'[r] = <<>>
        <3>1. Len(frames'[r]) = 0 BY <2>2
        <3>2. QED BY <1>2, <3>1 DEF InStep
    <2>3. QED BY <2>1, <2>2 DEF StoreFollows
<1>3. QED BY <1>1, <1>2

LEMMA FollowsPlain ==
    ASSUME NEW r, FollowsFile(r), StreamPlain, SenderPlain, PlainAt(r), UNCHANGED target
    PROVE  FollowsFile(r)'
BY ReachedPlain, BeginsPlain, WaitsPlain, InStepPlain
   DEF FollowsFile, PlainAt, SenderPlain

LEMMA PlainStep ==
    ASSUME OrderInv, StreamPlain, SenderPlain, SenderFits',
           \A r \in Receivers : PlainAt(r), UNCHANGED target
    PROVE  OrderInv'
BY WirePlain, FollowsPlain DEF OrderInv, SenderPlain

-----------------------------------------------------------------------------
(* What becomes of the wires and of the queues of packets                  *)

UpcomingFalls == \A k : Upcoming(k)' => Upcoming(k)

UpPlain == StreamPlain /\ \A r \in Receivers : UpFollows(r)

InPlain ==
    /\ AcceptIn' => AcceptIn
    /\ \A r \in Receivers : packets'[r] # <<>> => packets[r] # <<>> \/ r \in up

LEMMA SameStream ==
    ASSUME uplink'[Sender] = uplink[Sender], UpcomingFalls
    PROVE  StreamPlain
BY DEF StreamPlain, UpcomingFalls

LEMMA SameUpPlain ==
    ASSUME UNCHANGED uplink, UpcomingFalls
    PROVE  UpPlain
BY SameStream DEF UpPlain, UpFollows, AcceptUp, CloseUp

LEMMA ChunksStay ==
    ASSUME uplink[Sender] \in Seq(Frame), uplink'[Sender] \in Seq(Frame),
           NEW d \in Nat, SameChunks(uplink'[Sender], uplink[Sender], d), UpcomingFalls
    PROVE  StreamPlain
<1> DEFINE q == uplink[Sender]
<1> DEFINE p == uplink'[Sender]
<1>1. q \in Seq(Frame) /\ p \in Seq(Frame) /\ SameChunks(p, q, d)
    OBVIOUS
<1> HIDE DEF p, q
<1>2. /\ NoChunk(q) <=> NoChunk(p)
      /\ Ordered(q) => Ordered(p)
      /\ \A k : Starts(q, k) => Starts(p, k)
      /\ \A k : Ends(q, k) => Ends(p, k)
    BY <1>1, SameChunksFacts
<1>3. QED BY <1>2 DEF StreamPlain, UpcomingFalls, p, q

\* The uplinks of receivers that get no frame but such as neither accept nor end.
LEMMA UpFollowsOld ==
    ASSUME NEW r,
           \A i \in 1 .. Len(uplink'[r]) :
              \/ \E j \in 1 .. Len(uplink[r]) : uplink'[r][i] = uplink[r][j]
              \/ uplink'[r][i].kind \notin {"accept", "close"}
              \/ uplink'[r][i].kind = "close" /\ r \notin up'
    PROVE  UpFollows(r)
BY DEF UpFollows, AcceptUp, CloseUp

LEMMA SendUpPlain ==
    ASSUME WireTypes, NEW c \in Clients, NEW f \in Frame, Send(c, f),
           f.kind \notin {"chunk", "accept", "close"}, UpcomingFalls
    PROVE  UpPlain
<1>1. /\ uplink'[c] = Append(uplink[c], f)
      /\ \A d \in Clients \ {c} : uplink'[d] = uplink[d]
      /\ \A d \in Clients : uplink[d] \in Seq(Frame) /\ uplink'[d] \in Seq(Frame)
    BY SendTypes DEF WireTypes
<1>2. StreamPlain
    <2>1. CASE c = Sender
        <3>1. SameChunks(uplink'[Sender], uplink[Sender], 0)
            BY <1>1, <2>1, AppendPlain
        <3>2. QED BY <1>1, <3>1, SetFacts, ChunksStay
    <2>2. CASE c # Sender BY <1>1, <2>2, SetFacts, SameStream
    <2>3. QED BY <2>1, <2>2
<1>3. ASSUME NEW r \in Receivers PROVE UpFollows(r)
    <2>1. CASE c = r
        <3>1. /\ Len(uplink[r]) \in Nat /\ Len(uplink'[r]) = Len(uplink[r]) + 1
              /\ \A i \in 1 .. Len(uplink[r]) : uplink'[r][i] = uplink[r][i]
              /\ uplink'[r][Len(uplink[r]) + 1] = f
            BY <1>1, <2>1, AppendFacts
        <3>2. \A i \in 1 .. Len(uplink'[r]) :
                \/ i \in 1 .. Len(uplink[r]) /\ uplink'[r][i] = uplink[r][i]
                \/ uplink'[r][i] = f
            BY <3>1
        <3>3. QED BY <3>2, UpFollowsOld
    <2>2. CASE c # r
        <3>1. uplink'[r] = uplink[r] BY <1>1, <2>2, SetFacts
        <3>2. QED BY <3>1, UpFollowsOld
    <2>3. QED BY <2>1, <2>2
<1>4. QED BY <1>2, <1>3 DEF UpPlain

LEMMA ReceiveFollows ==
    ASSUME WireTypes, NEW c \in Clients, NEW kind, Receive(c, kind), NEW r \in Receivers
    PROVE  /\ UpFollows(r)
           /\ c = r /\ kind = "accept" => AcceptUp(r)
           /\ c = r /\ kind = "close" => CloseUp(r)
<1>1. /\ uplink'[c] = Tail(uplink[c]) /\ uplink[c] # <<>> /\ uplink[c][1].kind = kind
      /\ \A d \in Clients \ {c} : uplink'[d] = uplink[d]
      /\ \A d \in Clients : uplink[d] \in Seq(Frame)
    BY ReceiveTypes DEF WireTypes
<1>2. CASE c = r
    <2>1. /\ Len(uplink[r]) \in Nat /\ Len(uplink[r]) >= 1
          /\ Len(uplink'[r]) = Len(uplink[r]) - 1
          /\ \A i \in 1 .. Len(uplink[r]) - 1 : uplink'[r][i] = uplink[r][i + 1]
        <3>1. /\ uplink[r] \in Seq(Frame) /\ uplink[r] # <<>>
              /\ uplink'[r] = Tail(uplink[r])
            BY <1>1, <1>2
        <3>2. QED BY <3>1, TailFacts
    <2>2. \A i \in 1 .. Len(uplink'[r]) :
              i + 1 \in 1 .. Len(uplink[r]) /\ uplink'[r][i] = uplink[r][i + 1]
        BY <2>1
    <2>3. UpFollows(r) BY <2>2, UpFollowsOld
    <2>4. 1 \in 1 .. Len(uplink[r]) /\ uplink[r][1].kind = kind BY <1>1, <1>2, <2>1
    <2>5. QED BY <2>3, <2>4 DEF AcceptUp, CloseUp
<1>3. CASE c # r
    <2>1. uplink'[r] = uplink[r] BY <1>1, <1>3, SetFacts
    <2>2. QED BY <1>3, <2>1, UpFollowsOld
<1>4. QED BY <1>2, <1>3

LEMMA ReceiveUpPlain ==
    ASSUME WireTypes, NEW c \in Clients, NEW kind, Receive(c, kind),
           c # Sender \/ kind # "chunk", UpcomingFalls
    PROVE  UpPlain
<1>1. /\ uplink'[c] = Tail(uplink[c]) /\ uplink[c] # <<>> /\ uplink[c][1].kind = kind
      /\ \A d \in Clients \ {c} : uplink'[d] = uplink[d]
      /\ \A d \in Clients : uplink[d] \in Seq(Frame) /\ uplink'[d] \in Seq(Frame)
    BY ReceiveTypes DEF WireTypes
<1>2. StreamPlain
    <2>1. CASE c = Sender
        <3>1. SameChunks(uplink'[Sender], uplink[Sender], 1)
            BY <1>1, <2>1, TailPlain
        <3>2. QED BY <1>1, <3>1, SetFacts, ChunksStay
    <2>2. CASE c # Sender BY <1>1, <2>2, SetFacts, SameStream
    <2>3. QED BY <2>1, <2>2
<1>3. QED BY <1>2, ReceiveFollows DEF UpPlain

LEMMA HangupUpPlain ==
    ASSUME WireTypes, ClientTypes, Wire, NEW c \in Clients, Hangup(c), UpcomingFalls,
           c = Sender => \A k : Upcoming(k)' => Unsent
    PROVE  UpPlain
<1>1. PICK n \in 0 .. Len(uplink[c]) :
          uplink'[c] = Append(SubSeq(uplink[c], 1, n), Packet("close"))
    BY HangupTypes
<1>2. /\ \A d \in Clients \ {c} : uplink'[d] = uplink[d]
      /\ \A d \in Clients : uplink[d] \in Seq(Frame) /\ uplink'[d] \in Seq(Frame)
      /\ up' = up \ {c}
    BY HangupTypes DEF WireTypes, Hangup
<1> DEFINE s == SubSeq(uplink[c], 1, n)
<1>3. Packet("close") \in Frame /\ Packet("close").kind = "close" BY SetFacts
<1>4. /\ s \in Seq(Frame) /\ Len(s) = n /\ Len(uplink[c]) \in Nat
      /\ \A i \in 1 .. n : s[i] = uplink[c][i]
    BY <1>2, CutFacts
<1>5. /\ NoChunk(uplink[c]) => NoChunk(s)
      /\ Ordered(uplink[c]) => Ordered(s)
      /\ \A k : Starts(uplink[c], k) => Starts(s, k)
    BY <1>2, CutPlain
<1> HIDE DEF s
<1>6. uplink'[c] = Append(s, Packet("close")) BY <1>1 DEF s
<1>7. SameChunks(uplink'[c], s, 0) BY <1>3, <1>4, <1>6, AppendPlain
<1>8. StreamPlain
    <2>1. CASE c = Sender
        <3>1. /\ NoChunk(s) => NoChunk(uplink'[Sender])
              /\ Ordered(s) => Ordered(uplink'[Sender])
              /\ \A k : Starts(s, k) => Starts(uplink'[Sender], k)
            BY <1>2, <1>4, <1>7, <2>1, SameChunksFacts
        <3>2. ASSUME NEW k, Upcoming(k)'
              PROVE  /\ Upcoming(k) /\ Ends(uplink'[Sender], k)
                     /\ NoChunk(uplink[Sender])
            <4>1. Upcoming(k) /\ Unsent BY <2>1, <3>2 DEF UpcomingFalls
            <4>2. NoChunk(uplink[Sender]) BY <4>1 DEF Wire
            <4>3. NoChunk(uplink'[Sender]) BY <1>5, <2>1, <3>1, <4>2
            <4>4. QED BY <4>1, <4>2, <4>3 DEF Ends, NoChunk
        <3>3. QED BY <1>5, <2>1, <3>1, <3>2 DEF StreamPlain
    <2>2. CASE c # Sender BY <1>2, <2>2, SetFacts, SameStream
    <2>3. QED BY <2>1, <2>2
<1>9. ASSUME NEW r \in Receivers PROVE UpFollows(r)
    <2>1. CASE c = r
        <3>1. /\ Len(uplink'[r]) = n + 1
              /\ \A i \in 1 .. n : uplink'[r][i] = s[i]
              /\ uplink'[r][n + 1] = Packet("close")
            BY <1>3, <1>4, <1>6, <2>1, AppendFacts
        <3>2. \A i \in 1 .. Len(uplink'[r]) :
                \/ i \in 1 .. Len(uplink[r]) /\ uplink'[r][i] = uplink[r][i]
                \/ uplink'[r][i].kind = "close"
            BY <1>3, <1>4, <2>1, <3>1
        <3>3. r \notin up' BY <1>2, <2>1
        <3>4. QED BY <3>2, <3>3, UpFollowsOld
    <2>2. CASE c # r
        <3>1. uplink'[r] = uplink[r] BY <1>2, <2>2, SetFacts
        <3>2. QED BY <3>1, UpFollowsOld
    <2>3. QED BY <2>1, <2>2
<1>10. QED BY <1>8, <1>9 DEF UpPlain

LEMMA SameInPlain == ASSUME UNCHANGED packets PROVE InPlain
BY DEF InPlain, AcceptIn

LEMMA TakeInPlain ==
    ASSUME WireTypes, NEW c \in Clients, NEW kind, Take(c, kind)
    PROVE  InPlain /\ (kind = "accept" /\ c = Sender => AcceptIn)
<1>1. /\ packets'[c] = Tail(packets[c]) /\ packets[c] # <<>> /\ packets[c][1] = kind
      /\ \A d \in Clients \ {c} : packets'[d] = packets[d]
      /\ \A d \in Clients : packets[d] \in Seq(Kinds)
    BY TakeTypes DEF WireTypes
<1>2. /\ Len(packets[c]) \in Nat /\ Len(packets[c]) >= 1
      /\ Len(packets'[c]) = Len(packets[c]) - 1
      /\ \A i \in 1 .. Len(packets[c]) - 1 : packets'[c][i] = packets[c][i + 1]
    BY <1>1, TailFacts
<1>3. \A i \in 1 .. Len(packets'[c]) :
          i + 1 \in 1 .. Len(packets[c]) /\ packets'[c][i] = packets[c][i + 1]
    BY <1>2
<1>4. AcceptIn' => AcceptIn
    <2>1. CASE c = Sender BY <1>3, <2>1 DEF AcceptIn
    <2>2. CASE c # Sender
        <3>1. packets'[Sender] = packets[Sender] BY <1>1, <2>2, SetFacts
        <3>2. QED BY <3>1 DEF AcceptIn
    <2>3. QED BY <2>1, <2>2
<1>5. kind = "accept" /\ c = Sender => AcceptIn
    <2>1. 1 \in 1 .. Len(packets[c]) BY <1>2
    <2>2. QED BY <1>1, <2>1 DEF AcceptIn
<1>6. \A r \in Receivers : packets'[r] # <<>> => packets[r] # <<>>
    BY <1>1, SetFacts
<1>7. QED BY <1>4, <1>5, <1>6 DEF InPlain

LEMMA DeliverInPlain ==
    ASSUME WireTypes, NEW conns, NEW kind \in Kinds, Deliver(conns, kind)
    PROVE  /\ \A r \in Receivers : packets'[r] # <<>> => packets[r] # <<>> \/ r \in up
           /\ kind # "accept" => InPlain
<1>1. \A r \in Receivers : packets'[r] # <<>> => packets[r] # <<>> \/ r \in up
    BY SetFacts DEF Deliver, Listening
<1>2. ASSUME kind # "accept", AcceptIn' PROVE AcceptIn
    <2>1. Sender \in Clients /\ packets[Sender] \in Seq(Kinds) BY SetFacts DEF WireTypes
    <2>2. CASE packets'[Sender] = packets[Sender] BY <1>2, <2>2 DEF AcceptIn
    <2>3. CASE packets'[Sender] = Append(packets[Sender], kind)
        <3>1. /\ Len(packets[Sender]) \in Nat
              /\ Len(packets'[Sender]) = Len(packets[Sender]) + 1
              /\ \A i \in 1 .. Len(packets[Sender]) :
                    packets'[Sender][i] = packets[Sender][i]
              /\ packets'[Sender][Len(packets[Sender]) + 1] = kind
            BY <2>1, <2>3, AppendFacts
        <3>2. QED BY <1>2, <3>1 DEF AcceptIn
    <2>4. QED BY <2>1, <2>2, <2>3, DeliverTypes
<1>3. QED BY <1>1, <1>2 DEF InPlain

LEMMA ClearInPlain ==
    ASSUME WireTypes, NEW c \in Clients, packets' = [packets EXCEPT ![c] = <<>>]
    PROVE  InPlain /\ packets'[c] = <<>>
<1>1. \A d \in Clients : packets'[d] = packets[d] \/ packets'[d] = <<>>
    BY DEF WireTypes
<1>2. AcceptIn' => AcceptIn
    <2>1. CASE packets'[Sender] = packets[Sender] BY <2>1 DEF AcceptIn
    <2>2. CASE packets'[Sender] = <<>>
        <3>1. Len(packets'[Sender]) = 0 BY <2>2
        <3>2. QED BY <3>1 DEF AcceptIn
    <2>3. QED BY <1>1, <2>1, <2>2, SetFacts
<1>3. packets'[c] = <<>> BY DEF WireTypes
<1>4. QED BY <1>1, <1>2, <1>3, SetFacts DEF InPlain

-----------------------------------------------------------------------------
(* The steps of the server that keep to this                               *)

LEMMA KeepsAhead == Keeps => (Ahead' => Ahead) /\ (Fresh' => Fresh) /\ InKeeps
BY DEF Keeps, UpKeeps, SenderFollows, Ahead

LEMMA SameTask ==
    ASSUME UNCHANGED <<task, flow>>
    PROVE  UpcomingFalls /\ (Unsent' => Unsent) /\ (Idle => Idle')
BY DEF UpcomingFalls, Upcoming, Unsent, Idle

LEMMA SameSenderFits ==
    ASSUME SenderFits, UNCHANGED <<task, flow>>, Fresh' => Fresh,
           local'[Sender] \in {local[Sender], "absent"}, Sender \in up' => Sender \in up
    PROVE  SenderFits'
BY DEF SenderFits

LEMMA ServerPlainStep ==
    ASSUME OrderInv, Keeps, UpPlain, InPlain,
           UNCHANGED <<target, clientVars, frames>>, UNCHANGED flow,
           \A r \in Receivers : LegFollows(r),
           \A r \in Receivers : r \in online => r \in online' \/ CloseUp(r)
    PROVE  OrderInv'
<1>1. UNCHANGED <<local, next, task, outcome, up, frames>> BY DEF clientVars
<1>2. (Ahead' => Ahead) /\ (Fresh' => Fresh) /\ InKeeps BY KeepsAhead
<1>3. SenderPlain BY <1>1, <1>2, SameTask DEF SenderPlain, InPlain
<1>4. SenderFits' BY <1>1, <1>2, SameSenderFits DEF OrderInv
<1>5. ASSUME NEW r \in Receivers PROVE PlainAt(r)
    <2>1. StoreFollows(r) BY <1>1 DEF StoreFollows
    <2>2. UpFollows(r) BY DEF UpPlain
    <2>3. InFollows(r) BY <1>2 DEF InFollows, InKeeps, InPlain
    <2>4. LinkFollows(r) BY <1>1 DEF LinkFollows
    <2>5. QED BY <2>1, <2>2, <2>3, <2>4 DEF PlainAt
<1>6. QED BY <1>3, <1>4, <1>5, PlainStep DEF UpPlain

LEMMA RelayCompleteOrder ==
    ASSUME Inv, OrderInv, RelayComplete, UNCHANGED flow
    PROVE  OrderInv'
<1>1. WireTypes BY InvParts
<1>2. UNCHANGED <<target, clientVars, frames, legs, online>> BY DEF RelayComplete
<1>3. UNCHANGED <<task, flow>> BY <1>2 DEF clientVars
<1>4. UpPlain
    BY <1>1, <1>3, SetFacts, SameTask, ReceiveUpPlain DEF RelayComplete
<1>5. InPlain
    <2>1. {"complete", "error"} \subseteq Kinds \ {"accept"} BY DEF Kinds
    <2>2. CASE Deliver(Addressed, "complete") BY <1>1, <2>1, <2>2, DeliverInPlain
    <2>3. CASE Deliver({Sender}, "error") BY <1>1, <2>1, <2>3, DeliverInPlain
    <2>4. QED BY <2>2, <2>3 DEF RelayComplete, Complain
<1>6. \A r \in Receivers : LegFollows(r) BY <1>2 DEF LegFollows
<1>7. QED BY <1>2, <1>4, <1>5, <1>6, RelayCompleteStep, ServerPlainStep

LEMMA RelayEndOrder ==
    ASSUME Inv, OrderInv, NEW c \in Clients, NEW kind \in {"reject", "abort"},
           RelayEnd(c, kind), UNCHANGED flow
    PROVE  OrderInv'
<1>1. WireTypes BY InvParts
<1>2. UNCHANGED <<target, clientVars, frames, online>> BY DEF RelayEnd
<1>3. UNCHANGED <<task, flow>> BY <1>2 DEF clientVars
<1>4. UpPlain
    BY <1>1, <1>3, SameTask, ReceiveUpPlain DEF RelayEnd
<1>5. InPlain
    <2>1. CASE UNCHANGED packets BY <2>1, SameInPlain
    <2>2. CASE \E conns : Deliver(conns, kind) \/ Deliver(conns, "error")
        <3>1. {kind, "error"} \subseteq Kinds \ {"accept"} BY DEF Kinds
        <3>2. QED BY <1>1, <2>2, <3>1, DeliverInPlain
    <2>3. QED BY <2>1, <2>2 DEF RelayEnd, Complain
<1>6. \A r \in Receivers : LegFollows(r) BY DEF RelayEnd, LegFollows, NoLegs
<1>7. QED BY <1>2, <1>4, <1>5, <1>6, RelayEndStep, ServerPlainStep

LEMMA RelayAckOrder ==
    ASSUME Inv, OrderInv, NEW r \in Receivers, NEW kind \in {"ackOk", "ackRejected"},
           RelayAck(r, kind), UNCHANGED flow
    PROVE  OrderInv'
<1>1. WireTypes BY InvParts
<1>2. UNCHANGED <<target, clientVars, frames, online>> BY DEF RelayAck
<1>3. UNCHANGED <<task, flow>> BY <1>2 DEF clientVars
<1>4. UpPlain
    BY <1>1, <1>3, SetFacts, SameTask, ReceiveUpPlain DEF RelayAck
<1>5. InPlain
    <2>1. CASE UNCHANGED packets BY <2>1, SameInPlain
    <2>2. CASE Deliver({Sender}, kind)
        <3>1. kind \in Kinds /\ kind # "accept" BY DEF Kinds
        <3>2. QED BY <1>1, <2>2, <3>1, DeliverInPlain
    <2>3. QED BY <2>1, <2>2 DEF RelayAck
<1>6. legs' \in {legs, NoLegs} BY DEF RelayAck
<1>7. \A d \in Receivers : LegFollows(d) BY <1>6 DEF LegFollows, NoLegs
<1>8. QED BY <1>2, <1>4, <1>5, <1>7, RelayAckStep, ServerPlainStep

LEMMA EndSessionOrder ==
    ASSUME Inv, OrderInv, NEW c \in Clients, EndSession(c), UNCHANGED flow
    PROVE  OrderInv'
<1>1. WireTypes BY InvParts
<1>2. UNCHANGED <<target, clientVars, frames>> BY DEF EndSession
<1>3. UNCHANGED <<task, flow>> BY <1>2 DEF clientVars
<1>4. Receive(c, "close") /\ online' = online \ {c} BY DEF EndSession
<1>5. UpPlain BY <1>1, <1>3, <1>4, SameTask, ReceiveUpPlain
<1>6. InPlain
    <2>1. PICK conns : Deliver(conns, "abort") BY DEF EndSession
    <2>2. "abort" \in Kinds BY DEF Kinds
    <2>3. QED BY <1>1, <2>1, <2>2, DeliverInPlain
<1>7. \A r \in Receivers : LegFollows(r) BY DEF EndSession, LegFollows
<1>8. \A r \in Receivers : r \in online => r \in online' \/ CloseUp(r)
    BY <1>1, <1>4, ReceiveFollows
<1>9. QED BY <1>2, <1>5, <1>6, <1>7, <1>8, EndSessionStep, ServerPlainStep

-----------------------------------------------------------------------------
(* The steps of the clients that keep to this                              *)

LEMMA ClientPlainStep ==
    ASSUME OrderInv, UpPlain, InPlain, InKeeps, Ahead' => Ahead,
           UNCHANGED <<target, serverVars>>,
           SenderFits', Unsent' => Unsent, Idle /\ ~AcceptIn => Idle',
           \A r \in Receivers : StoreFollows(r),
           \A r \in Receivers : r \in up' => r \in up,
           \A r \in Receivers :
              r \in up \ up' => packets'[r] = <<>> /\ local'[r] = "absent"
    PROVE  OrderInv'
<1>1. UNCHANGED <<legs, online>> BY DEF serverVars
<1>2. SenderPlain BY DEF SenderPlain, InPlain
<1>3. ASSUME NEW r \in Receivers PROVE PlainAt(r)
    <2>1. UpFollows(r) BY DEF UpPlain
    <2>2. InFollows(r) BY DEF InFollows, InKeeps, InPlain
    <2>3. LinkFollows(r) BY <1>1 DEF LinkFollows
    <2>4. LegFollows(r) BY <1>1 DEF LegFollows
    <2>5. QED BY <2>1, <2>2, <2>3, <2>4 DEF PlainAt
<1>4. QED BY <1>2, <1>3, PlainStep DEF UpPlain

\* A file may leave its store, but not for a broken stream.
LEMMA ForgetFollows ==
    ASSUME Inv, NEW c \in Clients, NEW why \in Outcomes \ {"broken"},
           Forget(c, why) \/ UNCHANGED <<local, outcome>>,
           UNCHANGED <<next, frames>>
    PROVE  /\ \A r \in Receivers : StoreFollows(r)
           /\ local'[Sender] \in {local[Sender], "absent"}
<1>1. ClientTypes BY InvParts
<1>2. \A d \in Clients : \/ local'[d] = "absent" /\ outcome'[d] = why
                         \/ local'[d] = local[d] /\ outcome'[d] = outcome[d]
    <2>1. CASE Forget(c, why) BY <1>1, <2>1, ForgetTypes
    <2>2. CASE UNCHANGED <<local, outcome>> BY <2>2
    <2>3. QED BY <2>1, <2>2
<1>3. QED BY <1>2, SetFacts DEF StoreFollows

\* A client handles a packet or a word of its user, and its file may end.
LEMMA EndsPlainStep ==
    ASSUME Inv, OrderInv, Keeps, UpPlain, InPlain,
           NEW c \in Clients, NEW why \in Outcomes \ {"broken"},
           Forget(c, why) \/ UNCHANGED <<local, outcome>>,
           UNCHANGED <<target, next, task, frames, up, serverVars>>, UNCHANGED flow
    PROVE  OrderInv'
<1>1. (Ahead' => Ahead) /\ (Fresh' => Fresh) /\ InKeeps BY KeepsAhead
<1>2. /\ \A r \in Receivers : StoreFollows(r)
      /\ local'[Sender] \in {local[Sender], "absent"}
    BY ForgetFollows
<1>3. SenderFits' BY <1>1, <1>2, SameSenderFits DEF OrderInv
<1>4. (Unsent' => Unsent) /\ (Idle => Idle') BY SameTask
<1>5. QED BY <1>1, <1>2, <1>3, <1>4, ClientPlainStep

LEMMA RejectOrder ==
    ASSUME Inv, OrderInv, NEW r \in Receivers, Reject(r), UNCHANGED flow
    PROVE  OrderInv'
<1>1. WireTypes /\ r \in Clients BY InvParts, SetFacts
<1>2. /\ Forget(r, "cancelled") /\ Send(r, Packet("reject"))
      /\ UNCHANGED <<target, next, task, packets, frames, up, serverVars>>
    BY DEF Reject
<1>3. Packet("reject") \in Frame /\ Packet("reject").kind = "reject"
    BY SetFacts DEF Kinds
<1>4. UpPlain BY <1>1, <1>2, <1>3, SameTask, SendUpPlain
<1>5. "cancelled" \in Outcomes \ {"broken"} BY DEF Outcomes
<1>6. QED BY <1>1, <1>2, <1>4, <1>5, SameInPlain, RejectStep, EndsPlainStep

LEMMA AbortOrder ==
    ASSUME Inv, OrderInv, NEW c \in Clients, Abort(c), UNCHANGED flow
    PROVE  OrderInv'
<1>1. WireTypes BY InvParts
<1>2. /\ Forget(c, "cancelled")
      /\ UNCHANGED uplink \/ Send(c, Packet("abort"))
      /\ UNCHANGED <<target, next, task, packets, frames, up, serverVars>>
    BY DEF Abort
<1>3. Packet("abort") \in Frame /\ Packet("abort").kind = "abort"
    BY SetFacts DEF Kinds
<1>4. UpPlain BY <1>1, <1>2, <1>3, SameTask, SameUpPlain, SendUpPlain
<1>5. "cancelled" \in Outcomes \ {"broken"} BY DEF Outcomes
<1>6. QED BY <1>2, <1>4, <1>5, SameInPlain, AbortStep, EndsPlainStep

LEMMA OnEndOrder ==
    ASSUME Inv, OrderInv, NEW c \in Clients, NEW kind,
           NEW why \in {"cancelled", "refused"}, OnEnd(c, kind, why), UNCHANGED flow
    PROVE  OrderInv'
<1>1. WireTypes BY InvParts
<1>2. /\ Take(c, kind)
      /\ Forget(c, why) \/ UNCHANGED <<local, outcome>>
      /\ UNCHANGED <<target, next, task, uplink, frames, up, serverVars>>
    BY DEF OnEnd
<1>3. UpPlain BY <1>2, SameTask, SameUpPlain
<1>4. InPlain BY <1>1, <1>2, TakeInPlain
<1>5. /\ why \in Outcomes \ {"broken"}
      /\ why \in Outcomes \ {"none", "delivered"}
    BY DEF Outcomes
<1>6. Keeps BY <1>5, OnEndStep
<1>7. QED BY <1>2, <1>3, <1>4, <1>5, <1>6, EndsPlainStep

LEMMA OnErrorOrder ==
    ASSUME Inv, OrderInv, OnError, UNCHANGED flow
    PROVE  OrderInv'
<1>1. WireTypes /\ Sender \in Clients BY InvParts, SetFacts
<1>2. /\ Take(Sender, "error")
      /\ UNCHANGED <<target, local, outcome, next, task, uplink, frames, up, serverVars>>
    BY DEF OnError, clientVars
<1>3. UpPlain BY <1>2, SameTask, SameUpPlain
<1>4. InPlain BY <1>1, <1>2, TakeInPlain
<1>5. "none" \in Outcomes \ {"broken"} BY DEF Outcomes
<1>6. QED BY <1>1, <1>2, <1>3, <1>4, <1>5, OnErrorStep, EndsPlainStep

LEMMA OnAckOrder ==
    ASSUME Inv, OrderInv, NEW status \in {"delivered", "refused"}, OnAck(status),
           UNCHANGED flow
    PROVE  OrderInv'
<1>1. WireTypes /\ Sender \in Clients BY InvParts, SetFacts
<1>2. /\ \E kind : Take(Sender, kind)
      /\ Forget(Sender, status) \/ UNCHANGED <<local, outcome>>
      /\ UNCHANGED <<target, next, task, uplink, frames, up, serverVars>>
    BY DEF OnAck
<1>3. UpPlain BY <1>2, SameTask, SameUpPlain
<1>4. InPlain BY <1>1, <1>2, TakeInPlain
<1>5. status \in Outcomes \ {"broken"} BY DEF Outcomes
<1>6. QED BY <1>1, <1>2, <1>3, <1>4, <1>5, OnAckStep, EndsPlainStep

LEMMA OnCompleteOrder ==
    ASSUME Inv, OrderInv, NEW r \in Receivers, OnComplete(r), UNCHANGED flow
    PROVE  OrderInv'
<1>1. WireTypes /\ r \in Clients BY InvParts, SetFacts
<1>2. /\ Take(r, "complete")
      /\ UNCHANGED <<target, next, task, frames, up, serverVars>>
    BY DEF OnComplete
<1>3. InPlain BY <1>1, <1>2, TakeInPlain
<1>4. UpcomingFalls BY <1>2, SameTask
<1>5. ASSUME NEW why \in {"saved", "incomplete"}, NEW kind \in {"ackOk", "ackRejected"},
             Forget(r, why), Send(r, Packet(kind))
      PROVE  OrderInv'
    <2>1. Packet(kind) \in Frame /\ Packet(kind).kind = kind BY SetFacts DEF Kinds
    <2>2. UpPlain BY <1>1, <1>4, <1>5, <2>1, SendUpPlain
    <2>3. why \in Outcomes \ {"broken"} BY DEF Outcomes
    <2>4. QED BY <1>1, <1>2, <1>3, <1>5, <2>2, <2>3, OnCompleteStep, EndsPlainStep
<1>6. CASE UNCHANGED <<local, outcome, uplink>>
    <2>1. UpPlain BY <1>4, <1>6, SameUpPlain
    <2>2. "none" \in Outcomes \ {"broken"} BY DEF Outcomes
    <2>3. QED BY <1>1, <1>2, <1>3, <1>6, <2>1, <2>2, OnCompleteStep, EndsPlainStep
<1>7. QED BY <1>5, <1>6 DEF OnComplete

LEMMA LeaveOrder ==
    ASSUME Inv, OrderInv, NEW c \in Clients, Leave(c), c = Sender => flow = "none",
           UNCHANGED flow
    PROVE  OrderInv'
<1>1. WireTypes /\ ClientTypes /\ TaskType BY InvParts
<1>2. /\ c \in up /\ Hangup(c)
      /\ Forget(c, "disconnected") \/ UNCHANGED <<local, outcome>>
      /\ packets' = [packets EXCEPT ![c] = <<>>]
      /\ frames' = [r \in Receivers |-> IF r = c THEN <<>> ELSE frames[r]]
      /\ UNCHANGED <<target, next, serverVars>>
    BY DEF Leave
<1>3. local'[c] = "absent" /\ up' = up \ {c}
    <2>1. up' = up \ {c} BY <1>2 DEF Hangup
    <2>2. CASE local[c] # "absent" BY <1>1, <2>1, <2>2, ForgetTypes DEF Leave, Outcomes
    <2>3. CASE local[c] = "absent" BY <2>1, <2>3 DEF Leave
    <2>4. QED BY <2>2, <2>3
<1>4. /\ c = Sender => task'.at = "ended"
      /\ c # Sender => UNCHANGED task
    BY <1>1 DEF Leave, TaskType
<1>5. /\ UpcomingFalls /\ (Unsent' => Unsent) /\ (Idle => Idle')
      /\ c = Sender => \A k : Upcoming(k)' => Unsent
    <2>1. CASE c = Sender BY <1>4, <2>1 DEF UpcomingFalls, Upcoming, Unsent, Idle
    <2>2. CASE c # Sender BY <1>4, <2>2, SameTask
    <2>3. QED BY <2>1, <2>2
<1>6. UpPlain BY <1>1, <1>2, <1>5, HangupUpPlain DEF OrderInv
<1>7. InPlain /\ packets'[c] = <<>> BY <1>1, <1>2, ClearInPlain
<1>8. (Ahead' => Ahead) /\ (Fresh' => Fresh) /\ InKeeps BY LeaveStep, KeepsAhead
<1>9. /\ \A d \in Clients : \/ local'[d] = "absent" /\ outcome'[d] = "disconnected"
                            \/ local'[d] = local[d] /\ outcome'[d] = outcome[d]
      /\ \A d \in Clients \ {c} : local'[d] = local[d]
    <2>1. CASE Forget(c, "disconnected") BY <1>1, <2>1, ForgetTypes DEF Outcomes
    <2>2. CASE UNCHANGED <<local, outcome>> BY <2>2
    <2>3. QED BY <1>2, <2>1, <2>2
<1>10. \A r \in Receivers : StoreFollows(r)
    <2>1. ASSUME NEW r \in Receivers PROVE StoreFollows(r)
        <3>1. frames'[r] = frames[r] \/ (frames'[r] = <<>> /\ local'[r] = "absent")
            BY <1>2, <1>3
        <3>2. QED BY <1>2, <1>9, <3>1, SetFacts DEF StoreFollows
    <2>2. QED BY <2>1
<1>11. SenderFits'
    <2>1. CASE c = Sender
        BY <1>3, <1>4, <2>1 DEF SenderFits
    <2>2. CASE c # Sender
        <3>1. local'[Sender] = local[Sender] BY <1>9, <2>2, SetFacts
        <3>2. QED BY <1>3, <1>4, <1>8, <2>2, <3>1, SameSenderFits DEF OrderInv
    <2>3. QED BY <2>1, <2>2
<1>12. QED
    BY <1>2, <1>3, <1>5, <1>6, <1>7, <1>8, <1>10, <1>11, ClientPlainStep

\* What the invariant says of a send task that runs.
LEMMA TaskRuns ==
    ASSUME SenderFits, task.at # "none"
    PROVE  /\ flow = "none" /\ local[Sender] # "WaitingAccept"
           /\ ~(Fresh /\ Sender \in up)
BY DEF SenderFits

\* A step of the session that sends the file: of its store, or of its send task.
LEMMA SessionStep ==
    ASSUME Inv, OrderInv, Ahead' => Ahead, UpPlain, InPlain, InKeeps,
           SenderFits', Unsent' => Unsent, Idle /\ ~AcceptIn => Idle',
           \A r \in Receivers : local'[r] = local[r],
           UNCHANGED <<target, next, outcome, frames, up, serverVars>>
    PROVE  OrderInv'
<1>1. \A r \in Receivers : StoreFollows(r) BY DEF StoreFollows
<1>2. QED BY <1>1, ClientPlainStep

LEMMA OnAcceptOrder ==
    ASSUME Inv, OrderInv, OnAccept, UNCHANGED flow
    PROVE  OrderInv'
<1>1. WireTypes /\ ClientTypes /\ Sender \in Clients BY InvParts, SetFacts
<1>2. /\ Take(Sender, "accept")
      /\ UNCHANGED <<target, next, outcome, uplink, frames, up, serverVars>>
    BY DEF OnAccept
<1>3. InPlain /\ AcceptIn BY <1>1, <1>2, TakeInPlain
<1>4. (Ahead' => Ahead) /\ (Fresh' => Fresh) /\ InKeeps BY OnAcceptStep, KeepsAhead
<1>5. CASE local[Sender] = "WaitingAccept"
    <2>1. task'.at = "check" /\ task'.pos = 0
        BY <1>5 DEF OnAccept, SpawnSendTask
    <2>2. flow = "none" /\ task.at = "none"
        BY <1>5 DEF OrderInv, SenderFits
    <2>3. /\ local'[Sender] = "Sending"
          /\ \A r \in Receivers : local'[r] = local[r]
        BY <1>1, <1>5, SetFacts DEF OnAccept, TransitionTo, ClientTypes
    <2>4. UpcomingFalls /\ ~Unsent' BY <2>1, <2>2 DEF UpcomingFalls, Upcoming, Unsent
    <2>5. SenderFits'
        <3>1. ~Fresh' BY <2>2, <2>3 DEF Fresh
        <3>2. QED BY <2>2, <2>3, <3>1 DEF SenderFits
    <2>6. UpPlain BY <1>2, <2>4, SameUpPlain
    <2>7. QED BY <1>2, <1>3, <1>4, <2>3, <2>4, <2>5, <2>6, SessionStep
<1>6. CASE local[Sender] # "WaitingAccept"
    <2>1. UNCHANGED <<local, task>> BY <1>6 DEF OnAccept, TransitionTo
    <2>2. UpcomingFalls /\ (Unsent' => Unsent) /\ (Idle => Idle') BY <2>1, SameTask
    <2>3. SenderFits' BY <1>2, <1>4, <2>1, SameSenderFits DEF OrderInv
    <2>4. UpPlain BY <1>2, <2>2, SameUpPlain
    <2>5. QED BY <1>2, <1>3, <1>4, <2>1, <2>2, <2>3, <2>4, SessionStep
<1>7. QED BY <1>5, <1>6

LEMMA CheckOutgoingOrder ==
    ASSUME Inv, OrderInv, CheckOutgoing, UNCHANGED flow
    PROVE  OrderInv'
<1>1. TaskType BY InvParts
<1>2. /\ task.at = "check"
      /\ UNCHANGED <<target, local, next, outcome, wireVars, up, serverVars>>
    BY DEF CheckOutgoing
<1>3. UNCHANGED <<uplink, packets, frames>> BY <1>2 DEF wireVars
<1>4. task'.at \in {"ended", "put", "complete"} /\ task'.pos = task.pos
    BY <1>1 DEF CheckOutgoing, TaskGoes, TaskType
<1>5. /\ flow = "none" /\ local[Sender] # "WaitingAccept"
      /\ ~(Fresh /\ Sender \in up)
    BY <1>2, TaskRuns DEF OrderInv
<1>6. UpcomingFalls /\ ~Unsent' /\ ~Idle
    BY <1>2, <1>4 DEF UpcomingFalls, Upcoming, Unsent, Idle
<1>7. Keeps BY SendTaskStep DEF SendTask
<1>8. (Ahead' => Ahead) /\ InKeeps BY <1>7, KeepsAhead
<1>9. SenderFits' BY <1>2, <1>5 DEF SenderFits, Fresh
<1>10. UpPlain /\ InPlain BY <1>3, <1>6, SameUpPlain, SameInPlain
<1>11. QED BY <1>2, <1>3, <1>6, <1>8, <1>9, <1>10, SessionStep

LEMMA PutCompleteOrder ==
    ASSUME Inv, OrderInv, PutComplete, UNCHANGED flow
    PROVE  OrderInv'
<1>1. TaskType /\ WireTypes /\ Sender \in Clients BY InvParts, SetFacts
<1>2. /\ task.at = "complete" /\ Send(Sender, Packet("complete"))
      /\ UNCHANGED <<target, local, next, outcome, packets, frames, up, serverVars>>
    BY DEF PutComplete
<1>3. task'.at = "phase" BY <1>1 DEF PutComplete, TaskGoes, TaskType
<1>4. /\ flow = "none" /\ local[Sender] # "WaitingAccept"
      /\ ~(Fresh /\ Sender \in up)
    BY <1>2, TaskRuns DEF OrderInv
<1>5. UpcomingFalls /\ ~Unsent' /\ ~Idle
    BY <1>2, <1>3 DEF UpcomingFalls, Upcoming, Unsent, Idle
<1>6. Keeps BY SendTaskStep DEF SendTask
<1>7. (Ahead' => Ahead) /\ InKeeps BY <1>6, KeepsAhead
<1>8. SenderFits' BY <1>2, <1>4 DEF SenderFits, Fresh
<1>9. Packet("complete") \in Frame /\ Packet("complete").kind = "complete"
    BY SetFacts DEF Kinds
<1>10. UpPlain /\ InPlain BY <1>1, <1>2, <1>5, <1>9, SendUpPlain, SameInPlain
<1>11. QED BY <1>2, <1>5, <1>7, <1>8, <1>10, SessionStep

LEMMA AwaitAckOrder ==
    ASSUME Inv, OrderInv, AwaitAck, UNCHANGED flow
    PROVE  OrderInv'
<1>1. TaskType /\ ClientTypes BY InvParts
<1>2. /\ task.at = "phase"
      /\ UNCHANGED <<target, next, outcome, wireVars, up, serverVars>>
    BY DEF AwaitAck
<1>3. UNCHANGED <<uplink, packets, frames>> BY <1>2 DEF wireVars
<1>4. task'.at = "ended" BY <1>1 DEF AwaitAck, TaskGoes, TaskType
<1>5. /\ \A r \in Receivers : local'[r] = local[r]
      /\ local'[Sender] = local[Sender] \/ local'[Sender] = "WaitingAck"
    BY <1>1, SetFacts DEF AwaitAck, TransitionTo, ClientTypes
<1>6. /\ flow = "none" /\ local[Sender] # "WaitingAccept"
      /\ ~(Fresh /\ Sender \in up)
    BY <1>2, TaskRuns DEF OrderInv
<1>7. UpcomingFalls /\ ~Unsent' /\ ~Idle
    BY <1>2, <1>4 DEF UpcomingFalls, Upcoming, Unsent, Idle
<1>8. Keeps BY SendTaskStep DEF SendTask
<1>9. (Ahead' => Ahead) /\ (Fresh' => Fresh) /\ InKeeps BY <1>8, KeepsAhead
<1>10. SenderFits' BY <1>2, <1>5, <1>6, <1>9 DEF SenderFits
<1>11. UpPlain /\ InPlain BY <1>3, <1>7, SameUpPlain, SameInPlain
<1>12. QED BY <1>2, <1>3, <1>5, <1>7, <1>9, <1>10, <1>11, SessionStep

\* The offer of either sender.
LEMMA SendsOfferOrder ==
    ASSUME Inv, OrderInv, Fresh, Send(Sender, Packet("offer")),
           SenderFits', UpcomingFalls, Unsent' => Unsent, Idle => Idle',
           \A r \in Receivers : local'[r] = local[r],
           UNCHANGED <<target, next, outcome, packets, frames, up, serverVars>>
    PROVE  OrderInv'
<1>1. WireTypes /\ Sender \in Clients BY InvParts, SetFacts
<1>2. Packet("offer") \in Frame /\ Packet("offer").kind = "offer"
    BY SetFacts DEF Kinds
<1>3. UpPlain BY <1>1, <1>2, SendUpPlain
<1>4. InPlain /\ InKeeps BY SameInPlain, SameIn
<1>5. Ahead BY DEF Ahead
<1>6. QED BY <1>3, <1>4, <1>5, SessionStep

LEMMA SessionOfferOrder ==
    ASSUME Inv, OrderInv, Offer, flow = "none", UNCHANGED flow
    PROVE  OrderInv'
<1>1. ClientTypes BY InvParts
<1>2. /\ Sender \in up /\ local[Sender] = "absent" /\ outcome[Sender] = "none"
      /\ Send(Sender, Packet("offer"))
      /\ UNCHANGED <<target, next, task, outcome, packets, frames, up, serverVars>>
      /\ local' = [local EXCEPT ![Sender] = "WaitingAccept"]
    BY DEF Offer, InsertOutgoing
<1>3. /\ local'[Sender] = "WaitingAccept"
      /\ \A r \in Receivers : local'[r] = local[r]
    BY <1>1, <1>2, SetFacts DEF ClientTypes
<1>4. Fresh BY <1>2 DEF Fresh
<1>5. task.at = "none" BY <1>2, <1>4 DEF OrderInv, SenderFits
<1>6. SenderFits' BY <1>2, <1>5 DEF SenderFits
<1>7. QED BY <1>2, <1>3, <1>4, <1>6, SameTask, SendsOfferOrder

LEMMA CommandOfferOrder ==
    ASSUME Inv, OrderInv, SendOffer
    PROVE  OrderInv'
<1>1. /\ flow = "start" /\ flow' = "accept" /\ Send(Sender, Packet("offer"))
      /\ UNCHANGED <<target, local, next, task, outcome, packets, frames, up, serverVars>>
    BY DEF SendOffer, Goes
<1>2. Fresh BY <1>1 DEF Fresh
<1>3. UpcomingFalls /\ (Unsent' => Unsent) /\ (Idle => Idle')
    BY <1>1 DEF UpcomingFalls, Upcoming, Unsent, Idle
<1>4. SenderFits' BY <1>1 DEF OrderInv, SenderFits
<1>5. QED BY <1>1, <1>2, <1>3, <1>4, SendsOfferOrder

\* The command takes a packet or waits no longer.
LEMMA CommandOrder ==
    ASSUME Inv, OrderInv, InPlain, InKeeps, flow # "none", flow' \notin {"none", "start"},
           flow' \in {"ack", "ended"} \/ flow \notin {"ack", "ended"},
           Idle /\ ~AcceptIn => Idle',
           UNCHANGED <<target, clientVars, uplink, frames, serverVars>>
    PROVE  OrderInv'
<1>1. UNCHANGED <<local, next, task, outcome, up>> BY DEF clientVars
<1>2. UpcomingFalls /\ (Unsent' => Unsent)
    BY <1>1 DEF UpcomingFalls, Upcoming, Unsent
<1>3. ~Fresh' BY DEF Fresh
<1>4. Ahead' => Ahead BY <1>3 DEF Ahead, NoOfferUp
<1>5. SenderFits' BY <1>1, <1>3 DEF OrderInv, SenderFits
<1>6. UpPlain BY <1>2, SameUpPlain
<1>7. QED BY <1>1, <1>2, <1>4, <1>5, <1>6, SessionStep

LEMMA TakesOrder ==
    ASSUME Inv, OrderInv, FirstAccept \/ GraceOver \/ Dispatch
    PROVE  OrderInv'
<1>1. WireTypes /\ Sender \in Clients BY InvParts, SetFacts
<1>2. CASE FirstAccept
    <2>1. /\ flow = "accept" /\ flow' \in {"grace", "send"} /\ Take(Sender, "accept")
          /\ UNCHANGED <<target, clientVars, uplink, frames, serverVars>>
        BY <1>2 DEF FirstAccept, Goes
    <2>2. InPlain /\ InKeeps /\ AcceptIn BY <1>1, <2>1, TakeInPlain, TakeIn
    <2>3. QED BY <2>1, <2>2, CommandOrder
<1>3. CASE GraceOver
    <2>1. /\ flow = "grace" /\ flow' = "send"
          /\ UNCHANGED <<target, clientVars, uplink, packets, frames, serverVars>>
        BY <1>3 DEF GraceOver, Goes, vars, wireVars
    <2>2. InPlain /\ InKeeps /\ ~Idle BY <2>1, SameInPlain, SameIn DEF Idle
    <2>3. QED BY <2>1, <2>2, CommandOrder
<1>4. CASE Dispatch
    <2>1. /\ flow = "ack" /\ flow' = "ack" /\ \E kind : Take(Sender, kind)
          /\ UNCHANGED <<target, clientVars, uplink, frames, serverVars>>
        BY <1>4 DEF Dispatch, Goes
    <2>2. InPlain /\ InKeeps /\ ~Idle BY <1>1, <2>1, TakeInPlain, TakeIn DEF Idle
    <2>3. QED BY <2>1, <2>2, CommandOrder
<1>5. QED BY <1>2, <1>3, <1>4

LEMMA ExitOrder ==
    ASSUME Inv, OrderInv, flow # "none", NEW why \in Outcomes, Exit(why)
    PROVE  OrderInv'
<1>1. WireTypes /\ ClientTypes /\ Sender \in Clients BY InvParts, SetFacts
<1>2. /\ flow' = "ended"
      /\ packets' = [packets EXCEPT ![Sender] = <<>>]
      /\ Hangup(Sender) \/ UNCHANGED <<up, uplink>>
      /\ UNCHANGED <<target, local, next, task, frames, serverVars>>
      /\ outcome' = [outcome EXCEPT ![Sender] = why]
    BY DEF Exit, Goes
<1>3. \A r \in Receivers : outcome'[r] = outcome[r]
    BY <1>1, <1>2, SetFacts DEF ClientTypes
<1>4. task.at = "none" /\ local[Sender] = "absent" BY DEF OrderInv, SenderFits
<1>5. \A k : ~Upcoming(k)'
    BY <1>2, <1>4 DEF Upcoming, Unsent
<1>6. UpcomingFalls /\ ~Unsent' /\ Idle'
    BY <1>2, <1>4, <1>5 DEF UpcomingFalls, Unsent, Idle
<1>7. UpPlain
    <2>1. CASE Hangup(Sender)
        BY <1>1, <1>5, <1>6, <2>1, HangupUpPlain DEF OrderInv
    <2>2. CASE UNCHANGED <<up, uplink>> BY <1>6, <2>2, SameUpPlain
    <2>3. QED BY <1>2, <2>1, <2>2
<1>8. InPlain /\ InKeeps BY <1>1, <1>2, ClearInPlain, ClearIn
<1>9. Ahead' => Ahead
    <2>1. NoOfferUp => NoOfferUp'
        <3>1. CASE Hangup(Sender) BY <1>1, <3>1, HangupUp DEF UpKeeps
        <3>2. CASE UNCHANGED <<up, uplink>> BY <3>2 DEF NoOfferUp
        <3>3. QED BY <1>2, <3>1, <3>2
    <2>2. ~Fresh' BY <1>2 DEF Fresh
    <2>3. QED BY <2>1, <2>2 DEF Ahead
<1>10. SenderFits' BY <1>2, <1>4 DEF SenderFits, Fresh
<1>11. \A r \in Receivers : StoreFollows(r) BY <1>2, <1>3 DEF StoreFollows
<1>12. \A r \in Receivers : r \in up' <=> r \in up
    BY <1>2, SetFacts DEF Hangup
<1>13. QED
    BY <1>2, <1>6, <1>7, <1>8, <1>9, <1>10, <1>11, <1>12, ClientPlainStep

LEMMA LoseConnectionOrder ==
    ASSUME Inv, OrderInv, LoseConnection
    PROVE  OrderInv'
<1>1. WireTypes /\ ClientTypes /\ Sender \in Clients BY InvParts, SetFacts
<1>2. /\ flow \notin {"none", "ended"} /\ Hangup(Sender)
      /\ UNCHANGED <<target, local, next, task, outcome, packets, frames, serverVars, flow>>
    BY DEF LoseConnection
<1>3. task.at = "none" BY <1>2 DEF OrderInv, SenderFits
<1>4. UpcomingFalls /\ (Unsent' => Unsent) /\ (Idle => Idle') BY <1>2, SameTask
<1>5. \A k : Upcoming(k)' => Unsent
    BY <1>2, <1>3 DEF Upcoming, Unsent
<1>6. UpPlain BY <1>1, <1>2, <1>4, <1>5, HangupUpPlain DEF OrderInv
<1>7. InPlain BY <1>2, SameInPlain
<1>8. (Ahead' => Ahead) /\ (Fresh' => Fresh) /\ InKeeps
    BY LoseConnectionStep, KeepsAhead
<1>9. up' = up \ {Sender} BY <1>2 DEF Hangup
<1>10. SenderFits' BY <1>2, <1>8, <1>9, SameSenderFits DEF OrderInv
<1>11. \A r \in Receivers : StoreFollows(r) BY <1>2 DEF StoreFollows
<1>12. \A r \in Receivers : r \in up' <=> r \in up BY <1>9, SetFacts
<1>13. QED
    BY <1>2, <1>4, <1>6, <1>7, <1>8, <1>10, <1>11, <1>12, ClientPlainStep

-----------------------------------------------------------------------------
(* The file reaches a receiver                                             *)

\* What only one receiver notices.
LEMMA ReceiverStep ==
    ASSUME OrderInv, StreamPlain, SenderPlain, SenderFits', UNCHANGED target,
           NEW r \in Receivers, \A d \in Receivers \ {r} : PlainAt(d), FollowsFile(r)'
    PROVE  OrderInv'
BY WirePlain, FollowsPlain DEF OrderInv, SenderPlain

\* An offer comes to the file store of r, or is accepted there.
LEMMA TakesFile ==
    ASSUME Inv, OrderInv, Keeps, InPlain, NEW r \in Receivers,
           NEW state \in {"PendingOffer", "Receiving"},
           local' = [local EXCEPT ![r] = state], next' = [next EXCEPT ![r] = 0],
           local[r] = "PendingOffer" \/ ~NoOfferIn(r), NoOfferIn(r)',
           state = "PendingOffer" => UNCHANGED uplink,
           UNCHANGED uplink \/ Send(r, Packet("accept")),
           UNCHANGED <<target, task, outcome, frames, up, serverVars>>, UNCHANGED flow
    PROVE  OrderInv'
<1>1. WireTypes /\ ClientTypes /\ r \in Clients /\ r # Sender BY InvParts, SetFacts
<1>2. UNCHANGED <<legs, online>> BY DEF serverVars
<1>3. (Ahead' => Ahead) /\ (Fresh' => Fresh) /\ InKeeps BY KeepsAhead
<1>4. UpcomingFalls /\ (Unsent' => Unsent) /\ (Idle => Idle') BY SameTask
<1>5. Packet("accept") \in Frame /\ Packet("accept").kind = "accept"
    BY SetFacts DEF Kinds
<1>6. \A d \in Clients \ {r} : uplink'[d] = uplink[d] BY <1>1, <1>5, SendTypes
<1>7. ~CloseUp(r) => ~CloseUp(r)'
    <2>1. CASE UNCHANGED uplink BY <2>1 DEF CloseUp
    <2>2. CASE Send(r, Packet("accept"))
        <3>1. uplink[r] \in Seq(Frame) /\ uplink'[r] = Append(uplink[r], Packet("accept"))
            BY <1>1, <1>5, <2>2, SendTypes DEF WireTypes
        <3>2. /\ Len(uplink[r]) \in Nat /\ Len(uplink'[r]) = Len(uplink[r]) + 1
              /\ \A i \in 1 .. Len(uplink[r]) : uplink'[r][i] = uplink[r][i]
              /\ uplink'[r][Len(uplink[r]) + 1] = Packet("accept")
            BY <1>5, <3>1, AppendFacts
        <3>3. QED BY <1>5, <3>2 DEF CloseUp
    <2>3. QED BY <2>1, <2>2
<1>8. StreamPlain BY <1>1, <1>4, <1>6, SetFacts, SameStream
<1>9. SenderPlain BY <1>3, <1>4 DEF SenderPlain, InPlain
<1>10. /\ local'[r] = state /\ next'[r] = 0
       /\ \A d \in Clients \ {r} : local'[d] = local[d]
       /\ \A d \in Receivers \ {r} : next'[d] = next[d]
    BY <1>1 DEF ClientTypes
<1>11. SenderFits' BY <1>1, <1>3, <1>10, SetFacts, SameSenderFits DEF OrderInv
<1>12. ASSUME NEW d \in Receivers, d # r PROVE PlainAt(d)
    <2>1. StoreFollows(d) BY <1>10, <1>12, SetFacts DEF StoreFollows
    <2>2. uplink'[d] = uplink[d] BY <1>6, <1>12, SetFacts
    <2>3. UpFollows(d) BY <2>2, UpFollowsOld
    <2>4. InFollows(d) BY <1>3 DEF InFollows, InKeeps, InPlain
    <2>5. LinkFollows(d) BY <1>2 DEF LinkFollows
    <2>6. LegFollows(d) BY <1>2 DEF LegFollows
    <2>7. QED BY <2>1, <2>3, <2>4, <2>5, <2>6 DEF PlainAt
<1>13. FollowsFile(r) /\ ~Ahead
    BY DEF OrderInv, Inv, OfferOnce, Ahead, Untouched
<1>14. Reached(r)'
    <2>1. r \in up
        <3>1. CASE local[r] = "PendingOffer" BY <1>13, <3>1 DEF FollowsFile, Reached
        <3>2. CASE ~NoOfferIn(r)
            <4>1. Len(packets[r]) # 0 BY <3>2 DEF NoOfferIn
            <4>2. packets[r] # <<>> BY <4>1
            <4>3. QED BY <1>13, <4>2 DEF FollowsFile, Reached
        <3>3. QED BY <3>1, <3>2
    <2>2. QED BY <1>2, <1>7, <1>13, <2>1 DEF FollowsFile, Reached, Broadcast
<1>15. Begins(r)'
    <2>1. ~AcceptUp(r) /\ legs[r] # "accepted" /\ frames[r] = <<>> /\ outcome[r] # "broken"
        BY <1>13 DEF FollowsFile, Begins
    <2>2. state = "PendingOffer" => ~AcceptUp(r)' BY <2>1 DEF AcceptUp
    <2>3. QED BY <1>2, <1>3, <1>10, <1>13, <2>1, <2>2 DEF Begins
<1>16. Waits(r)'
    <2>1. LegFollows(r) BY <1>2 DEF LegFollows
    <2>2. QED BY <1>8, <1>9, <1>13, <2>1, WaitsPlain DEF FollowsFile
<1>17. InStep(r)'
    <2>1. legs[r] # "accepted" /\ frames[r] = <<>> /\ Len(frames[r]) = 0
        BY <1>13 DEF FollowsFile, Begins
    <2>2. QED BY <1>2, <2>1 DEF InStep
<1>18. FollowsFile(r)' BY <1>14, <1>15, <1>16, <1>17 DEF FollowsFile
<1>19. QED BY <1>8, <1>9, <1>11, <1>12, <1>18, ReceiverStep

LEMMA AcceptOrder ==
    ASSUME Inv, OrderInv, NEW r \in Receivers, Accept(r), UNCHANGED flow
    PROVE  OrderInv'
<1>1. /\ local[r] = "PendingOffer" /\ Send(r, Packet("accept"))
      /\ local' = [local EXCEPT ![r] = "Receiving"] /\ next' = [next EXCEPT ![r] = 0]
      /\ UNCHANGED <<target, task, outcome, packets, frames, up, serverVars>>
    BY DEF Accept, SendAccept, MoveToIncoming
<1>2. Keeps BY AcceptStep
<1>3. NoOfferIn(r) BY <1>1 DEF Inv, OfferOnce, Untouched
<1>4. NoOfferIn(r)' BY <1>1, <1>3 DEF NoOfferIn
<1>5. QED BY <1>1, <1>2, <1>4, SameInPlain, TakesFile

LEMMA OnOfferOrder ==
    ASSUME Inv, OrderInv, NEW r \in Receivers, OnOffer(r), UNCHANGED flow
    PROVE  OrderInv'
<1>1. WireTypes /\ r \in Clients BY InvParts, SetFacts
<1>2. Take(r, "offer") /\ UNCHANGED <<target, task, outcome, frames, up, serverVars>>
    BY DEF OnOffer
<1>3. InPlain BY <1>1, <1>2, TakeInPlain
<1>4. ~NoOfferIn(r) /\ NoOfferIn(r)' BY <1>1, <1>2, TakeIn DEF Inv, OfferOnce
<1>5. Keeps BY OnOfferStep
<1>6. CASE SendAccept(r)
    BY <1>2, <1>3, <1>4, <1>5, <1>6, TakesFile DEF SendAccept, MoveToIncoming
<1>7. CASE InsertPendingOffer(r) /\ UNCHANGED uplink
    BY <1>2, <1>3, <1>4, <1>5, <1>7, TakesFile DEF InsertPendingOffer
<1>8. QED BY <1>6, <1>7 DEF OnOffer

-----------------------------------------------------------------------------
(* The chunks                                                              *)

\* r takes the next chunk from its queue.
LEMMA OnChunkOrder ==
    ASSUME Inv, OrderInv, NEW r \in Receivers, OnChunk(r), UNCHANGED flow
    PROVE  OrderInv'
<1> DEFINE q == frames[r]
<1>1. /\ WireTypes /\ ClientTypes /\ r \in Clients /\ r # Sender
      /\ Chunks \in Nat /\ TotalChunks \in Nat /\ Chunks <= TotalChunks
    BY InvParts, SetFacts DEF TotalChunks
<1>2. /\ q # <<>> /\ frames' = [frames EXCEPT ![r] = Tail(q)]
      /\ UNCHANGED <<target, task, packets, up, serverVars>>
    BY DEF OnChunk
<1>3. UNCHANGED <<legs, online>> BY <1>2 DEF serverVars
<1>4. q \in Seq(0 .. Chunks) BY <1>1 DEF WireTypes
<1>5. /\ Tail(q) \in Seq(0 .. Chunks)
      /\ Len(q) \in Nat /\ Len(q) >= 1 /\ Len(Tail(q)) = Len(q) - 1
      /\ Head(q) = q[1] /\ q[1] \in 0 .. Chunks
      /\ \A i \in 1 .. Len(q) - 1 : Tail(q)[i] = q[i + 1]
    BY <1>2, <1>4, TailFacts
<1>6. frames'[r] = Tail(q) /\ \A d \in Receivers \ {r} : frames'[d] = frames[d]
    BY <1>1, <1>2 DEF WireTypes
<1>7. next[r] \in Nat BY <1>1 DEF ClientTypes
<1>8. UpcomingFalls /\ (Unsent' => Unsent) /\ (Idle => Idle') BY <1>2, SameTask
<1>9. (Ahead' => Ahead) /\ (Fresh' => Fresh) /\ InKeeps BY OnChunkStep, KeepsAhead
<1>10. InPlain BY <1>2, SameInPlain
<1>11. FollowsFile(r) BY DEF OrderInv
<1>12. /\ ~Ahead /\ NoOfferIn(r) /\ local[r] # "PendingOffer" /\ legs[r] # "offered"
       /\ Broadcast \/ target = r
    BY <1>2, <1>11 DEF FollowsFile, Begins, Reached
<1>13. q[1] < Chunks
    <2>1. 1 \in 1 .. Len(q) BY <1>5
    <2>2. QED BY <1>11, <2>1 DEF FollowsFile, InStep
<1>14. NoOfferIn(r)' BY <1>2, <1>12 DEF NoOfferIn
<1> HIDE DEF q
<1>15. ASSUME UpPlain, \A d \in Clients \ {r} : local'[d] = local[d] /\ outcome'[d] = outcome[d],
              \A d \in Receivers \ {r} : next'[d] = next[d],
              local'[r] \in {local[r], "absent"},
              Begins(r)', InStep(r)'
       PROVE  OrderInv'
    <2>1. SenderPlain BY <1>8, <1>9, <1>10 DEF SenderPlain, InPlain
    <2>2. local'[Sender] = local[Sender] BY <1>1, <1>15, SetFacts
    <2>3. SenderFits' BY <1>2, <1>9, <2>2, SameSenderFits DEF OrderInv
    <2>4. ASSUME NEW d \in Receivers PROVE UpFollows(d) /\ InFollows(d) /\ LinkFollows(d) /\ LegFollows(d)
        <3>1. UpFollows(d) BY <1>15 DEF UpPlain
        <3>2. InFollows(d) BY <1>9, <1>10 DEF InFollows, InKeeps, InPlain
        <3>3. LinkFollows(d) /\ LegFollows(d) BY <1>2, <1>3 DEF LinkFollows, LegFollows
        <3>4. QED BY <3>1, <3>2, <3>3
    <2>5. ASSUME NEW d \in Receivers \ {r} PROVE PlainAt(d)
        <3>1. StoreFollows(d) BY <1>6, <1>15, SetFacts DEF StoreFollows
        <3>2. QED BY <2>4, <3>1 DEF PlainAt
    <2>6. Reached(r)'
        <3>1. UpFollows(r) BY <2>4
        <3>2. QED
            BY <1>2, <1>3, <1>11, <1>12, <1>15, <3>1
               DEF FollowsFile, Reached, UpFollows, Broadcast
    <2>7. Waits(r)' BY <1>2, <1>11, <1>15, <2>1, <2>4, WaitsPlain DEF FollowsFile, UpPlain
    <2>8. QED
        BY <1>2, <1>15, <2>1, <2>3, <2>5, <2>6, <2>7, ReceiverStep
           DEF FollowsFile, UpPlain
<1>16. \A i \in 1 .. Len(frames'[r]) : frames'[r][i] < Chunks
    <2>1. \A i \in 1 .. Len(frames'[r]) :
              i + 1 \in 1 .. Len(q) /\ frames'[r][i] = q[i + 1]
        BY <1>5, <1>6
    <2>2. QED BY <1>11, <2>1 DEF FollowsFile, InStep, q
<1>17. CASE local[r] # "Receiving" /\ UNCHANGED <<local, outcome, uplink, next>>
    <2>1. UpPlain BY <1>8, <1>17, SameUpPlain
    <2>2. Begins(r)'
        BY <1>3, <1>9, <1>11, <1>12, <1>14, <1>17, <1>2
           DEF FollowsFile, Begins, Broadcast
    <2>3. InStep(r)' BY <1>16, <1>17 DEF InStep
    <2>4. QED BY <1>15, <1>17, <2>1, <2>2, <2>3
<1>18. CASE /\ local[r] = "Receiving" /\ ~ValidChunk(r, Head(q))
            /\ FailIncoming(r) /\ UNCHANGED next
    <2>1. Forget(r, "broken") /\ Send(r, Packet("abort"))
        BY <1>18 DEF FailIncoming
    <2>2. /\ local'[r] = "absent" /\ outcome'[r] = "broken"
          /\ \A d \in Clients \ {r} : local'[d] = local[d] /\ outcome'[d] = outcome[d]
        BY <1>1, <2>1, ForgetTypes DEF Outcomes
    <2>3. Packet("abort") \in Frame /\ Packet("abort").kind = "abort"
        BY SetFacts DEF Kinds
    <2>4. UpPlain BY <1>1, <1>8, <2>1, <2>3, SendUpPlain
    <2>5. next[r] = 0 /\ Broadcast
        <3>1. q[1] # next[r] BY <1>1, <1>5, <1>7, <1>13, <1>18 DEF ValidChunk
        <3>2. ~(next[r] > 0 \/ target = r)
            BY <1>2, <1>11, <1>18, <3>1 DEF FollowsFile, InStep, q
        <3>3. QED BY <1>7, <1>12, <3>2
    <2>6. Begins(r)'
        BY <1>2, <1>3, <1>9, <1>12, <1>14, <1>18, <2>2, <2>5 DEF Begins, Broadcast
    <2>7. InStep(r)' BY <1>16, <2>2 DEF InStep
    <2>8. QED BY <1>15, <1>18, <2>2, <2>4, <2>6, <2>7
<1>19. CASE /\ local[r] = "Receiving" /\ ValidChunk(r, Head(q))
            /\ ApplyChunk(r) /\ UNCHANGED <<local, outcome, uplink>>
    <2>1. /\ next'[r] = next[r] + 1
          /\ \A d \in Receivers \ {r} : next'[d] = next[d]
        BY <1>1, <1>19 DEF ApplyChunk, ClientTypes
    <2>2. q[1] = next[r] BY <1>5, <1>19 DEF ValidChunk
    <2>3. UpPlain BY <1>8, <1>19, SameUpPlain
    <2>4. Begins(r)'
        <3>1. outcome[r] # "broken" BY <1>11, <1>19 DEF FollowsFile, Begins
        <3>2. QED BY <1>3, <1>9, <1>12, <1>14, <1>19, <3>1 DEF Begins
    <2>5. /\ \A i \in 1 .. Len(q) - 1 : q[i + 1] = q[i] + 1
          /\ legs[r] = "accepted" /\ Started(r) =>
                /\ Starts(uplink[Sender], Expect(r))
                /\ NoChunk(uplink[Sender]) => \A k : Upcoming(k) => k = Expect(r)
        BY <1>11, <1>19 DEF FollowsFile, InStep, q
    <2>6. Started(r) BY <1>2 DEF Started, q
    <2>7. Expect(r)' = Expect(r) /\ (frames'[r] # <<>> => frames'[r][1] = next'[r])
        <3>1. Expect(r) = q[Len(q)] + 1 BY <1>2 DEF Expect, q
        <3>2. CASE Len(q) = 1
            <4>1. frames'[r] = <<>> BY <1>5, <1>6, <3>2
            <4>2. Expect(r)' = next'[r] BY <4>1 DEF Expect
            <4>3. QED BY <2>1, <2>2, <3>1, <3>2, <4>1, <4>2
        <3>3. CASE Len(q) # 1
            <4>1. Len(frames'[r]) = Len(q) - 1 /\ Len(q) - 1 \in 1 .. Len(q) - 1 /\ 1 \in 1 .. Len(q) - 1
                BY <1>5, <1>6, <3>3
            <4>2. frames'[r] # <<>> BY <4>1
            <4>3. frames'[r][Len(q) - 1] = q[(Len(q) - 1) + 1] /\ (Len(q) - 1) + 1 = Len(q)
                BY <1>5, <1>6, <4>1
            <4>4. Expect(r)' = q[Len(q)] + 1 BY <4>1, <4>2, <4>3 DEF Expect
            <4>5. frames'[r][1] = q[1 + 1] /\ q[1 + 1] = q[1] + 1
                BY <1>5, <1>6, <2>5, <4>1
            <4>6. QED BY <2>1, <2>2, <3>1, <4>4, <4>5
        <3>4. QED BY <3>2, <3>3
    <2>8. \A i \in 1 .. Len(frames'[r]) - 1 : frames'[r][i + 1] = frames'[r][i] + 1
        <3>1. ASSUME NEW i \in 1 .. Len(frames'[r]) - 1
              PROVE  frames'[r][i + 1] = frames'[r][i] + 1
            <4>1. /\ i \in 1 .. Len(q) - 1 /\ i + 1 \in 1 .. Len(q) - 1
                BY <1>5, <1>6
            <4>2. frames'[r][i] = q[i + 1] /\ frames'[r][i + 1] = q[(i + 1) + 1]
                BY <1>5, <1>6, <4>1
            <4>3. q[(i + 1) + 1] = q[i + 1] + 1 BY <2>5, <4>1
            <4>4. QED BY <4>2, <4>3
        <3>2. QED BY <3>1
    <2>9. NoChunk(uplink'[Sender]) => NoChunk(uplink[Sender]) BY <1>19
    <2>10. InStep(r)'
        BY <1>3, <1>8, <1>16, <1>19, <2>5, <2>6, <2>7, <2>8 DEF InStep, UpcomingFalls
    <2>11. QED BY <1>15, <1>19, <2>1, <2>3, <2>4, <2>10
<1>20. QED BY <1>17, <1>18, <1>19 DEF OnChunk, q

\* The sender adds chunks to the wire.
LEMMA StreamStep ==
    ASSUME OrderInv, ~Idle, Ahead' => Ahead, Wire', SenderFits',
           \A r \in Receivers : uplink'[r] = uplink[r],
           \A k : /\ Starts(uplink[Sender], k)
                  /\ NoChunk(uplink[Sender]) => \A j : Upcoming(j) => j = k
                  => /\ Starts(uplink'[Sender], k)
                     /\ NoChunk(uplink'[Sender]) => \A j : Upcoming(j)' => j = k,
           UNCHANGED <<target, local, next, outcome, packets, frames, up, serverVars>>
    PROVE  OrderInv'
<1>1. UNCHANGED <<legs, online>> BY DEF serverVars
<1>2. ASSUME NEW r \in Receivers PROVE FollowsFile(r)'
    <2>1. FollowsFile(r) BY DEF OrderInv
    <2>2. StoreFollows(r) /\ LinkFollows(r) /\ LegFollows(r)
        BY <1>1 DEF StoreFollows, LinkFollows, LegFollows
    <2>3. UpFollows(r) BY UpFollowsOld
    <2>4. InFollows(r) BY DEF InFollows, NoOfferIn
    <2>5. Reached(r)' /\ Begins(r)'
        BY <2>1, <2>2, <2>3, <2>4, ReachedPlain, BeginsPlain DEF FollowsFile, PlainAt
    <2>6. Waits(r)' BY <1>1, <2>1 DEF FollowsFile, Waits
    <2>7. Expect(r)' = Expect(r) /\ (Started(r)' <=> Started(r)) BY DEF Expect, Started
    <2>8. InStep(r)' BY <1>1, <2>1, <2>7 DEF FollowsFile, InStep
    <2>9. QED BY <2>5, <2>6, <2>8 DEF FollowsFile
<1>3. QED BY <1>2 DEF OrderInv

LEMMA PutChunkOrder ==
    ASSUME Inv, OrderInv, PutChunk, UNCHANGED flow
    PROVE  OrderInv'
<1>1. TaskType /\ WireTypes /\ Sender \in Clients /\ Chunks \in Nat
    BY InvParts, SetFacts
<1>2. /\ task.at = "put" /\ Send(Sender, Chunk(task.pos))
      /\ task'.at = "check" /\ task'.pos = task.pos + 1
      /\ UNCHANGED <<target, local, next, outcome, packets, frames, up, serverVars>>
    BY DEF PutChunk
<1>3. task.pos \in 0 .. Chunks /\ task.pos < Chunks
    BY <1>1, <1>2 DEF TaskType
<1>4. /\ Chunk(task.pos) \in Frame /\ Chunk(task.pos).kind = "chunk"
      /\ Chunk(task.pos).index = task.pos
    BY <1>3, SetFacts DEF Chunk
<1>5. /\ uplink'[Sender] = Append(uplink[Sender], Chunk(task.pos))
      /\ uplink[Sender] \in Seq(Frame)
      /\ \A r \in Receivers : uplink'[r] = uplink[r]
    BY <1>1, <1>2, <1>4, SetFacts, SendTypes DEF WireTypes
<1>6. /\ Upcoming(task.pos) /\ ~Unsent' /\ ~Idle
      /\ \A k : Upcoming(k)' => k = task.pos + 1
    BY <1>2 DEF Upcoming, Unsent, Idle
<1>7. Ordered(uplink[Sender]) /\ Ends(uplink[Sender], task.pos)
    BY <1>6 DEF OrderInv, Wire
<1>8. /\ Ordered(uplink'[Sender])
      /\ Ends(uplink'[Sender], task.pos + 1)
      /\ ~NoChunk(uplink'[Sender])
      /\ \A k : Starts(uplink[Sender], k) /\ (NoChunk(uplink[Sender]) => task.pos = k)
                   => Starts(uplink'[Sender], k)
    BY <1>3, <1>4, <1>5, <1>7, AppendChunk
<1>9. Wire' BY <1>6, <1>8 DEF Wire
<1>10. /\ flow = "none" /\ local[Sender] # "WaitingAccept"
       /\ ~(Fresh /\ Sender \in up)
    BY <1>2, TaskRuns DEF OrderInv
<1>11. SenderFits' BY <1>2, <1>10 DEF SenderFits, Fresh
<1>12. Keeps BY SendTaskStep DEF SendTask
<1>13. Ahead' => Ahead BY <1>12, KeepsAhead
<1>14. QED BY <1>2, <1>5, <1>6, <1>8, <1>9, <1>11, <1>13, StreamStep

LEMMA SendAllOrder ==
    ASSUME Inv, OrderInv, SendAll
    PROVE  OrderInv'
<1>1. WireTypes /\ Sender \in Clients BY InvParts, SetFacts
<1>2. /\ flow = "send" /\ flow' = "ack"
      /\ uplink' = [uplink EXCEPT ![Sender] = uplink[Sender] \o Everything]
      /\ UNCHANGED <<target, clientVars, packets, frames, serverVars>>
    BY DEF SendAll, Goes
<1>3. UNCHANGED <<local, next, task, outcome, up>> BY <1>2 DEF clientVars
<1>4. /\ uplink'[Sender] = uplink[Sender] \o Everything
      /\ uplink[Sender] \in Seq(Frame)
      /\ \A r \in Receivers : uplink'[r] = uplink[r]
    BY <1>1, <1>2, SetFacts DEF WireTypes
<1>5. task.at = "none" /\ local[Sender] = "absent"
    BY <1>2 DEF OrderInv, SenderFits
<1>6. /\ Unsent /\ Upcoming(0) /\ ~Idle /\ ~Unsent'
      /\ \A k : ~Upcoming(k)'
    BY <1>2, <1>3, <1>5 DEF Unsent, Upcoming, Idle
<1>7. NoChunk(uplink[Sender]) BY <1>6 DEF OrderInv, Wire
<1>8. Ordered(uplink'[Sender]) /\ Starts(uplink'[Sender], 0)
    BY <1>4, <1>7, ConcatEverything
<1>9. Wire' BY <1>6, <1>8 DEF Wire
<1>10. SenderFits' BY <1>2, <1>3, <1>5 DEF SenderFits, Fresh
<1>11. Keeps BY SendAllStep
<1>12. Ahead' => Ahead BY <1>11, KeepsAhead
<1>13. ASSUME NEW k, NoChunk(uplink[Sender]) => \A j : Upcoming(j) => j = k
       PROVE  Starts(uplink'[Sender], k)
    <2>1. k = 0 BY <1>6, <1>7, <1>13
    <2>2. QED BY <1>8, <2>1
<1>14. QED BY <1>2, <1>3, <1>4, <1>6, <1>9, <1>10, <1>12, <1>13, StreamStep

-----------------------------------------------------------------------------
(* The server takes the offer, an accept or a chunk                        *)

LEMMA OfferPassesOrder ==
    ASSUME Inv, OrderInv, Receive(Sender, "offer"),
           UNCHANGED <<target, clientVars, frames, flow>>, InPlain,
           \A r \in Receivers : r \in online => r \in online',
           \A r \in Receivers :
              legs'[r] = legs[r] \/ legs'[r] = "none"
                 \/ (legs'[r] = "offered" /\ (Broadcast \/ target = r))
    PROVE  OrderInv'
<1>1. WireTypes /\ Sender \in Clients BY InvParts, SetFacts
<1>2. UNCHANGED <<local, next, task, outcome, up>> BY DEF clientVars
<1>3. UpcomingFalls /\ (Unsent' => Unsent) /\ (Idle => Idle') BY <1>2, SameTask
<1>4. UpPlain BY <1>1, <1>3, ReceiveUpPlain
<1>5. Ahead /\ ~Ahead'
    <2>1. ~NoOfferUp /\ NoOfferUp' BY <1>1, ReceiveUp DEF Inv, OfferOnce
    <2>2. ~Fresh BY <2>1 DEF Inv, OfferOnce
    <2>3. ~Fresh' BY <1>2, <2>2 DEF Fresh
    <2>4. QED BY <2>1, <2>3 DEF Ahead
<1>6. ASSUME NEW r \in Receivers PROVE FollowsFile(r)'
    <2>1. FollowsFile(r) BY DEF OrderInv
    <2>2. UpFollows(r) BY <1>4 DEF UpPlain
    <2>3. /\ ~AcceptUp(r) /\ legs[r] # "accepted" /\ frames[r] = <<>> /\ next[r] = 0
          /\ outcome[r] # "broken"
        BY <1>5, <2>1 DEF FollowsFile, Begins
    <2>4. legs'[r] # "accepted" BY <2>3
    <2>5. Reached(r)'
        <3>1. packets'[r] # <<>> => packets[r] # <<>> \/ r \in up BY DEF InPlain
        <3>2. r \in up => ~CloseUp(r)' BY <1>2, <2>1, <2>2 DEF FollowsFile, Reached, UpFollows
        <3>3. legs'[r] # "none" \/ frames'[r] # <<>> => Broadcast' \/ target' = r
            BY <2>1 DEF FollowsFile, Reached, Broadcast
        <3>4. QED BY <1>2, <2>1, <3>1, <3>2, <3>3 DEF FollowsFile, Reached
    <2>6. Begins(r)' BY <1>2, <2>2, <2>3, <2>4 DEF Begins, UpFollows
    <2>7. Waits(r)'
        BY <1>3, <1>4, <1>5, <2>1
           DEF FollowsFile, Waits, UpPlain, StreamPlain, InPlain
    <2>8. InStep(r)'
        <3>1. frames'[r] = <<>> /\ Len(frames'[r]) = 0 BY <2>3
        <3>2. QED BY <2>4, <3>1 DEF InStep
    <2>9. QED BY <2>5, <2>6, <2>7, <2>8 DEF FollowsFile
<1>7. SenderFits'
    <2>1. Fresh' => Fresh BY <1>5 DEF Ahead
    <2>2. QED BY <1>2, <2>1, SameSenderFits DEF OrderInv
<1>8. Wire' BY <1>3, <1>4, WirePlain DEF OrderInv, UpPlain
<1>9. QED BY <1>6, <1>7, <1>8 DEF OrderInv

LEMMA RelayOfferOrder ==
    ASSUME Inv, OrderInv, RelayOffer, UNCHANGED flow
    PROVE  OrderInv'
<1>1. WireTypes BY InvParts
<1>2. /\ Receive(Sender, "offer")
      /\ UNCHANGED <<target, clientVars, frames, online>>
    BY DEF RelayOffer
<1>3. InPlain
    <2>1. {"offer", "tooLarge", "error"} \subseteq Kinds \ {"accept"} BY DEF Kinds
    <2>2. CASE \E conns : \/ Deliver(conns, "offer")
                          \/ Deliver(conns, "tooLarge")
                          \/ Deliver(conns, "error")
        BY <1>1, <2>1, <2>2, DeliverInPlain
    <2>3. QED BY <2>2 DEF RelayOffer, Complain
<1>4. \A r \in Receivers :
          legs'[r] = legs[r] \/ legs'[r] = "none"
             \/ (legs'[r] = "offered" /\ (Broadcast \/ target = r))
    <2>1. CASE UNCHANGED legs BY <2>1
    <2>2. CASE legs' = [r \in Receivers |->
                          IF r \in Addressed \cap online THEN "offered" ELSE "none"]
        BY <2>2 DEF Addressed
    <2>3. QED BY <2>1, <2>2 DEF RelayOffer
<1>5. QED BY <1>2, <1>3, <1>4, OfferPassesOrder

LEMMA GrowsPlain ==
    ASSUME \A c \in Clients : (\E m : GrowsBySweep(c, m)) /\ Grown(c)
    PROVE  InPlain
<1>1. ASSUME AcceptIn' PROVE AcceptIn
    <2>1. PICK m : GrowsBySweep(Sender, m) BY SetFacts
    <2>2. QED BY <1>1, <2>1 DEF GrowsBySweep, AcceptIn
<1>2. QED BY <1>1, SetFacts DEF Grown, InPlain

LEMMA SweepOrder ==
    ASSUME Inv, OrderInv, Sweep
    PROVE  OrderInv'
<1>1. WireTypes BY InvParts
<1>2. /\ UNCHANGED <<target, clientVars, uplink, frames, flow>>
      /\ online' = online \ {Sender} /\ legs' = NoLegs
    BY DEF Sweep
<1>3. UNCHANGED <<task, flow>> BY <1>2 DEF clientVars
<1>4. UpPlain BY <1>2, <1>3, SameTask, SameUpPlain
<1>5. InPlain BY <1>1, SweepQueues, GrowsPlain
<1>6. \A r \in Receivers : LegFollows(r) BY <1>2 DEF LegFollows, NoLegs
<1>7. \A r \in Receivers : r \in online => r \in online' BY <1>2, SetFacts
<1>8. QED BY <1>2, <1>4, <1>5, <1>6, <1>7, SweepStep, ServerPlainStep

LEMMA SweepDuringOfferOrder ==
    ASSUME Inv, OrderInv, SweepDuringOffer
    PROVE  OrderInv'
<1>1. /\ Receive(Sender, "offer") /\ online' = online \ {Sender}
      /\ UNCHANGED <<target, clientVars, frames, flow>>
      /\ \E found \in SUBSET Addressed :
            legs' = [r \in Receivers |-> IF r \in found THEN "offered" ELSE "none"]
    BY DEF SweepDuringOffer
<1>2. InPlain BY SweepOfferQueues, GrowsPlain
<1>3. \A r \in Receivers :
          legs'[r] = "none" \/ (legs'[r] = "offered" /\ (Broadcast \/ target = r))
    BY <1>1 DEF Addressed
<1>4. \A r \in Receivers : r \in online => r \in online' BY <1>1, SetFacts
<1>5. QED BY <1>1, <1>2, <1>3, <1>4, OfferPassesOrder

\* The accept of a file for everyone may come when the chunks have begun; that of a
\* file for one receiver comes before them.
LEMMA RelayAcceptOrder ==
    ASSUME Inv, OrderInv, NEW r \in Receivers, RelayAccept(r), UNCHANGED flow
    PROVE  OrderInv'
<1>1. WireTypes /\ ServerTypes /\ Sender \in Clients /\ r \in Clients /\ r # Sender
    BY InvParts, SetFacts
<1>2. /\ Receive(r, "accept")
      /\ UNCHANGED <<target, clientVars, frames, online>>
    BY DEF RelayAccept
<1>3. UNCHANGED <<local, next, task, outcome, up>> BY <1>2 DEF clientVars
<1>4. UpcomingFalls /\ (Unsent' => Unsent) /\ (Idle => Idle') BY <1>3, SameTask
<1>5. UpPlain BY <1>1, <1>2, <1>4, ReceiveUpPlain
<1>6. Keeps BY RelayAcceptStep
<1>7. (Ahead' => Ahead) /\ (Fresh' => Fresh) /\ InKeeps BY <1>6, KeepsAhead
<1>8. CASE UNCHANGED <<legs, packets>>
    <2>1. InPlain BY <1>8, SameInPlain
    <2>2. \A d \in Receivers : LegFollows(d) BY <1>8 DEF LegFollows
    <2>3. QED BY <1>2, <1>5, <1>6, <2>1, <2>2, ServerPlainStep
<1>9. CASE /\ legs[r] # "none" /\ legs' = [legs EXCEPT ![r] = "accepted"]
           /\ Deliver({Sender}, "accept")
    <2>1. legs'[r] = "accepted" /\ \A d \in Receivers \ {r} : legs'[d] = legs[d]
        BY <1>1, <1>9 DEF ServerTypes
    <2>2. FollowsFile(r) /\ (Broadcast \/ target = r)
        BY <1>9 DEF OrderInv, FollowsFile, Reached
    <2>3. AcceptUp(r) BY <1>1, <1>2, ReceiveFollows
    <2>4. /\ ~Ahead /\ NoOfferIn(r) /\ local[r] # "PendingOffer"
        BY <2>2, <2>3 DEF FollowsFile, Begins
    <2>5. \A d \in Receivers : packets'[d] # <<>> => packets[d] # <<>> \/ d \in up
        <3>1. "accept" \in Kinds BY DEF Kinds
        <3>2. QED BY <1>1, <1>9, <3>1, DeliverInPlain
    <2>6. StreamPlain BY <1>5 DEF UpPlain
    <2>7. ASSUME NEW d \in Receivers
          PROVE  /\ StoreFollows(d) /\ UpFollows(d) /\ InFollows(d) /\ LinkFollows(d)
        <3>1. StoreFollows(d) /\ LinkFollows(d) BY <1>2, <1>3 DEF StoreFollows, LinkFollows
        <3>2. UpFollows(d) BY <1>5 DEF UpPlain
        <3>3. InFollows(d) BY <1>7, <2>5 DEF InFollows, InKeeps
        <3>4. QED BY <3>1, <3>2, <3>3
    <2>8. ASSUME NEW d \in Receivers, d # r PROVE FollowsFile(d)'
        <3>1. FollowsFile(d) BY DEF OrderInv
        <3>2. LegFollows(d) BY <2>1, <2>8 DEF LegFollows
        <3>3. PlainAt(d) BY <2>7, <3>2 DEF PlainAt
        <3>4. Reached(d)' /\ Begins(d)' /\ InStep(d)'
            BY <1>2, <1>7, <2>6, <3>1, <3>3, ReachedPlain, BeginsPlain, InStepPlain
               DEF FollowsFile, PlainAt
        <3>5. target # d
            BY <2>2, <2>8, FileTransferAssumption DEF Broadcast
        <3>6. QED BY <1>2, <3>4, <3>5 DEF FollowsFile, Waits
    <2>9. FollowsFile(r)'
        <3>1. Reached(r)'
            BY <1>2, <1>3, <2>2, <2>5, <2>7 DEF FollowsFile, Reached, UpFollows, Broadcast
        <3>2. Begins(r)'
            <4>1. ~Ahead' /\ NoOfferIn(r)' /\ local'[r] # "PendingOffer"
                BY <1>3, <1>7, <2>4 DEF InKeeps
            <4>2. outcome'[r] = "broken" => local'[r] = "absent" /\ Broadcast' /\ next'[r] = 0
                BY <1>2, <1>3, <2>2 DEF FollowsFile, Begins, Broadcast
            <4>3. QED BY <2>1, <4>1, <4>2 DEF Begins
        <3>3. Waits(r)' BY <1>7, <2>1, <2>4 DEF Waits
        <3>4. InStep(r)'
            <4>1. CASE legs[r] = "accepted"
                <5>1. LegFollows(r) BY <2>1, <4>1 DEF LegFollows
                <5>2. QED
                    BY <1>2, <2>2, <2>6, <2>7, <5>1, InStepPlain DEF FollowsFile
            <4>2. CASE legs[r] = "offered"
                <5>1. frames[r] = <<>> /\ Len(frames[r]) = 0 /\ next[r] = 0
                    BY <2>2, <4>2 DEF FollowsFile, Begins
                <5>2. Expect(r)' = 0 /\ (Started(r)' => target = r)
                    BY <1>2, <1>3, <5>1 DEF Expect, Started
                <5>3. ASSUME target = r
                      PROVE  /\ Starts(uplink'[Sender], 0)
                             /\ \A k : Upcoming(k)' => k = 0
                    <6>1. NoChunk(uplink[Sender]) /\ Idle
                        BY <2>2, <4>2, <5>3 DEF FollowsFile, Waits
                    <6>2. NoChunk(uplink'[Sender]) BY <2>6, <6>1 DEF StreamPlain
                    <6>3. \A k : Upcoming(k) => k = 0 BY <6>1 DEF Idle, Upcoming
                    <6>4. QED BY <1>4, <6>2, <6>3 DEF Starts, NoChunk, UpcomingFalls
                <5>4. QED BY <1>2, <5>1, <5>2, <5>3 DEF InStep
            <4>3. QED BY <1>1, <1>9, <4>1, <4>2 DEF ServerTypes
        <3>5. QED BY <3>1, <3>2, <3>3, <3>4 DEF FollowsFile
    <2>10. SenderFits' BY <1>3, <1>7, SameSenderFits DEF OrderInv
    <2>11. Wire' BY <1>4, <2>6, WirePlain DEF OrderInv
    <2>12. QED BY <2>8, <2>9, <2>10, <2>11 DEF OrderInv
<1>10. QED BY <1>8, <1>9 DEF RelayAccept

\* The chunk goes from the wire to the queues of those who have accepted.
LEMMA RelayChunkOrder ==
    ASSUME Inv, OrderInv, RelayChunk, UNCHANGED flow
    PROVE  OrderInv'
<1> DEFINE q == uplink[Sender]
<1> DEFINE h == q[1].index
<1> DEFINE got == {r \in Receivers : r \in online /\ r \in up /\ legs[r] = "accepted"}
<1>1. WireTypes /\ Sender \in Clients BY InvParts, SetFacts
<1>2. /\ Receive(Sender, "chunk")
      /\ UNCHANGED <<target, clientVars, serverVars>>
      /\ UNCHANGED packets \/ Deliver({Sender}, "error")
    BY DEF RelayChunk, Complain
<1>3. UNCHANGED <<local, next, task, outcome, up, legs, online>>
    BY <1>2 DEF clientVars, serverVars
<1>4. UpcomingFalls /\ (Unsent' => Unsent) /\ (Idle => Idle') BY <1>3, SameTask
<1>5. Keeps BY RelayChunkStep
<1>6. (Ahead' => Ahead) /\ (Fresh' => Fresh) /\ InKeeps BY <1>5, KeepsAhead
<1>7. InPlain
    <2>1. "error" \in Kinds \ {"accept"} BY DEF Kinds
    <2>2. QED BY <1>1, <1>2, <2>1, SameInPlain, DeliverInPlain
<1>8. /\ q \in Seq(Frame) /\ q # <<>> /\ q[1].kind = "chunk" /\ q[1] \in Frame
      /\ uplink'[Sender] = Tail(q)
      /\ \A r \in Receivers : uplink'[r] = uplink[r]
    BY <1>1, <1>2, SetFacts, ReceiveTypes DEF WireTypes
<1>9. Head(q) = q[1] /\ 1 \in 1 .. Len(q) /\ h \in 0 .. Chunks
    <2>1. Head(q) = q[1] /\ Len(q) \in Nat /\ Len(q) >= 1 BY <1>8, TailFacts
    <2>2. QED BY <1>8, <2>1 DEF Frame
<1>10. \A r \in Receivers :
          /\ r \in got => frames'[r] = Append(frames[r], h)
          /\ r \notin got => frames'[r] = frames[r]
    BY <1>9 DEF RelayChunk, Listening
<1>11. ~NoChunk(q) BY <1>8, <1>9 DEF NoChunk
<1>12. ~Unsent /\ Ordered(q) /\ \A k : Upcoming(k) => Ends(q, k)
    BY <1>11 DEF OrderInv, Wire
<1> HIDE DEF q
<1>13. /\ Ordered(Tail(q)) /\ h < Chunks
       /\ \A k : Starts(q, k) => h = k
       /\ Starts(Tail(q), h + 1)
       /\ \A k : Ends(q, k) => Ends(Tail(q), k) /\ (NoChunk(Tail(q)) => h + 1 = k)
    BY <1>8, <1>12, TailChunk
<1> HIDE DEF h, got
<1>14. /\ Starts(uplink'[Sender], h + 1)
       /\ NoChunk(uplink'[Sender]) => \A k : Upcoming(k)' => k = h + 1
    BY <1>4, <1>8, <1>12, <1>13 DEF UpcomingFalls
<1>15. Wire' BY <1>4, <1>8, <1>12, <1>13 DEF Wire, UpcomingFalls
<1>16. SenderFits' BY <1>3, <1>6, SameSenderFits DEF OrderInv
<1>17. ASSUME NEW r \in Receivers PROVE FollowsFile(r)'
    <2>1. FollowsFile(r) BY DEF OrderInv
    <2>2. UpFollows(r) BY <1>8, UpFollowsOld
    <2>3. r \in got => legs[r] = "accepted" /\ (Broadcast \/ target = r)
        BY <2>1 DEF FollowsFile, Reached, got
    <2>4. frames[r] \in Seq(0 .. Chunks) /\ next[r] \in Nat
        BY InvParts, SetFacts DEF WireTypes, ClientTypes
    <2>5. Reached(r)'
        <3>1. frames'[r] # <<>> => Broadcast' \/ target' = r
            <4>1. CASE r \in got BY <1>2, <2>3, <4>1 DEF Broadcast
            <4>2. CASE r \notin got
                BY <1>2, <1>10, <2>1, <4>2 DEF FollowsFile, Reached, Broadcast
            <4>3. QED BY <4>1, <4>2
        <3>2. packets'[r] # <<>> => packets[r] # <<>> \/ r \in up BY <1>7 DEF InPlain
        <3>3. r \in up => ~CloseUp(r)'
            BY <1>3, <2>1, <2>2 DEF FollowsFile, Reached, UpFollows
        <3>4. legs'[r] # "none" => Broadcast' \/ target' = r
            BY <1>2, <1>3, <2>1 DEF FollowsFile, Reached, Broadcast
        <3>5. QED BY <1>3, <2>1, <3>1, <3>2, <3>3, <3>4 DEF FollowsFile, Reached
    <2>6. Begins(r)'
        <3>1. legs[r] # "accepted" => frames'[r] = frames[r] BY <1>10, <2>3
        <3>2. Ahead' \/ ~NoOfferIn(r)' \/ local'[r] = "PendingOffer" =>
                  ~AcceptUp(r)' /\ legs'[r] # "accepted" /\ frames'[r] = <<>>
            BY <1>3, <1>6, <2>1, <2>2, <3>1 DEF FollowsFile, Begins, InKeeps, UpFollows
        <3>3. Ahead' \/ legs'[r] = "offered" => frames'[r] = <<>> /\ next'[r] = 0
            BY <1>3, <1>6, <2>1, <3>1 DEF FollowsFile, Begins
        <3>4. outcome'[r] = "broken" =>
                  /\ local'[r] = "absent" /\ ~Ahead' /\ NoOfferIn(r)'
                  /\ Broadcast' /\ next'[r] = 0
            BY <1>2, <1>3, <1>6, <2>1 DEF FollowsFile, Begins, InKeeps, Broadcast
        <3>5. QED BY <3>2, <3>3, <3>4 DEF Begins
    <2>7. Waits(r)'
        <3>1. ~(target = r /\ (Ahead \/ legs[r] = "offered"))
            BY <1>11, <2>1 DEF FollowsFile, Waits, q
        <3>2. QED BY <1>2, <1>3, <1>6, <3>1 DEF Waits
    <2>8. CASE r \in got
        <3>1. /\ Len(frames[r]) \in Nat
              /\ Len(frames'[r]) = Len(frames[r]) + 1
              /\ \A i \in 1 .. Len(frames[r]) : frames'[r][i] = frames[r][i]
              /\ frames'[r][Len(frames[r]) + 1] = h
            <4>1. frames'[r] = Append(frames[r], h) /\ h \in 0 .. Chunks
                BY <1>9, <1>10, <2>8 DEF h
            <4>2. QED BY <2>4, <4>1, AppendFacts
        <3>2. Len(frames'[r]) # 0 /\ frames'[r] # <<>> BY <3>1
        <3>3. Expect(r)' = h + 1 BY <3>1, <3>2 DEF Expect
        <3>4. \A i \in 1 .. Len(frames'[r]) : frames'[r][i] < Chunks
            <4>1. \A i \in 1 .. Len(frames'[r]) :
                      i \in 1 .. Len(frames[r]) \/ i = Len(frames[r]) + 1
                BY <3>1
            <4>2. QED BY <1>13, <2>1, <3>1, <4>1 DEF FollowsFile, InStep
        <3>5. ASSUME local[r] = "Receiving"
              PROVE  /\ \A i \in 1 .. Len(frames'[r]) - 1 :
                            frames'[r][i + 1] = frames'[r][i] + 1
                     /\ next[r] > 0 \/ target = r => frames'[r][1] = next[r]
            <4>1. /\ \A i \in 1 .. Len(frames[r]) - 1 : frames[r][i + 1] = frames[r][i] + 1
                  /\ frames[r] # <<>> /\ (next[r] > 0 \/ target = r) =>
                        frames[r][1] = next[r]
                  /\ Started(r) => h = Expect(r)
                BY <1>13, <2>1, <2>3, <2>8, <3>5 DEF FollowsFile, InStep, q
            <4>2. CASE frames[r] = <<>>
                <5>1. Len(frames[r]) = 0 BY <4>2
                <5>2. Len(frames'[r]) = 1 /\ frames'[r][1] = h BY <3>1, <5>1
                <5>3. next[r] > 0 \/ target = r => h = next[r]
                    BY <4>1, <4>2 DEF Started, Expect
                <5>4. QED BY <5>2, <5>3
            <4>3. CASE frames[r] # <<>>
                <5>1. Len(frames[r]) >= 1 BY <2>4, <3>1, <4>3
                <5>2. h = frames[r][Len(frames[r])] + 1 BY <4>1, <4>3 DEF Started, Expect
                <5>3. ASSUME NEW i \in 1 .. Len(frames'[r]) - 1
                      PROVE  frames'[r][i + 1] = frames'[r][i] + 1
                    <6>1. i \in 1 .. Len(frames[r]) BY <3>1
                    <6>2. CASE i = Len(frames[r]) BY <3>1, <5>2, <6>1, <6>2
                    <6>3. CASE i # Len(frames[r])
                        <7>1. /\ i \in 1 .. Len(frames[r]) - 1
                              /\ i + 1 \in 1 .. Len(frames[r])
                            BY <3>1, <6>1, <6>3
                        <7>2. QED BY <3>1, <4>1, <6>1, <7>1
                    <6>4. QED BY <6>2, <6>3
                <5>4. 1 \in 1 .. Len(frames[r]) BY <3>1, <5>1
                <5>5. frames'[r][1] = frames[r][1] BY <3>1, <5>4
                <5>6. QED BY <4>1, <4>3, <5>3, <5>5
            <4>4. QED BY <4>2, <4>3
        <3>6. InStep(r)' BY <1>2, <1>3, <1>14, <3>3, <3>4, <3>5 DEF InStep
        <3>7. QED BY <2>5, <2>6, <2>7, <3>6 DEF FollowsFile
    <2>9. CASE r \notin got
        <3>1. frames'[r] = frames[r] BY <1>10, <2>9
        <3>2. local[r] = "Receiving" => legs[r] # "accepted"
            BY <2>1, <2>9 DEF FollowsFile, Reached, got
        <3>3. InStep(r)' BY <1>2, <1>3, <2>1, <3>1, <3>2 DEF FollowsFile, InStep
        <3>4. QED BY <2>5, <2>6, <2>7, <3>3 DEF FollowsFile
    <2>10. QED BY <2>8, <2>9
<1>18. QED BY <1>15, <1>16, <1>17 DEF OrderInv

-----------------------------------------------------------------------------
(* The chunks stay in step                                                 *)

LEMMA OrderInit == FlowInit => OrderInv
<1> SUFFICES ASSUME FlowInit PROVE OrderInv
    OBVIOUS
<1>1. Len(<<>>) = 0
    OBVIOUS
<1>2. /\ local = [c \in Clients |-> "absent"]
      /\ next = [r \in Receivers |-> 0]
      /\ task = [at |-> "none", pos |-> 0]
      /\ outcome = [c \in Clients |-> "none"]
      /\ uplink = [c \in Clients |-> <<>>]
      /\ packets = [c \in Clients |-> <<>>]
      /\ frames = [r \in Receivers |-> <<>>]
      /\ legs = [r \in Receivers |-> "none"]
      /\ up = Clients /\ online = Clients
      /\ flow \in {"none", "start"}
    BY DEF FlowInit, Init
<1>3. \A c \in Clients : /\ Len(uplink[c]) = 0 /\ Len(packets[c]) = 0
                         /\ local[c] = "absent" /\ outcome[c] = "none"
    BY <1>1, <1>2
<1>4. Idle /\ task.at = "none" /\ \A k : Upcoming(k) => k = 0
    BY <1>2 DEF Idle, Upcoming
<1>5. NoChunk(uplink[Sender]) /\ Ordered(uplink[Sender])
      /\ (\A k : Starts(uplink[Sender], k)) /\ \A k : Ends(uplink[Sender], k)
    BY <1>3, SetFacts DEF NoChunk, Ordered, Starts, Ends
<1>6. ~AcceptIn BY <1>3, SetFacts DEF AcceptIn
<1>7. Wire BY <1>5 DEF Wire
<1>8. SenderFits BY <1>3, <1>4, SetFacts DEF SenderFits
<1>9. ASSUME NEW r \in Receivers PROVE FollowsFile(r)
    <2>1. r \in Clients BY SetFacts
    <2>2. frames[r] = <<>> /\ next[r] = 0 /\ legs[r] = "none" /\ Len(frames[r]) = 0
        BY <1>1, <1>2
    <2>3. ~AcceptUp(r) /\ ~CloseUp(r) BY <1>3, <2>1 DEF AcceptUp, CloseUp
    <2>4. Reached(r) BY <1>2, <2>1, <2>2, <2>3 DEF Reached
    <2>5. Begins(r) BY <1>3, <2>1, <2>2, <2>3 DEF Begins
    <2>6. Waits(r) BY <1>4, <1>5, <1>6 DEF Waits
    <2>7. InStep(r) BY <1>3, <2>1, <2>2 DEF InStep
    <2>8. QED BY <2>4, <2>5, <2>6, <2>7 DEF FollowsFile
<1>10. QED BY <1>7, <1>8, <1>9 DEF OrderInv

LEMMA LoopOrder ==
    ASSUME Inv, OrderInv, NEW c \in Clients, Loop(c), UNCHANGED flow
    PROVE  OrderInv'
<1>1. CASE \/ OnEnd(c, "abort", "cancelled")
           \/ OnEnd(Sender, "reject", "refused")
           \/ OnEnd(Sender, "tooLarge", "refused")
    BY <1>1, SetFacts, OnEndOrder
<1>2. CASE c \in Receivers /\ (OnOffer(c) \/ OnComplete(c))
    BY <1>2, OnOfferOrder, OnCompleteOrder
<1>3. CASE OnAccept \/ OnError BY <1>3, OnAcceptOrder, OnErrorOrder
<1>4. CASE OnAck("delivered") \/ OnAck("refused") BY <1>4, OnAckOrder
<1>5. QED BY <1>1, <1>2, <1>3, <1>4 DEF Loop

LEMMA ServerOrder ==
    ASSUME Inv, OrderInv, NEW c \in Clients, Server(c), UNCHANGED flow
    PROVE  OrderInv'
<1>1. CASE RelayOffer BY <1>1, RelayOfferOrder
<1>2. CASE RelayComplete BY <1>2, RelayCompleteOrder
<1>3. CASE RelayChunk BY <1>3, RelayChunkOrder
<1>4. CASE c \in Receivers /\ RelayAccept(c) BY <1>4, RelayAcceptOrder
<1>5. CASE RelayEnd(c, "reject") \/ RelayEnd(c, "abort") BY <1>5, RelayEndOrder
<1>6. CASE c \in Receivers /\ (RelayAck(c, "ackOk") \/ RelayAck(c, "ackRejected"))
    BY <1>6, RelayAckOrder
<1>7. CASE EndSession(c) BY <1>7, EndSessionOrder
<1>8. QED BY <1>1, <1>2, <1>3, <1>4, <1>5, <1>6, <1>7 DEF Server

LEMMA FlowOrder ==
    ASSUME Inv, OrderInv, Flow
    PROVE  OrderInv'
<1>1. CASE SendOffer BY <1>1, CommandOfferOrder
<1>2. CASE FirstAccept \/ GraceOver \/ Dispatch BY <1>2, TakesOrder
<1>3. CASE SendAll BY <1>3, SendAllOrder
<1>4. CASE FirstAck \/ Bail \/ Deadline \/ Closed
    <2>1. flow # "none" BY <1>4 DEF FirstAck, Bail, Deadline, Closed
    <2>2. \E why \in Outcomes : Exit(why)
        <3>1. {"delivered", "refused", "unsent", "cancelled", "failed", "disconnected"}
                  \subseteq Outcomes
            BY DEF Outcomes
        <3>2. QED BY <1>4, <3>1 DEF FirstAck, Bail, Deadline, Closed
    <2>3. QED BY <2>1, <2>2, ExitOrder
<1>5. QED BY <1>1, <1>2, <1>3, <1>4 DEF Flow

LEMMA StutterOrder ==
    ASSUME OrderInv, UNCHANGED flowVars
    PROVE  OrderInv'
<1>1. UNCHANGED <<target, clientVars, uplink, packets, frames, serverVars, flow>>
    BY DEF flowVars, vars, wireVars
<1>2. UNCHANGED <<local, next, task, outcome, up, legs, online>>
    BY <1>1 DEF clientVars, serverVars
<1>3. UpcomingFalls /\ (Unsent' => Unsent) /\ (Idle => Idle') BY <1>1, <1>2, SameTask
<1>4. UpPlain /\ InPlain BY <1>1, <1>3, SameUpPlain, SameInPlain
<1>5. (Ahead' => Ahead) /\ (Fresh' => Fresh)
    BY <1>1, <1>2 DEF Ahead, Fresh, NoOfferUp
<1>6. SenderFits' BY <1>1, <1>2, <1>5, SameSenderFits DEF OrderInv
<1>7. \A r \in Receivers : StoreFollows(r) BY <1>1, <1>2 DEF StoreFollows
<1>8. InKeeps BY <1>1, SameIn
<1>9. QED
    BY <1>1, <1>2, <1>3, <1>4, <1>5, <1>6, <1>7, <1>8, ClientPlainStep

LEMMA OrderNext == Inv /\ OrderInv /\ [FlowNext]_flowVars => OrderInv'
<1> SUFFICES ASSUME Inv, OrderInv, [FlowNext]_flowVars PROVE OrderInv'
    OBVIOUS
<1>1. CASE UNCHANGED flowVars BY <1>1, StutterOrder
<1>2. ASSUME NEW r \in Receivers, UNCHANGED flow,
             Accept(r) \/ Reject(r) \/ Abort(r) \/ Leave(r)
      PROVE  OrderInv'
    BY <1>2, SetFacts, AcceptOrder, RejectOrder, AbortOrder, LeaveOrder
<1>3. CASE Peers /\ UNCHANGED flow
    BY <1>2, <1>3, SetFacts, LoopOrder, OnChunkOrder, ServerOrder DEF Peers, Tasks
<1>4. CASE flow = "none" /\ Next /\ UNCHANGED flow
    <2>1. CASE User
        BY <1>2, <1>4, <2>1, SessionOfferOrder, AbortOrder, LeaveOrder DEF User
    <2>2. CASE SendTask
        BY <1>4, <2>2, CheckOutgoingOrder, PutChunkOrder, PutCompleteOrder, AwaitAckOrder
           DEF SendTask
    <2>3. CASE \E c \in Clients : Loop(c) \/ Server(c)
        BY <1>4, <2>3, LoopOrder, ServerOrder
    <2>4. CASE \E r \in Receivers : OnChunk(r) BY <1>4, <2>4, OnChunkOrder
    <2>5. QED BY <1>4, <2>1, <2>2, <2>3, <2>4 DEF Next
<1>5. CASE LoseConnection BY <1>5, LoseConnectionOrder
<1>6. CASE Sweep \/ SweepDuringOffer BY <1>6, SweepOrder, SweepDuringOfferOrder
<1>7. CASE Flow BY <1>7, FlowOrder
<1>8. QED BY <1>1, <1>3, <1>4, <1>5, <1>6, <1>7 DEF FlowNext

LEMMA OrderAlways == FlowSpec => []OrderInv
BY InvAlways, OrderInit, OrderNext, PTL DEF FlowSpec

\* validate_incoming_chunk refuses a chunk out of its turn, and fail_incoming_file
\* gives the file up.  That happens to a receiver only if it accepted a broadcast
\* whose first chunks had already gone by; never in the middle of a file, and
\* never to the one receiver of a unicast file.
THEOREM BrokenOnlyAtStartAlways == FlowSpec => []BrokenOnlyAtStart
<1>1. OrderInv => BrokenOnlyAtStart
    BY DEF OrderInv, FollowsFile, Begins, BrokenOnlyAtStart
<1>2. QED BY <1>1, OrderAlways, PTL

=============================================================================
