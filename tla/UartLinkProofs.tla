---------------------------- MODULE UartLinkProofs ----------------------------
(***************************************************************************)
(* Proofs about UartLink, for every size of frames and buffers, number of   *)
(* changes and number of faults: its types, that a fault spoils one frame   *)
(* at most, and that the link implements Handoff.                           *)
(***************************************************************************)
EXTENDS UartLink, FiniteSetTheorems, SequenceTheorems, WellFoundedInduction, TLAPS

(* All that was written since the gateway asked and is not decoded yet, and  *)
(* the rest of the frame being written.                                     *)
Arrived == packet_buffer \o rx
Stream  == Arrived \o out

(* The frame that ends at place i of a sequence of bytes is whole.           *)
WholeOf(bytes, i, version, length) ==
    /\ length < i
    /\ i - length = 1 \/ bytes[i - length - 1] = Separator
    /\ \A j \in 1 .. length : bytes[i - length - 1 + j] = <<version, length, j>>

Whole(bytes, i) ==
    /\ bytes[i] = Separator
    /\ \E version \in Version, length \in 1 .. MAX_FRAME : WholeOf(bytes, i, version, length)

(***************************************************************************)
(* The places where a frame ends that is not whole.  The bytes at the end   *)
(* that no separator follows are the head of such a frame: what is written  *)
(* next will be taken for the rest of it.                                   *)
(***************************************************************************)
SpoiledEnds(bytes) ==
    {i \in 1 .. Len(bytes) : (bytes[i] = Separator \/ i = Len(bytes)) /\ ~Whole(bytes, i)}

Clean(bytes) == \A i \in 1 .. Len(bytes) : bytes[i] # Separator

-----------------------------------------------------------------------------
(* One frame is written at a time, and a zero is the last byte of it.        *)
WriterInv ==
    /\ sender # "writing" => out = <<>>
    /\ \A i \in 1 .. Len(out) - 1 : out[i] # Separator

(* What is on its way tells of the table as it was since the gateway asked.  *)
TellsOf(bytes, first, last) ==
    \A i \in 1 .. Len(bytes) : bytes[i] = Separator \/ bytes[i][1] \in first .. last

AskedInv ==
    gateway = "reading" => asked \in 0 .. table /\ TellsOf(Stream, asked, table)

(***************************************************************************)
(* Whole frames wait in packet_buffer only behind one that did not decode.  *)
(* Each failure lets the bytes of one read wait, without the zero it found.  *)
(***************************************************************************)
LeftoverInv ==
    Clean(packet_buffer) \/ Len(packet_buffer) <= failures * (RX_BUFFER - 1)

(* Every frame that did not decode, or will not, has a fault of its own.     *)
Pending == IF gateway = "reading" THEN Cardinality(SpoiledEnds(Stream)) ELSE 0

Few == faults * RX_BUFFER <= Spare

SpoiledInv == Few => Spoiled + Pending <= faults

LinkInv ==
    /\ TypeOK
    /\ WriterInv
    /\ AskedInv
    /\ LeftoverInv
    /\ SpoiledInv
-----------------------------------------------------------------------------
(* A set of numbers has a least element.                                     *)
LEMMA Least ==
    ASSUME NEW T \in SUBSET Nat, T # {}
    PROVE  \E x \in T : \A y \in T : x <= y
<1> DEFINE R == {ss \in Nat \X Nat : ss[1] < ss[2]}
<1>1. IsWellFoundedOn(R, Nat)
  BY NatLessThanWellFounded DEF OpToRel
<1>2. PICK x \in T : \A y \in T : <<y, x>> \notin R
  <2> HIDE DEF R
  <2> QED
    BY <1>1, WFMin
<1>3. \A y \in T : x <= y
  <2> TAKE y \in T
  <2>1. <<y, x>> \notin R
    BY <1>2
  <2>2. x \in Nat /\ y \in Nat
    OBVIOUS
  <2> QED
    BY <2>1, <2>2
<1> QED
  BY <1>3

(* FirstZero finds the first separator.                                      *)
LEMMA FirstZeroFinds ==
    ASSUME NEW S, NEW bytes \in Seq(S), Contains(bytes, Separator)
    PROVE  /\ FirstZero(bytes) \in 1 .. Len(bytes)
           /\ bytes[FirstZero(bytes)] = Separator
           /\ \A i \in 1 .. FirstZero(bytes) - 1 : bytes[i] # Separator
<1> DEFINE I == {i \in 1 .. Len(bytes) : bytes[i] = Separator}
<1>1. I \in SUBSET Nat /\ I # {}
  BY DEF Contains
<1>2. \E x \in I : \A y \in I : x <= y
  <2> HIDE DEF I
  <2> QED
    BY <1>1, Least
<1>3. FirstZero(bytes) = CHOOSE x \in I : \A y \in I : x <= y
  BY <1>1 DEF FirstZero, SelectInSeq, Min
<1>4. FirstZero(bytes) \in I /\ \A y \in I : FirstZero(bytes) <= y
  <2> HIDE DEF I
  <2> QED
    BY <1>2, <1>3
<1> QED
  BY <1>4

(* Separator is a byte, and no byte of a frame is one.                       *)
LEMMA SeparatorType == Separator \in Byte
BY SizeAssumption, BoundAssumption DEF Separator, Byte, Version

(* A body has its length, and no zero in it.                                 *)
LEMMA BodyType ==
    ASSUME NEW version \in Version, NEW length \in 1 .. MAX_FRAME
    PROVE  /\ Body(version, length) \in Seq(Byte)
           /\ Len(Body(version, length)) = length
           /\ \A i \in 1 .. length : Body(version, length)[i] = <<version, length, i>>
           /\ \A i \in 1 .. length : <<version, length, i>> # Separator
<1>1. \A i \in 1 .. length : <<version, length, i>> \in Byte
  BY SizeAssumption DEF Byte
<1>2. length \in Nat
  BY SizeAssumption
<1>3. Body(version, length) \in [1 .. length -> Byte]
  BY <1>1 DEF Body
<1>4. \A i \in 1 .. length : <<version, length, i>> # Separator
  BY <1>2 DEF Separator
<1>5. Body(version, length) \in Seq(Byte)
  BY <1>2, <1>3, SeqDef
<1>6. Len(Body(version, length)) = length
  BY <1>2, <1>3, <1>5
<1> QED
  BY <1>4, <1>5, <1>6 DEF Body

(* A sequence of bytes that is a whole frame, and its separator.             *)
IsFrame(frame, version, length) ==
    /\ frame \in Seq(Byte)
    /\ Len(frame) = length + 1
    /\ \A i \in 1 .. length : frame[i] = <<version, length, i>> /\ frame[i] # Separator
    /\ frame[length + 1] = Separator

(* What is written is a whole frame.                                         *)
LEMMA FrameType ==
    ASSUME NEW version \in Version, NEW length \in 1 .. MAX_FRAME
    PROVE  IsFrame(Append(Body(version, length), Separator), version, length)
<1> DEFINE body == Body(version, length)
<1>1. /\ body \in Seq(Byte)
      /\ Len(body) = length
      /\ \A i \in 1 .. length : body[i] = <<version, length, i>>
      /\ \A i \in 1 .. length : <<version, length, i>> # Separator
  BY BodyType
<1> HIDE DEF body
<1>2. /\ Append(body, Separator) \in Seq(Byte)
      /\ Len(Append(body, Separator)) = length + 1
      /\ \A i \in 1 .. length : Append(body, Separator)[i] = body[i]
      /\ Append(body, Separator)[length + 1] = Separator
  BY <1>1, SeparatorType, AppendProperties
<1>3. IsFrame(Append(body, Separator), version, length)
  BY <1>1, <1>2 DEF IsFrame
<1> QED
  BY <1>3 DEF body

-----------------------------------------------------------------------------
(* One element more makes a finite set larger by one at most; one for        *)
(* another leaves it as large.                                              *)
LEMMA OneMore ==
    ASSUME NEW E, NEW D, NEW n, IsFiniteSet(E), D \subseteq E \cup {n}
    PROVE  Cardinality(D) <= Cardinality(E) + 1
<1>1. Cardinality(E) \in Nat
  BY FS_CardinalityType
<1>2. /\ IsFiniteSet(E \cup {n})
      /\ Cardinality(E \cup {n}) = IF n \in E THEN Cardinality(E) ELSE Cardinality(E) + 1
  BY FS_AddElement
<1>3. IsFiniteSet(D) /\ Cardinality(D) <= Cardinality(E \cup {n})
  BY <1>2, FS_Subset
<1>4. Cardinality(D) \in Nat
  BY <1>3, FS_CardinalityType
<1> QED
  BY <1>1, <1>2, <1>3, <1>4

(* One for one: a set that lost a member and got another is no larger.       *)
LEMMA OneForOne ==
    ASSUME NEW E, NEW D, NEW n \in E, NEW m, IsFiniteSet(E), D \subseteq (E \ {n}) \cup {m}
    PROVE  Cardinality(D) <= Cardinality(E)
<1>1. /\ IsFiniteSet(E \ {n})
      /\ Cardinality(E \ {n}) = Cardinality(E) - 1
  BY FS_RemoveElement
<1>2. Cardinality(D) <= Cardinality(E \ {n}) + 1
  BY <1>1, OneMore
<1>3. Cardinality(E) \in Nat
  BY FS_CardinalityType
<1>4. IsFiniteSet((E \ {n}) \cup {m})
  BY <1>1, FS_AddElement
<1>5. Cardinality(D) \in Nat
  BY <1>4, FS_Subset, FS_CardinalityType
<1> QED
  BY <1>1, <1>2, <1>3, <1>5

(* The spoiled ends of a sequence can be counted.                            *)
LEMMA SpoiledFinite ==
    ASSUME NEW bytes \in Seq(Byte)
    PROVE  /\ SpoiledEnds(bytes) \in SUBSET (1 .. Len(bytes))
           /\ IsFiniteSet(SpoiledEnds(bytes))
           /\ Cardinality(SpoiledEnds(bytes)) \in Nat
<1>1. SpoiledEnds(bytes) \in SUBSET (1 .. Len(bytes))
  BY DEF SpoiledEnds
<1>2. Len(bytes) \in Nat
  BY LenProperties
<1>3. IsFiniteSet(1 .. Len(bytes))
  BY <1>2, FS_Interval
<1>4. IsFiniteSet(SpoiledEnds(bytes))
  BY <1>1, <1>3, FS_Subset
<1> QED
  BY <1>1, <1>4, FS_CardinalityType

(* Whether a frame is whole depends on the bytes up to its end.              *)
LEMMA WholePrefix ==
    ASSUME NEW s \in Seq(Byte), NEW t \in Seq(Byte), NEW i \in Nat,
           i <= Len(s), i <= Len(t), \A j \in 1 .. i : s[j] = t[j],
           Whole(s, i)
    PROVE  Whole(t, i)
<1>1. PICK version \in Version, length \in 1 .. MAX_FRAME : WholeOf(s, i, version, length)
  BY DEF Whole
<1>2. length \in Nat /\ length < i /\ length >= 1
  BY <1>1, SizeAssumption DEF WholeOf
<1>3. t[i] = Separator
  BY <1>2 DEF Whole
<1>4. WholeOf(t, i, version, length)
  <2>1. i - length = 1 \/ t[i - length - 1] = Separator
    BY <1>1, <1>2 DEF WholeOf
  <2>2. \A j \in 1 .. length : t[i - length - 1 + j] = <<version, length, j>>
    <3> TAKE j \in 1 .. length
    <3>1. i - length - 1 + j \in 1 .. i
      BY <1>2
    <3>2. s[i - length - 1 + j] = <<version, length, j>>
      BY <1>1 DEF WholeOf
    <3> QED
      BY <3>1, <3>2
  <2> QED
    BY <1>2, <2>1, <2>2 DEF WholeOf
<1> QED
  BY <1>3, <1>4 DEF Whole

(* A sequence cut short or changed after P has one spoiled end more at most. *)
LEMMA CutSpoils ==
    ASSUME NEW P \in Seq(Byte), NEW X \in Seq(Byte), NEW Y \in Seq(Byte),
           \A i \in 1 .. Len(X) - 1 : X[i] # Separator
    PROVE  Cardinality(SpoiledEnds(P \o X)) <= Cardinality(SpoiledEnds(P \o Y)) + 1
<1> DEFINE s == P \o X
           t == P \o Y
<1>1. s \in Seq(Byte) /\ t \in Seq(Byte)
  BY ConcatProperties
<1>2. Len(P) \in Nat /\ Len(X) \in Nat /\ Len(Y) \in Nat
  BY LenProperties
<1>3. Len(s) = Len(P) + Len(X) /\ Len(t) = Len(P) + Len(Y)
  BY ConcatProperties
<1>4. \A i \in 1 .. Len(P) : s[i] = P[i] /\ t[i] = P[i]
  BY <1>2, ConcatProperties
<1>5. \A i \in 1 .. Len(X) : s[Len(P) + i] = X[i]
  BY <1>2, ConcatProperties
<1>6. SpoiledEnds(s) \subseteq SpoiledEnds(t) \cup {Len(s)}
  <2> SUFFICES ASSUME NEW i \in SpoiledEnds(s), i # Len(s)
               PROVE  i \in SpoiledEnds(t)
    OBVIOUS
  <2> HIDE DEF s, t
  <2>1. i \in 1 .. Len(s) /\ s[i] = Separator /\ ~Whole(s, i)
    BY DEF SpoiledEnds
  <2>6. i \in Nat /\ i >= 1 /\ i < Len(P) + Len(X)
    BY <1>2, <1>3, <2>1
  <2>2. i <= Len(P)
    <3> SUFFICES ASSUME ~(i <= Len(P)) PROVE FALSE
      OBVIOUS
    <3>1. i - Len(P) \in 1 .. Len(X) - 1
      BY <1>2, <2>6
    <3>2. s[Len(P) + (i - Len(P))] = X[i - Len(P)]
      BY <1>2, <1>5, <3>1
    <3> QED
      BY <1>2, <2>1, <2>6, <3>1, <3>2
  <2>3. i \in 1 .. Len(t) /\ t[i] = Separator
    BY <1>2, <1>3, <1>4, <2>1, <2>2
  <2>4. \A j \in 1 .. i : t[j] = s[j]
    BY <1>2, <1>4, <2>1, <2>2
  <2>5. ~Whole(t, i)
    <3>1. i \in Nat /\ i <= Len(s) /\ i <= Len(t)
      BY <1>2, <1>3, <2>2, <2>6
    <3> QED
      BY <1>1, <2>1, <2>4, <3>1, WholePrefix
  <2> QED
    BY <2>3, <2>5 DEF SpoiledEnds
<1>7. IsFiniteSet(SpoiledEnds(t))
  BY <1>1, SpoiledFinite
<1>8. Cardinality(SpoiledEnds(s)) <= Cardinality(SpoiledEnds(t)) + 1
  <2> HIDE DEF s, t
  <2> QED
    BY <1>6, <1>7, OneMore
<1> QED
  BY <1>8 DEF s, t

(* A frame written after S spoils no end that was not spoiled: if the bytes  *)
(* at the end of S make it part of theirs, they have counted already.       *)
LEMMA FrameSpoilsNone ==
    ASSUME NEW S \in Seq(Byte), NEW version \in Version, NEW length \in 1 .. MAX_FRAME,
           NEW frame, IsFrame(frame, version, length)
    PROVE  Cardinality(SpoiledEnds(S \o frame)) <= Cardinality(SpoiledEnds(S))
<1> DEFINE t == S \o frame
           n == Len(S)
           m == n + length + 1
<1>1. /\ frame \in Seq(Byte)
      /\ Len(frame) = length + 1
      /\ \A i \in 1 .. length : frame[i] = <<version, length, i>> /\ frame[i] # Separator
      /\ frame[length + 1] = Separator
  BY DEF IsFrame
<1>2. /\ n \in Nat /\ n = Len(S)
      /\ length \in Nat /\ length >= 1
      /\ m \in Nat /\ m = n + length + 1
  BY SizeAssumption, LenProperties
<1> HIDE DEF n, m
<1>3. t \in Seq(Byte) /\ Len(t) = m
  <2>1. t \in Seq(Byte) /\ Len(t) = Len(S) + Len(frame)
    BY <1>1, ConcatProperties
  <2> HIDE DEF t
  <2> QED
    BY <1>1, <1>2, <2>1
<1>4. \A i \in 1 .. n : t[i] = S[i]
  BY <1>1, <1>2, ConcatProperties
<1>5. \A i \in 1 .. length + 1 : t[n + i] = frame[i]
  BY <1>1, <1>2, ConcatProperties
<1> HIDE DEF t
<1>6. ASSUME NEW i \in SpoiledEnds(t), i # m
      PROVE  i \in SpoiledEnds(S) /\ i \in 1 .. n /\ t[i] = Separator
  <2>1. i \in 1 .. Len(t) /\ t[i] = Separator /\ ~Whole(t, i)
    BY <1>3, <1>6 DEF SpoiledEnds
  <2>2. i \in Nat /\ i >= 1 /\ i < m
    BY <1>2, <1>3, <1>6, <2>1
  <2>3. i <= n
    <3> SUFFICES ASSUME ~(i <= n) PROVE FALSE
      OBVIOUS
    <3>1. i - n \in 1 .. length
      BY <1>2, <2>2
    <3>2. t[n + (i - n)] = frame[i - n]
      BY <1>2, <1>5, <3>1
    <3> QED
      BY <1>1, <1>2, <2>1, <2>2, <3>1, <3>2
  <2>4. i \in 1 .. n /\ S[i] = Separator
    BY <1>2, <1>4, <2>1, <2>2, <2>3
  <2>5. ~Whole(S, i)
    <3>1. i <= Len(S) /\ i <= Len(t)
      BY <1>2, <1>3, <2>2, <2>3
    <3>2. \A j \in 1 .. i : S[j] = t[j]
      BY <1>2, <1>4, <2>2, <2>3
    <3> QED
      BY <1>3, <2>1, <2>2, <3>1, <3>2, WholePrefix
  <2> QED
    BY <1>2, <2>1, <2>4, <2>5 DEF SpoiledEnds
<1>7. ASSUME m \in SpoiledEnds(t)
      PROVE  n \in SpoiledEnds(S) /\ n \notin SpoiledEnds(t)
  <2>1. ~Whole(t, m)
    BY <1>7 DEF SpoiledEnds
  <2>2. t[m] = Separator
    <3>1. length + 1 \in 1 .. length + 1 /\ n + (length + 1) = m
      BY <1>2
    <3> QED
      BY <1>1, <1>5, <3>1
  <2>3. ~WholeOf(t, m, version, length)
    BY <2>1, <2>2 DEF Whole
  <2>4. length < m /\ m - length - 1 = n
    BY <1>2
  <2>5. \A j \in 1 .. length : t[m - length - 1 + j] = <<version, length, j>>
    <3> TAKE j \in 1 .. length
    <3>1. j \in 1 .. length + 1 /\ m - length - 1 + j = n + j
      BY <1>2
    <3> QED
      BY <1>1, <1>5, <3>1
  <2>6. m - length # 1 /\ t[m - length - 1] # Separator
    BY <2>3, <2>4, <2>5 DEF WholeOf
  <2>7. n \in 1 .. n /\ S[n] # Separator /\ t[n] # Separator
    BY <1>2, <1>4, <2>4, <2>6
  <2>8. n # Len(t)
    BY <1>2, <1>3
  <2> QED
    BY <1>2, <2>7, <2>8 DEF SpoiledEnds, Whole
<1>8. IsFiniteSet(SpoiledEnds(S))
  BY SpoiledFinite
<1>9. CASE m \in SpoiledEnds(t)
  <2>1. SpoiledEnds(t) \subseteq (SpoiledEnds(S) \ {n}) \cup {m}
    BY <1>6, <1>7, <1>9
  <2>2. Cardinality(SpoiledEnds(t)) <= Cardinality(SpoiledEnds(S))
    BY <1>7, <1>8, <1>9, <2>1, OneForOne
  <2> QED
    BY <2>2 DEF t
<1>10. CASE m \notin SpoiledEnds(t)
  <2>1. SpoiledEnds(t) \subseteq SpoiledEnds(S)
    BY <1>6, <1>10
  <2>2. Cardinality(SpoiledEnds(t)) <= Cardinality(SpoiledEnds(S))
    BY <1>8, <2>1, FS_Subset
  <2> QED
    BY <2>2 DEF t
<1> QED
  BY <1>9, <1>10

(***************************************************************************)
(* What is left when the front P is taken off has the spoiled ends it had,  *)
(* if P ends with a frame, or is part of one that is too long.              *)
(***************************************************************************)
LEMMA FrontTaken ==
    ASSUME NEW P \in Seq(Byte), NEW X \in Seq(Byte), P # <<>>,
           P[Len(P)] = Separator \/ (Clean(P) /\ Len(P) > MAX_FRAME)
    PROVE  Cardinality(SpoiledEnds(X)) <= Cardinality(SpoiledEnds(P \o X) \ {Len(P)})
<1> DEFINE s == P \o X
           k == Len(P)
           f == [i \in SpoiledEnds(X) |-> i + k]
<1>1. k \in Nat /\ k >= 1 /\ k = Len(P) /\ Len(X) \in Nat
  BY LenProperties, EmptySeq
<1>0. P[k] = Separator \/ (Clean(P) /\ k > MAX_FRAME)
  OBVIOUS
<1> HIDE DEF k
<1>2. s \in Seq(Byte) /\ Len(s) = k + Len(X)
  BY <1>1, ConcatProperties
<1>3. \A i \in 1 .. k : s[i] = P[i]
  BY <1>1, ConcatProperties
<1>4. \A i \in 1 .. Len(X) : s[k + i] = X[i]
  BY <1>1, ConcatProperties
<1> HIDE DEF s
<1>5. ASSUME NEW i \in SpoiledEnds(X)
      PROVE  i \in Nat /\ i + k \in SpoiledEnds(s) /\ i + k # k
  <2>1. i \in 1 .. Len(X) /\ (X[i] = Separator \/ i = Len(X)) /\ ~Whole(X, i)
    BY DEF SpoiledEnds
  <2>2. i \in Nat /\ i >= 1 /\ i <= Len(X)
    BY <1>1, <2>1
  <2>3. i + k \in 1 .. Len(s) /\ s[i + k] = X[i]
    BY <1>1, <1>2, <1>4, <2>1, <2>2
  <2>4. s[i + k] = Separator \/ i + k = Len(s)
    <3>1. CASE X[i] = Separator
      BY <2>3, <3>1
    <3>2. CASE i = Len(X)
      BY <1>1, <1>2, <3>2
    <3> QED
      BY <2>1, <3>1, <3>2
  <2>5. ~Whole(s, i + k)
    <3> SUFFICES ASSUME Whole(s, i + k) PROVE FALSE
      OBVIOUS
    <3>1. PICK version \in Version, length \in 1 .. MAX_FRAME : WholeOf(s, i + k, version, length)
      BY DEF Whole
    <3>2. X[i] = Separator
      BY <2>3 DEF Whole
    <3>3. length \in Nat /\ length >= 1 /\ length <= MAX_FRAME /\ MAX_FRAME \in Nat /\ length < i + k
      BY <3>1, SizeAssumption DEF WholeOf
    <3> DEFINE start == (i + k) - length - 1
    <3>4. start \in Nat /\ (start = 0 \/ s[start] = Separator)
      BY <1>1, <2>2, <3>1, <3>3 DEF WholeOf
    <3>5. \A j \in 1 .. length : s[start + j] = <<version, length, j>>
      BY <3>1 DEF WholeOf
    <3>8. start = (i + k) - length - 1
      OBVIOUS
    <3> HIDE DEF start
    <3>6. start >= k
      <4> SUFFICES ASSUME start < k PROVE FALSE
        BY <1>1, <3>4
      <4>1. CASE P[k] = Separator
        <5>1. k - start \in 1 .. length
          BY <1>1, <2>2, <3>3, <3>4, <3>8
        <5>2. s[start + (k - start)] = <<version, length, k - start>>
          BY <3>5, <5>1
        <5>3. s[k] = <<version, length, k - start>>
          BY <1>1, <3>4, <5>2
        <5>4. <<version, length, k - start>> # Separator
          BY <5>1, BodyType
        <5> QED
          <6>1. k \in 1 .. k
            BY <1>1
          <6>2. s[k] = Separator
            BY <1>3, <4>1, <6>1
          <6> QED
            BY <5>3, <5>4, <6>2
      <4>2. CASE Clean(P) /\ k > MAX_FRAME
        <5>1. start # 0
          BY <1>1, <2>2, <3>3, <3>8, <4>2
        <5>2. start \in 1 .. k
          BY <1>1, <3>4, <5>1
        <5> QED
          BY <1>1, <1>3, <3>4, <4>2, <5>1, <5>2 DEF Clean
      <4> QED
        BY <1>0, <4>1, <4>2
    <3>7. WholeOf(X, i, version, length)
      <4>1. length < i /\ start - k = i - length - 1 /\ start - k \in Nat
        BY <1>1, <2>2, <3>3, <3>4, <3>6, <3>8
      <4>2. i - length = 1 \/ X[i - length - 1] = Separator
        <5>1. CASE start = k
          BY <1>1, <2>2, <3>3, <3>8, <4>1, <5>1
        <5>2. CASE start # k
          <6>1. start - k \in 1 .. Len(X) /\ start # 0
            BY <1>1, <2>2, <3>3, <3>4, <3>6, <3>8, <4>1, <5>2
          <6>2. k + (start - k) = start
            BY <1>1, <3>4
          <6>3. s[k + (start - k)] = X[start - k]
            BY <1>4, <6>1
          <6> QED
            BY <3>4, <4>1, <6>1, <6>2, <6>3
        <5> QED
          BY <5>1, <5>2
      <4>3. ASSUME NEW j \in 1 .. length
            PROVE  X[i - length - 1 + j] = <<version, length, j>>
        <5>1. j \in Nat /\ j >= 1 /\ j <= length
          BY <3>3
        <5>2. i - length - 1 + j \in 1 .. Len(X)
          BY <2>2, <1>1, <3>3, <4>1, <5>1
        <5>3. s[k + (i - length - 1 + j)] = X[i - length - 1 + j]
          BY <1>4, <5>2
        <5>4. k + (i - length - 1 + j) = start + j
          BY <1>1, <2>2, <3>3, <3>8, <5>1
        <5> QED
          BY <3>5, <5>3, <5>4
      <4> QED
        BY <4>1, <4>2, <4>3 DEF WholeOf
    <3> QED
      BY <2>1, <3>2, <3>7 DEF Whole
  <2> QED
    BY <1>1, <2>2, <2>3, <2>4, <2>5 DEF SpoiledEnds
<1>6. f \in Injection(SpoiledEnds(X), SpoiledEnds(s) \ {k})
  <2>1. f \in [SpoiledEnds(X) -> SpoiledEnds(s) \ {k}]
    BY <1>5
  <2>2. \A i, j \in SpoiledEnds(X) : f[i] = f[j] => i = j
    BY <1>1, <1>5
  <2> HIDE DEF f
  <2> QED
    BY <2>1, <2>2 DEF Injection, IsInjective
<1>7. IsFiniteSet(SpoiledEnds(s) \ {k})
  BY <1>2, SpoiledFinite, FS_RemoveElement
<1>8. Cardinality(SpoiledEnds(X)) <= Cardinality(SpoiledEnds(s) \ {k})
  <2> HIDE DEF f, k
  <2> QED
    BY <1>6, <1>7, FS_Injection
<1> QED
  BY <1>1, <1>8 DEF s

-----------------------------------------------------------------------------
(* A frame decodes to the version it tells of, or to what nothing sent.      *)
LEMMA DecodeTells ==
    ASSUME NEW packet, NEW decoded \in Decode(packet)
    PROVE  \/ decoded \in {Error, Garbage}
           \/ decoded = packet[1][1] /\ decoded \in Version /\ Len(packet) >= 1
<1>1. CASE \E version \in Version, length \in 1 .. MAX_FRAME : packet = Body(version, length)
  <2>1. PICK version \in Version, length \in 1 .. MAX_FRAME : packet = Body(version, length)
    BY <1>1
  <2>2. length \in Nat /\ length >= 1
    BY SizeAssumption
  <2>3. packet[1] = <<version, length, 1>> /\ Len(packet) >= 1
    BY <2>1, <2>2, BodyType
  <2>4. packet[1][1] = version
    BY <2>3
  <2> QED
    BY <1>1, <2>3, <2>4 DEF Decode
<1>2. CASE ~\E version \in Version, length \in 1 .. MAX_FRAME : packet = Body(version, length)
  BY <1>2 DEF Decode
<1> QED
  BY <1>1, <1>2

(* A whole frame decodes to nothing else.                                    *)
LEMMA WholeDecodes ==
    ASSUME NEW s \in Seq(Byte), NEW z \in 1 .. Len(s), s[z] = Separator,
           \A i \in 1 .. z - 1 : s[i] # Separator,
           NEW packet \in Seq(Byte), Len(packet) = z - 1,
           \A i \in 1 .. z - 1 : packet[i] = s[i],
           z \notin SpoiledEnds(s),
           NEW decoded \in Decode(packet)
    PROVE  decoded \in Version
<1>1. z \in Nat /\ z >= 1 /\ z \in 1 .. Len(s)
  BY LenProperties
<1>2. Whole(s, z)
  BY DEF SpoiledEnds
<1>3. PICK version \in Version, length \in 1 .. MAX_FRAME : WholeOf(s, z, version, length)
  BY <1>2 DEF Whole
<1>4. length \in Nat /\ length >= 1 /\ length < z
  BY <1>3, SizeAssumption DEF WholeOf
<1>5. z - length = 1
  <2> SUFFICES ASSUME z - length # 1 PROVE FALSE
    OBVIOUS
  <2>1. s[z - length - 1] = Separator
    BY <1>3 DEF WholeOf
  <2>2. z - length - 1 \in 1 .. z - 1
    BY <1>1, <1>4
  <2> QED
    BY <2>1, <2>2
<1>6. \A j \in 1 .. length : packet[j] = <<version, length, j>>
  <2> TAKE j \in 1 .. length
  <2>1. j \in 1 .. z - 1 /\ z - length - 1 + j = j
    BY <1>1, <1>4, <1>5
  <2>2. s[z - length - 1 + j] = <<version, length, j>>
    BY <1>3 DEF WholeOf
  <2> QED
    BY <2>1, <2>2
<1>7. packet = Body(version, length)
  <2>1. Len(packet) = length
    BY <1>1, <1>4, <1>5
  <2>2. /\ Body(version, length) \in Seq(Byte)
        /\ Len(Body(version, length)) = length
        /\ \A i \in 1 .. length : Body(version, length)[i] = <<version, length, i>>
    BY BodyType
  <2> QED
    BY <1>6, <2>1, <2>2, SeqEqual
<1>8. decoded = packet[1][1]
  BY <1>7 DEF Decode
<1>9. packet[1] = <<version, length, 1>>
  BY <1>4, <1>6
<1> QED
  BY <1>8, <1>9

-----------------------------------------------------------------------------
(* What a read of fill_buf adds to packet_buffer, and what it leaves.        *)
Collected(read) == packet_buffer \o SubSeq(rx, 1, read)
Left(read)      == SubSeq(rx, read + 1, Len(rx))

(* The bytes on their way are bytes, as many as their parts.                 *)
LEMMA StreamType ==
    ASSUME TypeOK
    PROVE  /\ Arrived \in Seq(Byte)
           /\ Stream \in Seq(Byte)
           /\ Len(Arrived) = Len(packet_buffer) + Len(rx)
           /\ Len(Stream) = Len(Arrived) + Len(out)
BY ConcatProperties DEF TypeOK, Arrived, Stream

(* A read splits what arrived and loses nothing.                             *)
LEMMA ReadSplits ==
    ASSUME TypeOK, NEW read \in 1 .. Len(rx)
    PROVE  /\ Collected(read) \in Seq(Byte)
           /\ Len(Collected(read)) = Len(packet_buffer) + read
           /\ Left(read) \in Seq(Byte)
           /\ Len(Left(read)) = Len(rx) - read
           /\ Collected(read) \o Left(read) = Arrived
<1> DEFINE first == SubSeq(rx, 1, read)
           rest  == SubSeq(rx, read + 1, Len(rx))
<1>1. rx \in Seq(Byte) /\ Len(rx) \in Nat /\ packet_buffer \in Seq(Byte)
  BY LenProperties DEF TypeOK
<1>2. read \in Nat /\ 1 <= read /\ read <= Len(rx)
  BY <1>1
<1>3. \A i \in 1 .. Len(rx) : rx[i] \in Byte
  BY <1>1
<1>4. first \in Seq(Byte) /\ Len(first) = read
  <2>1. \A i \in 1 .. read : rx[i] \in Byte
    BY <1>2, <1>3
  <2> QED
    BY <1>2, <2>1, SubSeqProperties
<1>5. rest \in Seq(Byte) /\ Len(rest) = Len(rx) - read
  <2>1. \A i \in read + 1 .. Len(rx) : rx[i] \in Byte
    BY <1>2, <1>3
  <2>2. rest \in Seq(Byte) /\ Len(rest) = IF read + 1 <= Len(rx) THEN Len(rx) - (read + 1) + 1 ELSE 0
    BY <1>1, <1>2, <2>1, SubSeqProperties
  <2> QED
    BY <1>1, <1>2, <2>2
<1>6. first \o rest = rx
  <2>1. first \o rest = SubSeq(rx, 1, Len(rx))
    BY <1>1, <1>2, ConcatAdjacentSubSeq
  <2> QED
    BY <1>1, <2>1, SubSeqFull
<1> HIDE DEF first, rest
<1>7. packet_buffer \o first \in Seq(Byte) /\ Len(packet_buffer \o first) = Len(packet_buffer) + read
  BY <1>1, <1>4, ConcatProperties
<1>8. (packet_buffer \o first) \o rest = packet_buffer \o rx
  <2>1. \A s, t, u \in Seq(Byte) : (s \o t) \o u = s \o (t \o u)
    BY ConcatAssociative
  <2>2. (packet_buffer \o first) \o rest = packet_buffer \o (first \o rest)
    BY <1>1, <1>4, <1>5, <2>1, Zenon
  <2> QED
    BY <1>6, <2>2
<1> QED
  BY <1>5, <1>7, <1>8 DEF Collected, Left, Arrived, first, rest

(* The first frame of the collected bytes, with its separator and without,   *)
(* and the bytes behind it.                                                 *)
UpToZero(bytes) == SubSeq(bytes, 1, FirstZero(bytes))
Packet(bytes)   == SubSeq(bytes, 1, FirstZero(bytes) - 1)
Behind(bytes)   == SubSeq(bytes, FirstZero(bytes) + 1, Len(bytes))

(* A zero splits bytes into a packet and what is behind it.                  *)
LEMMA FrameSplits ==
    ASSUME NEW bytes \in Seq(Byte), Contains(bytes, Separator)
    PROVE  LET z == FirstZero(bytes)
           IN  /\ z \in 1 .. Len(bytes)
               /\ bytes[z] = Separator
               /\ \A i \in 1 .. z - 1 : bytes[i] # Separator
               /\ UpToZero(bytes) \in Seq(Byte) /\ Len(UpToZero(bytes)) = z
               /\ UpToZero(bytes)[z] = Separator
               /\ Packet(bytes) \in Seq(Byte) /\ Len(Packet(bytes)) = z - 1
               /\ \A i \in 1 .. z - 1 : Packet(bytes)[i] = bytes[i]
               /\ Behind(bytes) \in Seq(Byte) /\ Len(Behind(bytes)) = Len(bytes) - z
               /\ \A i \in 1 .. Len(bytes) - z : Behind(bytes)[i] = bytes[z + i]
               /\ UpToZero(bytes) \o Behind(bytes) = bytes
<1> DEFINE z == FirstZero(bytes)
<1>1. z \in 1 .. Len(bytes) /\ bytes[z] = Separator /\ \A i \in 1 .. z - 1 : bytes[i] # Separator
  BY FirstZeroFinds
<1>2. z = FirstZero(bytes)
  OBVIOUS
<1> HIDE DEF z
<1>3. Len(bytes) \in Nat /\ z \in Nat /\ z >= 1 /\ z <= Len(bytes)
  BY <1>1, LenProperties
<1>4. \A i \in 1 .. Len(bytes) : bytes[i] \in Byte
  BY ElementOfSeq
<1>5. /\ SubSeq(bytes, 1, z) \in Seq(Byte)
      /\ Len(SubSeq(bytes, 1, z)) = z
      /\ \A i \in 1 .. z : SubSeq(bytes, 1, z)[i] = bytes[i]
  <2>1. \A i \in 1 .. z : bytes[i] \in Byte
    BY <1>3, <1>4
  <2>2. /\ SubSeq(bytes, 1, z) \in Seq(Byte)
        /\ Len(SubSeq(bytes, 1, z)) = IF 1 <= z THEN z - 1 + 1 ELSE 0
        /\ \A i \in 1 .. z - 1 + 1 : SubSeq(bytes, 1, z)[i] = bytes[1 + i - 1]
    BY <1>3, <2>1, SubSeqProperties
  <2> QED
    BY <1>3, <2>2
<1>6. /\ SubSeq(bytes, 1, z - 1) \in Seq(Byte)
      /\ Len(SubSeq(bytes, 1, z - 1)) = z - 1
      /\ \A i \in 1 .. z - 1 : SubSeq(bytes, 1, z - 1)[i] = bytes[i]
  <2>1. \A i \in 1 .. z - 1 : bytes[i] \in Byte
    BY <1>3, <1>4
  <2>2. /\ SubSeq(bytes, 1, z - 1) \in Seq(Byte)
        /\ Len(SubSeq(bytes, 1, z - 1)) = IF 1 <= z - 1 THEN (z - 1) - 1 + 1 ELSE 0
        /\ \A i \in 1 .. (z - 1) - 1 + 1 : SubSeq(bytes, 1, z - 1)[i] = bytes[1 + i - 1]
    BY <1>3, <2>1, SubSeqProperties
  <2> QED
    BY <1>3, <2>2
<1>7. /\ SubSeq(bytes, z + 1, Len(bytes)) \in Seq(Byte)
      /\ Len(SubSeq(bytes, z + 1, Len(bytes))) = Len(bytes) - z
      /\ \A i \in 1 .. Len(bytes) - z : SubSeq(bytes, z + 1, Len(bytes))[i] = bytes[z + i]
  <2>1. \A i \in z + 1 .. Len(bytes) : bytes[i] \in Byte
    BY <1>3, <1>4
  <2>2. /\ SubSeq(bytes, z + 1, Len(bytes)) \in Seq(Byte)
        /\ Len(SubSeq(bytes, z + 1, Len(bytes)))
             = IF z + 1 <= Len(bytes) THEN Len(bytes) - (z + 1) + 1 ELSE 0
        /\ \A i \in 1 .. Len(bytes) - (z + 1) + 1 :
              SubSeq(bytes, z + 1, Len(bytes))[i] = bytes[(z + 1) + i - 1]
    BY <1>3, <2>1, SubSeqProperties
  <2> QED
    BY <1>3, <2>2
<1>8. SubSeq(bytes, 1, z) \o SubSeq(bytes, z + 1, Len(bytes)) = bytes
  <2>1. SubSeq(bytes, 1, z) \o SubSeq(bytes, z + 1, Len(bytes)) = SubSeq(bytes, 1, Len(bytes))
    BY <1>3, ConcatAdjacentSubSeq
  <2> QED
    BY <2>1, SubSeqFull
<1>9. SubSeq(bytes, 1, z)[z] = Separator
  BY <1>1, <1>3, <1>5
<1> QED
  BY <1>1, <1>2, <1>5, <1>6, <1>7, <1>8, <1>9 DEF UpToZero, Packet, Behind

-----------------------------------------------------------------------------
(* Init satisfies the invariant.                                             *)
LEMMA InitLink == Init => LinkInv
<1> SUFFICES ASSUME Init PROVE LinkInv
  OBVIOUS
<1>1. <<>> \in Seq(Byte) /\ Len(<<>>) = 0
  OBVIOUS
<1>2. TypeOK
  <2>1. /\ MAX_FRAME + 1 \in Nat /\ RX_BUFFER \in Nat /\ PACKET_BUFFER \in Nat
        /\ 0 \in Version /\ 0 \in 0 .. MaxFaults
    BY SizeAssumption, BoundAssumption DEF Version
  <2>2. Len(<<>>) <= MAX_FRAME + 1 /\ Len(<<>>) <= RX_BUFFER /\ Len(<<>>) <= PACKET_BUFFER
    BY <1>1, <2>1
  <2>3. 0 \in Nat
    OBVIOUS
  <2> QED
    BY <1>1, <2>1, <2>2, <2>3, Zenon DEF Init, TypeOK
<1>3. WriterInv
  BY <1>1 DEF Init, WriterInv
<1>4. AskedInv /\ SpoiledInv
  BY DEF Init, AskedInv, SpoiledInv, Spoiled, Pending, Nothing, Garbage
<1>5. LeftoverInv
  BY <1>1 DEF Init, LeftoverInv, Clean
<1> QED
  BY <1>2, <1>3, <1>4, <1>5 DEF LinkInv

(***************************************************************************)
(* The types.                                                               *)
(***************************************************************************)
LEMMA CapacityType ==
    /\ MAX_FRAME \in Nat /\ MAX_FRAME >= 1
    /\ RX_BUFFER \in Nat /\ RX_BUFFER >= 1 /\ RX_BUFFER <= MAX_FRAME
    /\ PACKET_BUFFER \in Nat /\ MAX_FRAME + RX_BUFFER <= PACKET_BUFFER
    /\ MaxVersion \in Nat /\ MaxFaults \in Nat
    /\ Version = 0 .. MaxVersion
BY SizeAssumption, BoundAssumption DEF Version

(* The first byte of what is being written, and the rest.                    *)
LEMMA OutSplits ==
    ASSUME TypeOK, out # <<>>
    PROVE  /\ Head(out) \in Byte
           /\ Tail(out) \in Seq(Byte)
           /\ Len(Tail(out)) = Len(out) - 1
           /\ Len(out) \in Nat
           /\ \A i \in 1 .. Len(Tail(out)) : Tail(out)[i] = out[i + 1]
BY HeadTailProperties, LenProperties DEF TypeOK

(* The sender's steps keep the types.                                        *)
LEMMA NextTypeOfSender == TypeOK /\ SenderNext => TypeOK'
<1> SUFFICES ASSUME TypeOK, SenderNext PROVE TypeOK'
  OBVIOUS
<1>1. CASE Change
  <2>1. table' \in Version
    BY <1>1, CapacityType DEF Change, TypeOK
  <2> QED
    BY <1>1, <2>1, Zenon DEF Change, TypeOK, gatewayVars
<1>2. CASE WaitForHigh \/ WriteDone \/ PauseOver
  BY <1>2, Zenon DEF WaitForHigh, WriteDone, PauseOver, TypeOK, gatewayVars
<1>3. CASE SendScanData
  <2>1. out' \in Seq(Byte) /\ Len(out') <= MAX_FRAME + 1
    <3>1. PICK length \in 1 .. MAX_FRAME : out' = Append(Body(table, length), Separator)
      BY <1>3 DEF SendScanData
    <3>2. IsFrame(out', table, length)
      BY <3>1, FrameType DEF TypeOK
    <3> QED
      BY <3>2, CapacityType DEF IsFrame
  <2> QED
    BY <1>3, <2>1, Zenon DEF SendScanData, TypeOK, gatewayVars
<1>4. CASE Transmit
  <2>1. out # <<>>
    BY <1>4 DEF Transmit
  <2>2. out' \in Seq(Byte) /\ Len(out') <= MAX_FRAME + 1
    BY <1>4, <2>1, OutSplits, CapacityType DEF Transmit, TypeOK
  <2>3. rx' \in Seq(Byte) /\ Len(rx') <= RX_BUFFER
    <3>1. CASE gateway = "reading"
      <4>1. rx' = Append(rx, Head(out)) /\ Len(rx) < RX_BUFFER
        BY <1>4, <3>1 DEF Transmit
      <4>2. rx \in Seq(Byte) /\ Head(out) \in Byte /\ Len(rx) \in Nat
        BY <2>1, OutSplits, LenProperties DEF TypeOK
      <4>3. Append(rx, Head(out)) \in Seq(Byte) /\ Len(Append(rx, Head(out))) = Len(rx) + 1
        BY <4>2, AppendProperties
      <4> QED
        BY <4>1, <4>2, <4>3, CapacityType
    <3>2. CASE gateway # "reading"
      BY <1>4, <3>2 DEF Transmit, TypeOK
    <3> QED
      BY <3>1, <3>2
  <2> QED
    BY <1>4, <2>2, <2>3, Zenon DEF Transmit, TypeOK, gatewayVars
<1> QED
  BY <1>1, <1>2, <1>3, <1>4 DEF SenderNext

(* A fault keeps the types.                                                  *)
LEMMA NextTypeOfFault == TypeOK /\ FaultNext => TypeOK'
<1> SUFFICES ASSUME TypeOK, FaultNext PROVE TypeOK'
  OBVIOUS
<1>1. <<>> \in Seq(Byte) /\ Len(<<>>) <= MAX_FRAME + 1 /\ Len(<<>>) <= RX_BUFFER
      /\ Len(<<>>) <= PACKET_BUFFER
  BY CapacityType
<1>2. Fault => faults' \in 0 .. MaxFaults
  BY CapacityType DEF Fault, TypeOK
<1>3. CASE LoseByte
  <2>1. out' \in Seq(Byte) /\ Len(out') <= MAX_FRAME + 1
    BY <1>3, OutSplits, CapacityType DEF LoseByte, TypeOK
  <2> QED
    BY <1>2, <1>3, <2>1, Zenon DEF LoseByte, TypeOK, gatewayVars
<1>4. CASE WriteFails
  BY <1>1, <1>2, <1>4, Zenon DEF WriteFails, TypeOK, gatewayVars
<1>5. CASE SenderRestart
  <2>1. table' \in Version
    BY <1>5, CapacityType DEF SenderRestart, TypeOK
  <2> QED
    BY <1>1, <1>2, <1>5, <2>1, Zenon DEF SenderRestart, TypeOK, gatewayVars
<1>6. CASE GatewayRestart
  BY <1>1, <1>6, Zenon DEF GatewayRestart, TypeOK, senderVars
<1> QED
  BY <1>3, <1>4, <1>5, <1>6 DEF FaultNext

(* What a decoded frame leaves: a version, or what nothing sent, and the     *)
(* bytes behind it after an error.                                          *)
LEMMA DecodeFirstType ==
    ASSUME TypeOK, NEW bytes \in Seq(Byte), Len(bytes) <= PACKET_BUFFER,
           Contains(bytes, Separator), DecodeFirst(bytes)
    PROVE  /\ packet_buffer' \in Seq(Byte)
           /\ Len(packet_buffer') <= PACKET_BUFFER
           /\ received' \in Version \cup {Nothing, Garbage}
           /\ request' \in BOOLEAN
           /\ gateway' \in {"elsewhere", "reading"}
           /\ failures' \in Nat
<1>1. PICK decoded \in Decode(Packet(bytes)) :
        IF decoded = Error
        THEN /\ packet_buffer' = Behind(bytes)
             /\ failures' = failures + 1
             /\ UNCHANGED <<request, gateway, received>>
        ELSE /\ packet_buffer' = <<>>
             /\ received' = decoded
             /\ request' = FALSE
             /\ gateway' = "elsewhere"
             /\ UNCHANGED failures
  BY DEF DecodeFirst, Packet, Behind
<1>2. CASE decoded = Error
  <2>1. /\ FirstZero(bytes) \in 1 .. Len(bytes)
        /\ Behind(bytes) \in Seq(Byte)
        /\ Len(Behind(bytes)) = Len(bytes) - FirstZero(bytes)
    BY FrameSplits
  <2>2. Len(Behind(bytes)) <= PACKET_BUFFER
    BY <2>1, CapacityType, LenProperties
  <2>3. failures' \in Nat
    BY <1>1, <1>2 DEF TypeOK
  <2> QED
    BY <1>1, <1>2, <2>1, <2>2, <2>3, Zenon DEF TypeOK
<1>3. CASE decoded # Error
  <2>1. decoded \in Version \cup {Nothing, Garbage}
    BY <1>3, DecodeTells
  <2>2. <<>> \in Seq(Byte) /\ Len(<<>>) <= PACKET_BUFFER
    BY CapacityType
  <2> QED
    BY <1>1, <1>3, <2>1, <2>2, Zenon DEF TypeOK
<1> QED
  BY <1>2, <1>3

(* The gateway's steps keep the types.                                       *)
LEMMA NextTypeOfGateway == TypeOK /\ (Request \/ FillBuf) => TypeOK'
<1> SUFFICES ASSUME TypeOK, Request \/ FillBuf PROVE TypeOK'
  OBVIOUS
<1>1. <<>> \in Seq(Byte) /\ Len(<<>>) <= RX_BUFFER /\ Len(<<>>) <= PACKET_BUFFER
  BY CapacityType
<1>2. CASE Request
  BY <1>1, <1>2, Zenon DEF Request, TypeOK, senderVars
<1>3. ASSUME NEW read \in 1 .. Len(rx), Collect(read), UNCHANGED <<senderVars, asked, faults>>
      PROVE  TypeOK'
  <2>1. /\ Collected(read) \in Seq(Byte)
        /\ Left(read) \in Seq(Byte)
        /\ Len(Left(read)) <= RX_BUFFER
    <3>1. Len(Left(read)) = Len(rx) - read /\ Len(rx) \in Nat /\ Len(rx) <= RX_BUFFER
      BY ReadSplits, LenProperties DEF TypeOK
    <3> QED
      BY <3>1, ReadSplits, CapacityType
  <2>2. rx' = Left(read) /\ Len(Collected(read)) <= PACKET_BUFFER
    BY <1>3 DEF Collect, Left, Collected
  <2>3. CASE Contains(Collected(read), Separator)
    <3>1. DecodeFirst(Collected(read))
      BY <1>3, <2>3 DEF Collect, Collected
    <3>2. /\ packet_buffer' \in Seq(Byte)
          /\ Len(packet_buffer') <= PACKET_BUFFER
          /\ received' \in Version \cup {Nothing, Garbage}
          /\ request' \in BOOLEAN
          /\ gateway' \in {"elsewhere", "reading"}
          /\ failures' \in Nat
      BY <2>1, <2>2, <2>3, <3>1, DecodeFirstType
    <3> QED
      BY <1>3, <2>1, <2>2, <3>2, Zenon DEF TypeOK, senderVars
  <2>4. CASE ~Contains(Collected(read), Separator)
    <3>1. packet_buffer' = Collected(read) /\ UNCHANGED <<request, gateway, received, failures>>
      BY <1>3, <2>4 DEF Collect, Collected
    <3> QED
      BY <1>3, <2>1, <2>2, <3>1, Zenon DEF TypeOK, senderVars
  <2> QED
    BY <2>3, <2>4
<1>4. ASSUME NEW read \in 1 .. Len(rx), Overflow(read), UNCHANGED <<senderVars, asked, faults>>
      PROVE  TypeOK'
  BY <1>1, <1>4, Zenon DEF Overflow, TypeOK, senderVars
<1> QED
  BY <1>2, <1>3, <1>4 DEF FillBuf

(* Every step keeps the types.                                               *)
LEMMA NextTypeOfLink == TypeOK /\ [Next]_vars => TypeOK'
<1>1. TypeOK /\ UNCHANGED vars => TypeOK'
  BY Zenon DEF TypeOK, vars, senderVars, gatewayVars
<1> QED
  BY <1>1, NextTypeOfSender, NextTypeOfFault, NextTypeOfGateway DEF Next

(***************************************************************************)
(* One frame at a time.                                                     *)
(***************************************************************************)
LEMMA NextWriter == TypeOK /\ WriterInv /\ [Next]_vars => WriterInv'
<1> SUFFICES ASSUME TypeOK, WriterInv, [Next]_vars PROVE WriterInv'
  OBVIOUS
<1>1. CASE SendScanData
  <2>1. PICK length \in 1 .. MAX_FRAME : out' = Append(Body(table, length), Separator)
    BY <1>1 DEF SendScanData
  <2>2. IsFrame(out', table, length)
    BY <2>1, FrameType DEF TypeOK
  <2>3. length \in Nat
    BY CapacityType
  <2>4. \A i \in 1 .. Len(out') - 1 : out'[i] # Separator
    BY <2>2, <2>3 DEF IsFrame
  <2> QED
    BY <1>1, <2>4 DEF SendScanData, WriterInv
<1>2. ASSUME out # <<>>, out' = Tail(out), sender' = sender PROVE WriterInv'
  <2>1. \A i \in 1 .. Len(Tail(out)) - 1 : i + 1 \in 1 .. Len(out) - 1 /\ Tail(out)[i] = out[i + 1]
    BY <1>2, OutSplits
  <2>2. sender' = "writing"
    BY <1>2 DEF WriterInv
  <2> QED
    BY <1>2, <2>1, <2>2 DEF WriterInv
<1>3. ASSUME out' = <<>> PROVE WriterInv'
  BY <1>3 DEF WriterInv
<1>4. ASSUME out' = out, sender' # "writing" => sender # "writing" \/ out = <<>> PROVE WriterInv'
  BY <1>4 DEF WriterInv
<1>5. CASE Change \/ WaitForHigh \/ WriteDone \/ PauseOver
  BY <1>4, <1>5 DEF Change, WaitForHigh, WriteDone, PauseOver
<1>6. CASE Transmit \/ LoseByte
  BY <1>2, <1>6 DEF Transmit, LoseByte
<1>7. CASE WriteFails \/ SenderRestart
  BY <1>3, <1>7 DEF WriteFails, SenderRestart
<1>8. CASE GatewayRestart \/ Request \/ FillBuf \/ UNCHANGED vars
  BY <1>4, <1>8 DEF GatewayRestart, Request, FillBuf, vars, senderVars
<1> QED
  BY <1>1, <1>5, <1>6, <1>7, <1>8 DEF Next, SenderNext, FaultNext

(***************************************************************************)
(* What the steps do to the bytes on their way.                             *)
(***************************************************************************)
LEMMA Associative == \A s, t, u \in Seq(Byte) : (s \o t) \o u = s \o (t \o u)
BY ConcatAssociative

(* A byte that goes over the wire stays in the stream.                       *)
LEMMA TransmitStream ==
    ASSUME TypeOK, Transmit, gateway = "reading"
    PROVE  Stream' = Stream
<1>1. /\ out # <<>>
      /\ rx' = Append(rx, Head(out))
      /\ out' = Tail(out)
      /\ packet_buffer' = packet_buffer
  BY DEF Transmit, gatewayVars
<1>2. /\ Head(out) \in Byte
      /\ Tail(out) \in Seq(Byte)
      /\ rx \in Seq(Byte)
      /\ packet_buffer \in Seq(Byte)
      /\ out \in Seq(Byte)
  BY <1>1, OutSplits DEF TypeOK
<1>3. Append(rx, Head(out)) = rx \o <<Head(out)>>
  BY <1>2, AppendIsConcat
<1>4. <<Head(out)>> \in Seq(Byte)
  BY <1>2
<1>5. <<Head(out)>> \o Tail(out) = out
  <2>1. /\ <<Head(out)>> \o Tail(out) \in Seq(Byte)
        /\ Len(<<Head(out)>> \o Tail(out)) = 1 + Len(Tail(out))
        /\ \A i \in 1 .. 1 + Len(Tail(out)) :
              (<<Head(out)>> \o Tail(out))[i] = IF i <= 1 THEN <<Head(out)>>[i] ELSE Tail(out)[i - 1]
    BY <1>2, <1>4, ConcatProperties
  <2>2. /\ Len(Tail(out)) = Len(out) - 1 /\ Len(out) \in Nat
        /\ \A i \in 1 .. Len(Tail(out)) : Tail(out)[i] = out[i + 1]
        /\ Head(out) = out[1]
    BY <1>1, <1>2, OutSplits
  <2>3. \A i \in 1 .. Len(out) : (<<Head(out)>> \o Tail(out))[i] = out[i]
    <3> TAKE i \in 1 .. Len(out)
    <3>1. CASE i = 1
      BY <2>1, <2>2, <3>1
    <3>2. CASE i # 1
      <4>1. i - 1 \in 1 .. Len(Tail(out)) /\ i \in 1 .. 1 + Len(Tail(out)) /\ ~(i <= 1) /\ (i - 1) + 1 = i
        BY <2>2, <3>2
      <4> QED
        BY <2>1, <2>2, <4>1
    <3> QED
      BY <3>1, <3>2
  <2> QED
    BY <1>2, <2>1, <2>2, <2>3, SeqEqual
<1>6. packet_buffer \o (rx \o <<Head(out)>>) = Arrived \o <<Head(out)>>
  <2>1. packet_buffer \in Seq(Byte) /\ rx \in Seq(Byte) /\ <<Head(out)>> \in Seq(Byte)
    BY <1>2, <1>4
  <2>2. (packet_buffer \o rx) \o <<Head(out)>> = packet_buffer \o (rx \o <<Head(out)>>)
    BY <2>1, Associative, Zenon
  <2> QED
    BY <2>2 DEF Arrived
<1>7. (Arrived \o <<Head(out)>>) \o Tail(out) = Arrived \o out
  <2>1. Arrived \in Seq(Byte)
    BY StreamType
  <2>2. (Arrived \o <<Head(out)>>) \o Tail(out) = Arrived \o (<<Head(out)>> \o Tail(out))
    BY <1>2, <1>4, <2>1, Associative, Zenon
  <2> QED
    BY <1>5, <2>2
<1> QED
  BY <1>1, <1>3, <1>6, <1>7, Zenon DEF Stream, Arrived

(* Where the stream is read, it is in two: what is looked at, and the rest.  *)
LEMMA ReadStream ==
    ASSUME TypeOK, NEW read \in 1 .. Len(rx)
    PROVE  /\ Left(read) \o out \in Seq(Byte)
           /\ Stream = Collected(read) \o (Left(read) \o out)
           /\ \A i \in 1 .. Len(Collected(read)) : Stream[i] = Collected(read)[i]
           /\ Len(Collected(read)) <= Len(Stream)
<1>1. /\ Collected(read) \in Seq(Byte)
      /\ Left(read) \in Seq(Byte)
      /\ out \in Seq(Byte)
  BY ReadSplits DEF TypeOK
<1>2. Left(read) \o out \in Seq(Byte)
  BY <1>1, ConcatProperties
<1>3. Stream = Collected(read) \o (Left(read) \o out)
  <2>1. Stream = (Collected(read) \o Left(read)) \o out
    BY ReadSplits DEF Stream
  <2> QED
    BY <1>1, <2>1, Associative, Zenon
<1>4. /\ Len(Collected(read) \o (Left(read) \o out)) = Len(Collected(read)) + Len(Left(read) \o out)
      /\ \A i \in 1 .. Len(Collected(read)) + Len(Left(read) \o out) :
            (Collected(read) \o (Left(read) \o out))[i]
               = IF i <= Len(Collected(read)) THEN Collected(read)[i]
                                              ELSE (Left(read) \o out)[i - Len(Collected(read))]
  BY <1>1, <1>2, ConcatProperties
<1>5. Len(Collected(read)) \in Nat /\ Len(Left(read) \o out) \in Nat
  BY <1>1, <1>2, LenProperties
<1>6. \A i \in 1 .. Len(Collected(read)) : Stream[i] = Collected(read)[i]
  BY <1>3, <1>4, <1>5
<1> QED
  BY <1>2, <1>3, <1>4, <1>5, <1>6

(***************************************************************************)
(* What FillBuf may do while the gateway goes on reading: collect, drop a   *)
(* frame that was spoiled, or drop a buffer that is full.                   *)
(***************************************************************************)
Collects ==
    /\ Stream' = Stream
    /\ Clean(packet_buffer')
    /\ UNCHANGED <<failures, received>>

DropsFrame ==
    \E front \in Seq(Byte) :
        /\ front # <<>>
        /\ front[Len(front)] = Separator
        /\ Stream' \in Seq(Byte)
        /\ Stream = front \o Stream'
        /\ Len(front) \in SpoiledEnds(Stream)
        /\ Len(packet_buffer') + Len(front) <= Len(packet_buffer) + RX_BUFFER
        /\ Clean(packet_buffer) => Len(front) > Len(packet_buffer)
        /\ failures' = failures + 1
        /\ UNCHANGED received

DropsBuffer ==
    /\ packet_buffer # <<>>
    /\ packet_buffer' = <<>>
    /\ Stream' \in Seq(Byte)
    /\ Stream = packet_buffer \o Stream'
    /\ Len(packet_buffer) + RX_BUFFER > PACKET_BUFFER
    /\ UNCHANGED <<failures, received>>

(* Or it ends the request.                                                   *)
Returns ==
    /\ packet_buffer' = <<>>
    /\ gateway' = "elsewhere"
    /\ failures' = failures
    /\ \/ received' = Garbage /\ SpoiledEnds(Stream) # {}
       \/ /\ received' \in Version
          /\ Stream # <<>>
          /\ Stream[1] # Separator
          /\ received' = Stream[1][1]

(* A read collects bytes, drops a frame or the buffer, or returns a table.   *)
LEMMA FillBufSteps ==
    ASSUME TypeOK, FillBuf
    PROVE  \/ gateway' = "reading" /\ (Collects \/ DropsFrame \/ DropsBuffer)
           \/ Returns
<1>1. PICK read \in 1 .. Len(rx) : Collect(read) \/ Overflow(read)
  BY DEF FillBuf
<1>2. gateway = "reading" /\ out' = out /\ asked' = asked /\ table' = table
  BY DEF FillBuf, senderVars
<1> DEFINE bytes == Collected(read)
           rest  == Left(read) \o out
<1>3. /\ bytes \in Seq(Byte) /\ Len(bytes) \in Nat
      /\ Left(read) \in Seq(Byte)
      /\ Len(bytes) = Len(packet_buffer) + read
      /\ rest \in Seq(Byte)
      /\ Stream = bytes \o rest
      /\ \A i \in 1 .. Len(bytes) : Stream[i] = bytes[i]
      /\ Len(bytes) <= Len(Stream)
  BY ReadSplits, ReadStream, LenProperties
<1>4. /\ Stream \in Seq(Byte) /\ Len(Stream) \in Nat /\ out \in Seq(Byte)
      /\ packet_buffer \in Seq(Byte) /\ Len(packet_buffer) \in Nat
      /\ rx \in Seq(Byte) /\ Len(rx) \in Nat /\ Len(rx) <= RX_BUFFER
  BY StreamType, LenProperties DEF TypeOK
<1>5. read \in Nat /\ read >= 1 /\ read <= RX_BUFFER
  BY <1>4, CapacityType
<1>6. CASE Overflow(read)
  <2>1. /\ Len(packet_buffer) + read > PACKET_BUFFER
        /\ packet_buffer' = <<>>
        /\ UNCHANGED <<request, gateway, received, failures, rx>>
    BY <1>6 DEF Overflow
  <2>2. packet_buffer # <<>>
    <3> SUFFICES ASSUME packet_buffer = <<>> PROVE FALSE
      OBVIOUS
    <3>1. Len(packet_buffer) = 0
      OBVIOUS
    <3> QED
      BY <1>5, <2>1, <3>1, CapacityType
  <2>3. Stream' = rx \o out
    <3>1. <<>> \o rx = rx
      BY <1>4, ConcatEmptySeq
    <3> QED
      BY <1>2, <2>1, <3>1 DEF Stream, Arrived
  <2>4. Stream' \in Seq(Byte)
    BY <1>4, <2>3, ConcatProperties
  <2>5. Stream = packet_buffer \o Stream'
    <3>1. (packet_buffer \o rx) \o out = packet_buffer \o (rx \o out)
      BY <1>4, Associative, Zenon
    <3> QED
      BY <2>3, <3>1 DEF Stream, Arrived
  <2>6. Len(packet_buffer) + RX_BUFFER > PACKET_BUFFER
    BY <1>4, <1>5, <2>1, CapacityType
  <2> QED
    BY <1>2, <2>1, <2>2, <2>4, <2>5, <2>6 DEF DropsBuffer
<1>7. CASE Collect(read) /\ ~Contains(bytes, Separator)
  <2>1. /\ rx' = Left(read)
        /\ packet_buffer' = bytes
        /\ UNCHANGED <<request, gateway, received, failures>>
    BY <1>7 DEF Collect, Collected, Left
  <2>2. Stream' = Stream
    BY <1>2, <2>1, ReadSplits DEF Stream, Arrived
  <2>3. Clean(packet_buffer')
    BY <1>7, <2>1 DEF Contains, Clean
  <2> QED
    BY <1>2, <2>1, <2>2, <2>3 DEF Collects
<1>8. CASE Collect(read) /\ Contains(bytes, Separator)
  <2>1. rx' = Left(read) /\ DecodeFirst(bytes)
    BY <1>8 DEF Collect, Collected, Left
  <2> HIDE DEF bytes, rest
  <2> DEFINE z == FirstZero(bytes)
  <2>2. PICK decoded \in Decode(Packet(bytes)) :
          IF decoded = Error
          THEN /\ packet_buffer' = Behind(bytes)
               /\ failures' = failures + 1
               /\ UNCHANGED <<request, gateway, received>>
          ELSE /\ packet_buffer' = <<>>
               /\ received' = decoded
               /\ request' = FALSE
               /\ gateway' = "elsewhere"
               /\ UNCHANGED failures
    BY <2>1 DEF DecodeFirst, Packet, Behind
  <2>3. /\ z \in 1 .. Len(bytes)
        /\ bytes[z] = Separator
        /\ \A i \in 1 .. z - 1 : bytes[i] # Separator
        /\ UpToZero(bytes) \in Seq(Byte) /\ Len(UpToZero(bytes)) = z
        /\ UpToZero(bytes)[z] = Separator
        /\ Packet(bytes) \in Seq(Byte) /\ Len(Packet(bytes)) = z - 1
        /\ \A i \in 1 .. z - 1 : Packet(bytes)[i] = bytes[i]
        /\ Behind(bytes) \in Seq(Byte) /\ Len(Behind(bytes)) = Len(bytes) - z
        /\ UpToZero(bytes) \o Behind(bytes) = bytes
    BY <1>3, <1>8, FrameSplits
  <2> HIDE DEF z
  <2>4. z \in Nat /\ z >= 1 /\ z <= Len(bytes) /\ z \in 1 .. Len(Stream)
    BY <1>3, <1>4, <2>3
  <2>5. /\ Stream[z] = Separator
        /\ \A i \in 1 .. z - 1 : Stream[i] # Separator
        /\ \A i \in 1 .. z - 1 : Packet(bytes)[i] = Stream[i]
    <3>1. \A i \in 1 .. z - 1 : i \in 1 .. Len(bytes)
      BY <1>3, <2>4
    <3> QED
      BY <1>3, <2>3, <3>1
  <2>6. decoded \notin Version => z \in SpoiledEnds(Stream)
    BY <1>4, <2>3, <2>4, <2>5, WholeDecodes
  <2>7. CASE decoded = Error
    <3>1. Error \notin Version
      BY CapacityType DEF Error
    <3>2. /\ packet_buffer' = Behind(bytes)
          /\ failures' = failures + 1
          /\ UNCHANGED <<request, gateway, received>>
      BY <2>2, <2>7
    <3>3. Stream' = Behind(bytes) \o rest
      <4>1. Stream' = (Behind(bytes) \o Left(read)) \o out
        BY <1>2, <2>1, <3>2 DEF Stream, Arrived
      <4> QED
        <5>0. Behind(bytes) \in Seq(Byte) /\ Left(read) \in Seq(Byte) /\ out \in Seq(Byte)
          BY <1>3, <1>4, <2>3
        <5>1. (Behind(bytes) \o Left(read)) \o out = Behind(bytes) \o (Left(read) \o out)
          BY <5>0, Associative, Zenon
        <5> QED
          BY <4>1, <5>1 DEF rest
    <3>4. Stream' \in Seq(Byte)
      BY <1>3, <2>3, <3>3, ConcatProperties
    <3>5. Stream = UpToZero(bytes) \o Stream'
      <4>1. Stream = (UpToZero(bytes) \o Behind(bytes)) \o rest
        BY <1>3, <2>3
      <4> QED
        <5>0. UpToZero(bytes) \in Seq(Byte) /\ Behind(bytes) \in Seq(Byte) /\ rest \in Seq(Byte)
          BY <1>3, <2>3
        <5>1. (UpToZero(bytes) \o Behind(bytes)) \o rest = UpToZero(bytes) \o (Behind(bytes) \o rest)
          BY <5>0, Associative, Zenon
        <5> QED
          BY <3>3, <4>1, <5>1
    <3>6. Len(UpToZero(bytes)) \in SpoiledEnds(Stream)
      BY <2>3, <2>6, <2>7, <3>1
    <3>7. Len(packet_buffer') + Len(UpToZero(bytes)) <= Len(packet_buffer) + RX_BUFFER
      BY <1>3, <1>4, <1>5, <2>3, <2>4, <3>2, CapacityType
    <3>8. Clean(packet_buffer) => Len(UpToZero(bytes)) > Len(packet_buffer)
      <4> SUFFICES ASSUME Clean(packet_buffer), ~(z > Len(packet_buffer)) PROVE FALSE
        BY <2>3
      <4>1. z \in 1 .. Len(packet_buffer)
        BY <1>4, <2>4
      <4>2. bytes[z] = packet_buffer[z]
        <5>1. SubSeq(rx, 1, read) \in Seq(Byte)
          <6>1. \A i \in 1 .. read : rx[i] \in Byte
            BY <1>4, <1>5, ElementOfSeq
          <6> QED
            BY <1>5, <6>1, SubSeqProperties
        <5>2. \A i \in 1 .. Len(packet_buffer) + Len(SubSeq(rx, 1, read)) :
                 bytes[i] = IF i <= Len(packet_buffer) THEN packet_buffer[i]
                            ELSE SubSeq(rx, 1, read)[i - Len(packet_buffer)]
          BY <1>4, <5>1, ConcatProperties DEF bytes, Collected
        <5>3. Len(SubSeq(rx, 1, read)) \in Nat
          BY <5>1, LenProperties
        <5> QED
          BY <1>4, <4>1, <5>2, <5>3
      <4> QED
        BY <2>3, <4>1, <4>2 DEF Clean
    <3>9. UpToZero(bytes) # <<>>
      <4> SUFFICES ASSUME UpToZero(bytes) = <<>> PROVE FALSE
        OBVIOUS
      <4>1. Len(UpToZero(bytes)) = 0
        OBVIOUS
      <4> QED
        BY <2>3, <2>4, <4>1
    <3>10. UpToZero(bytes)[Len(UpToZero(bytes))] = Separator
      BY <2>3
    <3>11. DropsFrame
      BY <2>3, <3>2, <3>4, <3>5, <3>6, <3>7, <3>8, <3>9, <3>10, Zenon DEF DropsFrame
    <3> QED
      BY <1>2, <3>2, <3>11
  <2>8. CASE decoded # Error
    <3>1. /\ packet_buffer' = <<>>
          /\ received' = decoded
          /\ gateway' = "elsewhere"
          /\ failures' = failures
      BY <2>2, <2>8
    <3>2. CASE decoded \in Version
      <4>1. decoded \notin {Error, Garbage}
        BY <3>2, CapacityType DEF Error, Garbage
      <4>2. decoded = Packet(bytes)[1][1] /\ Len(Packet(bytes)) >= 1
        BY <4>1, DecodeTells
      <4>3. 1 \in 1 .. z - 1
        BY <2>3, <2>4, <4>2
      <4>4. decoded = Stream[1][1] /\ Stream[1] # Separator
        BY <2>5, <4>2, <4>3
      <4>5. Stream # <<>>
        <5> SUFFICES ASSUME Stream = <<>> PROVE FALSE
          OBVIOUS
        <5>1. Len(Stream) = 0
          OBVIOUS
        <5> QED
          BY <2>4, <5>1
      <4> QED
        BY <3>1, <3>2, <4>4, <4>5 DEF Returns
    <3>3. CASE decoded \notin Version
      <4>1. decoded = Garbage
        BY <2>8, <3>3, DecodeTells
      <4> QED
        BY <2>6, <3>1, <3>3, <4>1 DEF Returns
    <3> QED
      BY <3>2, <3>3
  <2> QED
    BY <2>7, <2>8
<1> QED
  BY <1>1, <1>6, <1>7, <1>8

(***************************************************************************)
(* What is on its way is recent.                                            *)
(***************************************************************************)
LEMMA TellsOfConcat ==
    ASSUME NEW s \in Seq(Byte), NEW t \in Seq(Byte), NEW first, NEW last
    PROVE  TellsOf(s \o t, first, last) <=> TellsOf(s, first, last) /\ TellsOf(t, first, last)
<1> DEFINE st == s \o t
<1>1. /\ Len(st) = Len(s) + Len(t)
      /\ Len(s) \in Nat /\ Len(t) \in Nat
      /\ \A i \in 1 .. Len(s) + Len(t) : st[i] = IF i <= Len(s) THEN s[i] ELSE t[i - Len(s)]
  BY ConcatProperties, LenProperties
<1> HIDE DEF st
<1>2. ASSUME TellsOf(st, first, last) PROVE TellsOf(s, first, last) /\ TellsOf(t, first, last)
  <2>1. \A i \in 1 .. Len(s) : i \in 1 .. Len(st) /\ st[i] = s[i]
    BY <1>1
  <2>2. \A i \in 1 .. Len(t) : Len(s) + i \in 1 .. Len(st) /\ st[Len(s) + i] = t[i]
    <3> TAKE i \in 1 .. Len(t)
    <3>1. /\ Len(s) + i \in 1 .. Len(s) + Len(t)
          /\ ~(Len(s) + i <= Len(s))
          /\ (Len(s) + i) - Len(s) = i
      BY <1>1
    <3> QED
      BY <1>1, <3>1
  <2> QED
    BY <1>2, <2>1, <2>2 DEF TellsOf
<1>3. ASSUME TellsOf(s, first, last), TellsOf(t, first, last) PROVE TellsOf(st, first, last)
  <2>1. \A i \in 1 .. Len(st) :
           \/ i \in 1 .. Len(s) /\ st[i] = s[i]
           \/ i - Len(s) \in 1 .. Len(t) /\ st[i] = t[i - Len(s)]
    BY <1>1
  <2> QED
    BY <1>3, <2>1 DEF TellsOf
<1> QED
  BY <1>2, <1>3 DEF st

(* What tells of a span of versions tells of a longer one.                   *)
LEMMA TellsOfLonger ==
    ASSUME NEW s, NEW first \in Nat, NEW last \in Nat, NEW later \in Nat, last <= later,
           TellsOf(s, first, last)
    PROVE  TellsOf(s, first, later)
<1>1. first .. last \subseteq first .. later
  OBVIOUS
<1> QED
  BY <1>1 DEF TellsOf

(* Every step keeps the tables on their way as new as the request.           *)
LEMMA NextAsked == TypeOK /\ WriterInv /\ AskedInv /\ [Next]_vars => AskedInv'
<1> SUFFICES ASSUME TypeOK, WriterInv, AskedInv, [Next]_vars, gateway' = "reading"
             PROVE  asked' \in 0 .. table' /\ TellsOf(Stream', asked', table')
  BY DEF AskedInv
<1>1. /\ Stream \in Seq(Byte) /\ Arrived \in Seq(Byte) /\ out \in Seq(Byte)
      /\ Stream = Arrived \o out
      /\ table \in Nat
      /\ <<>> \in Seq(Byte) /\ TellsOf(<<>>, asked, table)
  BY StreamType, CapacityType DEF TypeOK, Stream, TellsOf
<1>2. gateway = "reading" =>
        /\ asked \in Nat /\ asked <= table
        /\ TellsOf(Stream, asked, table)
        /\ TellsOf(Arrived, asked, table)
        /\ TellsOf(out, asked, table)
  <2>1. TellsOf(Stream, asked, table) <=> TellsOf(Arrived, asked, table) /\ TellsOf(out, asked, table)
    BY <1>1, TellsOfConcat
  <2> QED
    BY <1>1, <2>1 DEF AskedInv
<1>3. ASSUME Arrived' = Arrived, gateway = "reading", asked' = asked,
             table' \in Nat, table <= table', out' \in Seq(Byte), TellsOf(out', asked, table')
      PROVE  asked' \in 0 .. table' /\ TellsOf(Stream', asked', table')
  <2>1. TellsOf(Arrived, asked, table')
    BY <1>1, <1>2, <1>3, TellsOfLonger
  <2>2. TellsOf(Arrived \o out', asked, table')
    BY <1>1, <1>3, <2>1, TellsOfConcat
  <2> QED
    BY <1>1, <1>2, <1>3, <2>2 DEF Stream
<1>4. CASE Change
  <2>1. /\ Arrived' = Arrived /\ gateway' = gateway /\ asked' = asked
        /\ out' = out /\ table' = table + 1
    BY <1>4 DEF Change, gatewayVars, Arrived
  <2>2. TellsOf(out, asked, table')
    BY <1>1, <1>2, <2>1, TellsOfLonger
  <2> QED
    BY <1>1, <1>3, <2>1, <2>2
<1>5. CASE WaitForHigh \/ WriteDone \/ PauseOver \/ UNCHANGED vars
  <2>1. /\ Arrived' = Arrived /\ gateway' = gateway /\ asked' = asked
        /\ out' = out /\ table' = table
    BY <1>5 DEF WaitForHigh, WriteDone, PauseOver, vars, senderVars, gatewayVars, Arrived
  <2> QED
    BY <1>1, <1>2, <1>3, <2>1
<1>6. CASE SendScanData
  <2>1. /\ Arrived' = Arrived /\ gateway' = gateway /\ asked' = asked /\ table' = table
    BY <1>6 DEF SendScanData, gatewayVars, Arrived
  <2>2. PICK length \in 1 .. MAX_FRAME : out' = Append(Body(table, length), Separator)
    BY <1>6 DEF SendScanData
  <2>3. IsFrame(out', table, length) /\ length \in Nat
    BY <2>2, FrameType, CapacityType DEF TypeOK
  <2>4. TellsOf(out', asked, table)
    <3> SUFFICES ASSUME NEW i \in 1 .. Len(out'), out'[i] # Separator
                 PROVE  out'[i][1] \in asked .. table
      BY DEF TellsOf
    <3>1. i \in 1 .. length
      BY <2>3 DEF IsFrame
    <3>2. out'[i] = <<table, length, i>>
      BY <2>3, <3>1 DEF IsFrame
    <3>3. asked \in Nat /\ asked <= table
      BY <1>2, <2>1
    <3> QED
      BY <1>1, <3>2, <3>3
  <2> QED
    BY <1>1, <1>3, <2>1, <2>3, <2>4 DEF IsFrame
<1>7. CASE Transmit
  <2>1. gateway' = gateway /\ asked' = asked /\ table' = table
    BY <1>7 DEF Transmit, gatewayVars
  <2>2. Stream' = Stream
    BY <1>7, <2>1, TransmitStream
  <2> QED
    BY <1>1, <1>2, <2>1, <2>2
<1>8. CASE LoseByte
  <2>1. /\ Arrived' = Arrived /\ gateway = "reading" /\ asked' = asked /\ table' = table
        /\ out # <<>> /\ out' = Tail(out)
    BY <1>8 DEF LoseByte, gatewayVars, Arrived
  <2>2. /\ Tail(out) \in Seq(Byte)
        /\ \A i \in 1 .. Len(Tail(out)) : i + 1 \in 1 .. Len(out) /\ Tail(out)[i] = out[i + 1]
    BY <2>1, OutSplits
  <2>3. TellsOf(Tail(out), asked, table)
    BY <1>2, <2>1, <2>2 DEF TellsOf
  <2> QED
    BY <1>1, <1>3, <2>1, <2>2, <2>3
<1>9. CASE WriteFails \/ SenderRestart
  <2>1. /\ Arrived' = Arrived /\ gateway' = gateway /\ asked' = asked
        /\ out' = <<>> /\ table' \in {table, table + 1}
    BY <1>9 DEF WriteFails, SenderRestart, gatewayVars, Arrived
  <2>2. TellsOf(<<>>, asked, table')
    BY DEF TellsOf
  <2> QED
    BY <1>1, <1>3, <2>1, <2>2
<1>10. CASE GatewayRestart
  BY <1>10 DEF GatewayRestart
<1>11. CASE Request
  <2>1. /\ asked' = table /\ table' = table
        /\ packet_buffer' = <<>> /\ rx' = <<>> /\ out' = <<>>
    BY <1>11 DEF Request, Quiet, WriterInv, senderVars
  <2>2. Stream' = <<>>
    BY <2>1 DEF Stream, Arrived
  <2> QED
    BY <1>1, <2>1, <2>2 DEF TellsOf
<1>12. CASE FillBuf
  <2>1. gateway = "reading" /\ asked' = asked /\ table' = table
    BY <1>12 DEF FillBuf, senderVars
  <2>2. Collects \/ DropsFrame \/ DropsBuffer
    BY <1>12, FillBufSteps DEF Returns
  <2>3. TellsOf(Stream', asked, table)
    <3>1. CASE Collects
      BY <1>2, <2>1, <3>1 DEF Collects
    <3>2. ASSUME NEW front \in Seq(Byte), Stream' \in Seq(Byte), Stream = front \o Stream'
          PROVE  TellsOf(Stream', asked, table)
      BY <1>2, <2>1, <3>2, TellsOfConcat
    <3> QED
      BY <2>2, <3>1, <3>2 DEF DropsFrame, DropsBuffer, TypeOK
  <2> QED
    BY <1>1, <1>2, <2>1, <2>3
<1> QED
  BY <1>4, <1>5, <1>6, <1>7, <1>8, <1>9, <1>10, <1>11, <1>12 DEF Next, SenderNext, FaultNext

(***************************************************************************)
(* What waits in packet_buffer.                                             *)
(***************************************************************************)
LEMMA Times ==
    ASSUME NEW a \in Nat, NEW b \in Nat, NEW r \in Nat, a <= b
    PROVE  a * r \in Nat /\ a * r <= b * r
<1>1. PICK d \in Nat : b = a + d
  <2>1. b - a \in Nat /\ b = a + (b - a)
    OBVIOUS
  <2> QED
    BY <2>1
<1>2. a * r \in Nat /\ d * r \in Nat
  OBVIOUS
<1>3. b * r = a * r + d * r
  BY <1>1
<1> QED
  BY <1>2, <1>3

(* Once more is r more.                                                      *)
LEMMA OneMoreTimes ==
    ASSUME NEW a \in Nat, NEW r \in Nat
    PROVE  (a + 1) * r = a * r + r
OBVIOUS

(* Every step keeps a bound on what waits in packet_buffer.                  *)
LEMMA NextLeftover == TypeOK /\ LeftoverInv /\ [Next]_vars => LeftoverInv'
<1> SUFFICES ASSUME TypeOK, LeftoverInv, [Next]_vars PROVE LeftoverInv'
  OBVIOUS
<1>1. CASE SenderNext \/ LoseByte \/ WriteFails \/ SenderRestart \/ UNCHANGED vars
  <2>1. packet_buffer' = packet_buffer /\ failures' = failures
    BY <1>1 DEF SenderNext, Change, WaitForHigh, SendScanData, Transmit, WriteDone, PauseOver,
                LoseByte, WriteFails, SenderRestart, vars, gatewayVars
  <2> QED
    BY <2>1 DEF LeftoverInv
<1>2. packet_buffer' = <<>> => LeftoverInv'
  BY DEF LeftoverInv, Clean
<1>3. CASE GatewayRestart \/ Request
  BY <1>2, <1>3 DEF GatewayRestart, Request
<1>4. CASE FillBuf
  <2>1. CASE Collects
    BY <2>1 DEF Collects, LeftoverInv
  <2>2. CASE DropsFrame
    <3>1. PICK front \in Seq(Byte) :
            /\ front # <<>>
            /\ Len(packet_buffer') + Len(front) <= Len(packet_buffer) + RX_BUFFER
            /\ Clean(packet_buffer) => Len(front) > Len(packet_buffer)
            /\ failures' = failures + 1
      BY <2>2 DEF DropsFrame
    <3>2. /\ Len(front) \in Nat /\ Len(front) >= 1
          /\ Len(packet_buffer) \in Nat
          /\ failures \in Nat
          /\ RX_BUFFER - 1 \in Nat /\ RX_BUFFER \in Nat
      BY <3>1, LenProperties, EmptySeq, CapacityType DEF TypeOK
    <3>3. Len(packet_buffer') \in Nat
      BY <1>4, NextTypeOfGateway, LenProperties DEF TypeOK
    <3>4. failures' * (RX_BUFFER - 1) = failures * (RX_BUFFER - 1) + (RX_BUFFER - 1)
      BY <3>1, <3>2, OneMoreTimes
    <3>5. failures * (RX_BUFFER - 1) \in Nat
      BY <3>2, Times
    <3> DEFINE kept == failures * (RX_BUFFER - 1)
    <3>6. kept \in Nat /\ failures' * (RX_BUFFER - 1) = kept + (RX_BUFFER - 1)
      BY <3>4, <3>5
    <3>7. Clean(packet_buffer) \/ Len(packet_buffer) <= kept
      BY DEF LeftoverInv
    <3> HIDE DEF kept
    <3>8. Len(packet_buffer') <= kept + (RX_BUFFER - 1)
      BY <3>1, <3>2, <3>3, <3>6, <3>7
    <3> QED
      BY <3>6, <3>8 DEF LeftoverInv
  <2>3. CASE DropsBuffer \/ Returns
    BY <1>2, <2>3 DEF DropsBuffer, Returns
  <2> QED
    BY <1>4, <2>1, <2>2, <2>3, FillBufSteps
<1> QED
  BY <1>1, <1>3, <1>4 DEF Next, FaultNext

(***************************************************************************)
(* Every frame that fails has a fault of its own.                           *)
(***************************************************************************)
LEMMA NextSpoiled ==
    TypeOK /\ WriterInv /\ LeftoverInv /\ SpoiledInv /\ [Next]_vars => SpoiledInv'
<1> SUFFICES ASSUME TypeOK, WriterInv, LeftoverInv, SpoiledInv, [Next]_vars,
                    Few'
             PROVE  Spoiled' + Pending' <= faults'
  BY DEF SpoiledInv
<1> DEFINE ends == Cardinality(SpoiledEnds(Stream))
<1>1. /\ failures \in Nat /\ faults \in Nat
      /\ RX_BUFFER \in Nat /\ Spare \in Int
      /\ Spoiled \in Nat /\ failures <= Spoiled
      /\ Spoiled = failures + (IF received = Garbage THEN 1 ELSE 0)
  BY CapacityType DEF TypeOK, Spoiled, Spare
<1>2. /\ Stream \in Seq(Byte) /\ Arrived \in Seq(Byte) /\ out \in Seq(Byte)
      /\ Stream = Arrived \o out
      /\ <<>> \in Seq(Byte)
      /\ IsFiniteSet(SpoiledEnds(Stream)) /\ ends \in Nat
  <2>1. Stream \in Seq(Byte) /\ Arrived \in Seq(Byte)
    BY StreamType
  <2>2. IsFiniteSet(SpoiledEnds(Stream)) /\ ends \in Nat
    BY <2>1, SpoiledFinite
  <2>3. Stream = Arrived \o out
    BY DEF Stream
  <2>4. out \in Seq(Byte) /\ <<>> \in Seq(Byte)
    BY DEF TypeOK
  <2> QED
    BY <2>1, <2>2, <2>3, <2>4
<1>3. Pending = (IF gateway = "reading" THEN ends ELSE 0) /\ Pending \in Nat
  BY <1>2 DEF Pending
<1>4. Pending' = IF gateway' = "reading" THEN Cardinality(SpoiledEnds(Stream')) ELSE 0
  BY DEF Pending, SpoiledEnds, Whole, WholeOf
<1>14. Stream' \in Seq(Byte) /\ Cardinality(SpoiledEnds(Stream')) \in Nat
  <2>1. packet_buffer' \in Seq(Byte) /\ rx' \in Seq(Byte) /\ out' \in Seq(Byte)
    BY NextTypeOfLink DEF TypeOK
  <2>2. packet_buffer' \o rx' \in Seq(Byte)
    BY <2>1, ConcatProperties
  <2>3. (packet_buffer' \o rx') \o out' \in Seq(Byte)
    BY <2>1, <2>2, ConcatProperties
  <2>4. Stream' \in Seq(Byte)
    BY <2>3 DEF Stream, Arrived
  <2> QED
    BY <2>4, SpoiledFinite
<1>5. Spoiled' = failures' + (IF received' = Garbage THEN 1 ELSE 0)
  BY DEF Spoiled
<1>6. ASSUME faults' \in {faults, faults + 1} PROVE Spoiled + Pending <= faults
  <2>0. faults' \in Nat /\ faults <= faults'
    BY <1>1, <1>6
  <2>1. faults * RX_BUFFER \in Nat /\ faults * RX_BUFFER <= faults' * RX_BUFFER
    BY <1>1, <2>0, Times
  <2>2. faults' * RX_BUFFER \in Nat
    <3> DEFINE f1 == faults'
    <3>1. f1 \in Nat
      BY <2>0
    <3> HIDE DEF f1
    <3>2. f1 * RX_BUFFER \in Nat
      BY <1>1, <3>1
    <3> QED
      BY <3>2 DEF f1
  <2>3. faults * RX_BUFFER <= Spare
    <3> DEFINE m == faults * RX_BUFFER
               n == faults' * RX_BUFFER
    <3>1. m \in Nat /\ n \in Nat /\ m <= n /\ n <= Spare
      BY <2>1, <2>2 DEF Few, Spare
    <3> HIDE DEF m, n
    <3>2. m <= Spare
      BY <1>1, <3>1
    <3> QED
      BY <3>2 DEF m
  <2> QED
    BY <2>3 DEF SpoiledInv, Few
<1> HIDE DEF ends
<1>18. Spoiled \in Nat /\ Pending \in Nat /\ faults \in Nat
  BY <1>1, <1>3
<1>7. ASSUME faults' = faults, failures' = failures, received' = received,
             gateway' = "reading" =>
               gateway = "reading" /\ Cardinality(SpoiledEnds(Stream')) <= ends
      PROVE  Spoiled' + Pending' <= faults'
  <2>1. Spoiled' = Spoiled /\ Spoiled + Pending <= faults
    BY <1>1, <1>5, <1>6, <1>7
  <2>2. CASE gateway' = "reading"
    <3>1. Pending' <= Pending
      BY <1>3, <1>4, <1>7, <2>2
    <3>2. Pending' \in Nat
      BY <1>4, <1>14, <2>2
    <3> QED
      <4> DEFINE s1 == Spoiled'
                 p1 == Pending'
                 f1 == faults'
      <4>1. s1 = Spoiled /\ p1 <= Pending /\ p1 \in Nat /\ f1 = faults
        BY <1>7, <2>1, <3>1, <3>2
      <4> HIDE DEF s1, p1, f1
      <4>2. s1 + p1 <= f1
        BY <1>18, <2>1, <4>1
      <4> QED
        BY <4>2 DEF s1, p1, f1
  <2>3. CASE gateway' # "reading"
    BY <1>1, <1>3, <1>4, <1>7, <2>1, <2>3
  <2> QED
    BY <2>2, <2>3
<1>8. ASSUME faults' = faults + 1, failures' = failures, received' = received, gateway' = gateway,
             gateway = "reading" => Cardinality(SpoiledEnds(Stream')) <= ends + 1
      PROVE  Spoiled' + Pending' <= faults'
  <2>1. Spoiled' = Spoiled /\ Spoiled + Pending <= faults
    BY <1>1, <1>5, <1>6, <1>8
  <2>2. Pending' <= Pending + 1 /\ Pending' \in Nat
    BY <1>2, <1>3, <1>4, <1>8, <1>14
  <2> QED
    <3> DEFINE s1 == Spoiled'
               p1 == Pending'
               f1 == faults'
    <3>1. s1 = Spoiled /\ p1 <= Pending + 1 /\ p1 \in Nat /\ f1 = faults + 1
      BY <1>8, <2>1, <2>2
    <3> HIDE DEF s1, p1, f1
    <3>2. s1 + p1 <= f1
      BY <1>18, <2>1, <3>1
    <3> QED
      BY <3>2 DEF s1, p1, f1
<1>9. CASE Change \/ WaitForHigh \/ WriteDone \/ PauseOver \/ UNCHANGED vars
  <2>1. /\ Stream' = Stream /\ gateway' = gateway
        /\ faults' = faults /\ failures' = failures /\ received' = received
    BY <1>9 DEF Change, WaitForHigh, WriteDone, PauseOver, vars, senderVars, gatewayVars, Stream, Arrived
  <2> QED
    BY <1>2, <1>7, <2>1 DEF ends
<1>10. CASE SendScanData
  <2>1. /\ Arrived' = Arrived /\ gateway' = gateway
        /\ faults' = faults /\ failures' = failures /\ received' = received
    BY <1>10 DEF SendScanData, gatewayVars, Arrived
  <2>2. PICK length \in 1 .. MAX_FRAME : out' = Append(Body(table, length), Separator)
    BY <1>10 DEF SendScanData
  <2>3. IsFrame(out', table, length) /\ table \in Version
    BY <2>2, FrameType DEF TypeOK
  <2>4. Stream = Arrived
    <3>1. out = <<>>
      BY <1>10 DEF SendScanData, WriterInv
    <3> QED
      BY <1>2, <3>1, ConcatEmptySeq
  <2>5. Cardinality(SpoiledEnds(Arrived \o out')) <= Cardinality(SpoiledEnds(Arrived))
    BY <1>2, <2>3, FrameSpoilsNone
  <2>6. Cardinality(SpoiledEnds(Stream')) <= ends
    BY <2>1, <2>4, <2>5 DEF Stream, ends
  <2> QED
    BY <1>7, <2>1, <2>6
<1>11. CASE Transmit
  <2>1. /\ gateway' = gateway
        /\ faults' = faults /\ failures' = failures /\ received' = received
    BY <1>11 DEF Transmit, gatewayVars
  <2>2. gateway = "reading" => Cardinality(SpoiledEnds(Stream')) <= ends
    <3> SUFFICES ASSUME gateway = "reading" PROVE Cardinality(SpoiledEnds(Stream')) <= ends
      OBVIOUS
    <3>1. Stream' = Stream
      BY <1>11, TransmitStream
    <3> QED
      BY <1>2, <3>1 DEF ends
  <2> QED
    BY <1>7, <2>1, <2>2
<1>12. CASE LoseByte
  <2>1. /\ Arrived' = Arrived /\ gateway' = gateway /\ out # <<>> /\ out' = Tail(out)
        /\ faults' = faults + 1 /\ failures' = failures /\ received' = received
    BY <1>12 DEF LoseByte, Fault, gatewayVars, Arrived
  <2>2. /\ Tail(out) \in Seq(Byte)
        /\ \A i \in 1 .. Len(Tail(out)) - 1 : i + 1 \in 1 .. Len(out) - 1 /\ Tail(out)[i] = out[i + 1]
    BY <2>1, OutSplits
  <2>3. \A i \in 1 .. Len(Tail(out)) - 1 : Tail(out)[i] # Separator
    BY <2>2 DEF WriterInv
  <2>4. Cardinality(SpoiledEnds(Arrived \o Tail(out))) <= Cardinality(SpoiledEnds(Arrived \o out)) + 1
    BY <1>2, <2>2, <2>3, CutSpoils
  <2>5. Cardinality(SpoiledEnds(Stream')) <= ends + 1
    BY <1>2, <2>1, <2>4 DEF Stream, ends
  <2> QED
    BY <1>8, <2>1, <2>5
<1>13. CASE WriteFails \/ SenderRestart
  <2>1. /\ Arrived' = Arrived /\ gateway' = gateway /\ out' = <<>>
        /\ faults' = faults + 1 /\ failures' = failures /\ received' = received
    BY <1>13 DEF WriteFails, SenderRestart, Fault, gatewayVars, Arrived
  <2>2. \A i \in 1 .. Len(<<>>) - 1 : <<>>[i] # Separator
    OBVIOUS
  <2>3. Cardinality(SpoiledEnds(Arrived \o <<>>)) <= Cardinality(SpoiledEnds(Arrived \o out)) + 1
    BY <1>2, <2>2, CutSpoils
  <2>4. Cardinality(SpoiledEnds(Stream')) <= ends + 1
    BY <1>2, <2>1, <2>3 DEF Stream, ends
  <2> QED
    BY <1>8, <2>1, <2>4
<1>15. CASE GatewayRestart
  <2>1. /\ gateway' = "elsewhere" /\ received' = Nothing
        /\ faults' = faults /\ failures' = failures
    BY <1>15 DEF GatewayRestart
  <2>2. Spoiled' = failures /\ Pending' = 0
    BY <1>1, <1>4, <1>5, <2>1 DEF Nothing, Garbage
  <2> QED
    BY <1>1, <1>3, <1>6, <2>1, <2>2
<1>16. CASE Request
  <2>1. /\ gateway' = "reading" /\ gateway = "elsewhere" /\ received' = received
        /\ faults' = faults /\ failures' = failures
        /\ packet_buffer' = <<>> /\ rx' = <<>> /\ out' = <<>>
    BY <1>16 DEF Request, Quiet, WriterInv, senderVars
  <2>2. Stream' = <<>>
    BY <2>1 DEF Stream, Arrived
  <2>3. SpoiledEnds(<<>>) = {}
    BY DEF SpoiledEnds
  <2>4. Pending' = 0
    BY <1>4, <2>1, <2>2, <2>3, FS_EmptySet
  <2>5. Spoiled' = Spoiled
    BY <1>1, <1>5, <2>1
  <2> QED
    BY <1>1, <1>3, <1>6, <2>1, <2>4, <2>5
<1>17. CASE FillBuf
  <2>1. gateway = "reading" /\ faults' = faults
    BY <1>17 DEF FillBuf
  <2>2. Pending = ends /\ ends \in Nat /\ Spoiled + ends <= faults /\ failures <= faults
    BY <1>1, <1>2, <1>3, <1>6, <2>1
  <2>3. CASE Collects
    BY <1>2, <1>7, <2>1, <2>2, <2>3 DEF Collects, ends
  <2>4. CASE gateway' = "reading" /\ DropsFrame
    <3>1. PICK front \in Seq(Byte) :
            /\ front # <<>>
            /\ front[Len(front)] = Separator
            /\ Stream = front \o Stream'
            /\ Len(front) \in SpoiledEnds(Stream)
            /\ failures' = failures + 1
            /\ received' = received
      BY <2>4 DEF DropsFrame
    <3>2. Cardinality(SpoiledEnds(Stream')) <= Cardinality(SpoiledEnds(Stream) \ {Len(front)})
      BY <1>14, <3>1, FrontTaken
    <3>3. Cardinality(SpoiledEnds(Stream) \ {Len(front)}) = ends - 1
      BY <1>2, <3>1, FS_RemoveElement DEF ends
    <3>4. Pending' <= ends - 1 /\ Pending' \in Nat
      BY <1>4, <1>14, <2>2, <2>4, <3>2, <3>3
    <3>5. Spoiled' = Spoiled + 1
      BY <1>1, <1>5, <3>1
    <3> QED
      <4> DEFINE s1 == Spoiled'
                 p1 == Pending'
                 f1 == faults'
      <4>1. s1 = Spoiled + 1 /\ p1 <= ends - 1 /\ p1 \in Nat /\ f1 = faults
        BY <2>1, <3>4, <3>5
      <4> HIDE DEF s1, p1, f1
      <4>2. s1 + p1 <= f1
        BY <1>18, <2>2, <4>1
      <4> QED
        BY <4>2 DEF s1, p1, f1
  <2>5. CASE gateway' = "reading" /\ DropsBuffer
    <3>1. /\ packet_buffer # <<>>
          /\ Stream = packet_buffer \o Stream'
          /\ Len(packet_buffer) + RX_BUFFER > PACKET_BUFFER
          /\ failures' = failures /\ received' = received
      BY <2>5 DEF DropsBuffer
    <3>2. Len(packet_buffer) \in Nat /\ packet_buffer \in Seq(Byte)
      BY LenProperties DEF TypeOK
    <3>3. Clean(packet_buffer)
      <4> SUFFICES ASSUME ~Clean(packet_buffer) PROVE FALSE
        OBVIOUS
      <4> DEFINE kept    == failures * (RX_BUFFER - 1)
                 product == faults * RX_BUFFER
      <4>1. Len(packet_buffer) <= kept
        BY DEF LeftoverInv
      <4>2. product <= Spare
        BY <2>1 DEF Few, Spare
      <4>3. kept \in Nat /\ kept <= faults * (RX_BUFFER - 1)
        BY <1>1, <2>2, CapacityType, Times
      <4>4. faults * (RX_BUFFER - 1) \in Nat /\ product \in Nat
        BY <1>1, CapacityType, Times
      <4>5. faults * (RX_BUFFER - 1) <= product
        <5>1. RX_BUFFER - 1 \in Nat /\ RX_BUFFER - 1 <= RX_BUFFER
          BY CapacityType
        <5>2. (RX_BUFFER - 1) * faults <= RX_BUFFER * faults
          BY <1>1, <5>1, Times
        <5>3. (RX_BUFFER - 1) * faults = faults * (RX_BUFFER - 1) /\ RX_BUFFER * faults = faults * RX_BUFFER
          BY <1>1, <5>1
        <5> QED
          BY <5>2, <5>3
      <4>6. kept <= product
        BY <4>3, <4>4, <4>5
      <4> HIDE DEF kept, product
      <4>7. kept \in Nat /\ product \in Nat
        BY <4>3, <4>4 DEF product, kept
      <4> QED
        BY <3>1, <3>2, <4>1, <4>2, <4>6, <4>7, CapacityType DEF Spare
    <3>4. Len(packet_buffer) > MAX_FRAME
      BY <3>1, <3>2, CapacityType
    <3>5. Cardinality(SpoiledEnds(Stream'))
            <= Cardinality(SpoiledEnds(Stream) \ {Len(packet_buffer)})
      BY <1>14, <3>1, <3>2, <3>3, <3>4, FrontTaken
    <3>6. Cardinality(SpoiledEnds(Stream) \ {Len(packet_buffer)}) \in {ends, ends - 1}
      BY <1>2, FS_RemoveElement DEF ends
    <3>7. Cardinality(SpoiledEnds(Stream')) <= ends
      BY <1>14, <2>2, <3>5, <3>6
    <3> QED
      BY <1>7, <2>1, <3>1, <3>7
  <2>6. CASE Returns
    <3>1. gateway' = "elsewhere" /\ failures' = failures /\ Pending' = 0
      BY <1>4, <2>6 DEF Returns
    <3>2. CASE received' = Garbage /\ SpoiledEnds(Stream) # {}
      <4>1. ends # 0
        BY <1>2, <3>2, FS_EmptySet DEF ends
      <4>2. Spoiled' = failures + 1
        BY <1>5, <3>1, <3>2
      <4> QED
        BY <1>1, <2>1, <2>2, <3>1, <4>1, <4>2
    <3>3. CASE received' \in Version
      <4>1. received' # Garbage
        BY <3>3, CapacityType DEF Garbage
      <4>2. Spoiled' = failures
        BY <1>1, <1>5, <3>1, <4>1
      <4> QED
        BY <1>1, <2>1, <2>2, <3>1, <4>2
    <3> QED
      BY <2>6, <3>2, <3>3 DEF Returns
  <2> QED
    BY <1>17, <2>3, <2>4, <2>5, <2>6, FillBufSteps
<1> QED
  BY <1>9, <1>10, <1>11, <1>12, <1>13, <1>15, <1>16, <1>17 DEF Next, SenderNext, FaultNext

(***************************************************************************)
(* The invariant holds, whatever the sizes and however many the faults.     *)
(***************************************************************************)
THEOREM LinkInvariant == Spec => []LinkInv
<1>1. LinkInv /\ [Next]_vars => LinkInv'
  BY NextTypeOfLink, NextWriter, NextAsked, NextLeftover, NextSpoiled DEF LinkInv
<1> QED
  BY <1>1, InitLink, PTL DEF Spec

(* The types of the link, and the capacities of its buffers.                 *)
THEOREM LinkTypeCorrect == Spec => []TypeOK
<1>1. LinkInv => TypeOK
  BY DEF LinkInv
<1> QED
  BY <1>1, LinkInvariant, PTL

(***************************************************************************)
(* Each byte lost, failed write and restart of the network core spoils one  *)
(* frame at most: for every size of the frames and buffers, as many faults  *)
(* as there is room for in packet_buffer.                                   *)
(***************************************************************************)
THEOREM FaultsSpoilOneFrameCorrect == Spec => []FaultsSpoilOneFrame
<1>1. LinkInv => FaultsSpoilOneFrame
  <2> SUFFICES ASSUME LinkInv, Few PROVE Spoiled <= faults
    BY DEF FaultsSpoilOneFrame, Few
  <2>1. Stream \in Seq(Byte)
    BY StreamType DEF LinkInv
  <2>2. Pending \in Nat
    BY <2>1, SpoiledFinite DEF Pending
  <2>3. Spoiled \in Nat /\ faults \in Nat
    BY CapacityType DEF LinkInv, TypeOK, Spoiled
  <2>4. Spoiled + Pending <= faults
    BY DEF LinkInv, SpoiledInv
  <2> QED
    BY <2>2, <2>3, <2>4
<1> QED
  BY <1>1, LinkInvariant, PTL

-----------------------------------------------------------------------------
(* Init and the steps of the link are those of Handoff.                      *)
LEMMA InitHandoff == Init => Promise!Init
<1> SUFFICES ASSUME Init PROVE Promise!Init
  OBVIOUS
<1>1. (faults > 0) = FALSE
  BY DEF Init
<1> QED
  BY <1>1 DEF Init, Promise!Init, Promise!Nothing, Nothing

(* Every step is one of Handoff, or a stutter.                               *)
LEMMA NextHandoff ==
    LinkInv /\ [Next]_vars
        => [Promise!Next]_<<table, IF gateway = "reading" THEN asked ELSE Nothing, received, faults > 0>>
<1> DEFINE Asked   == IF gateway = "reading" THEN asked ELSE Nothing
           Damaged == faults > 0
           Stays   == Asked' = Asked /\ received' = received
<1> SUFFICES ASSUME LinkInv, [Next]_vars
             PROVE  Promise!Next \/ UNCHANGED <<table, Asked, received, Damaged>>
  OBVIOUS
<1>1. table \in Nat /\ table <= MaxVersion /\ faults \in Nat /\ MaxVersion \in Nat
  BY CapacityType DEF LinkInv, TypeOK
<1>2. CASE Change \/ SenderRestart \/ LoseByte \/ WriteFails
  <2>1. gateway' = gateway /\ asked' = asked /\ received' = received
    BY <1>2 DEF Change, SenderRestart, LoseByte, WriteFails, gatewayVars
  <2>2. Stays
    BY <2>1
  <2>3. CASE Change
    <3>1. table' = table + 1 /\ table + 1 \in Version /\ faults' = faults
      BY <1>1, <2>3, CapacityType DEF Change
    <3>2. Damaged' = Damaged
      BY <3>1
    <3> QED
      BY <2>2, <3>1, <3>2 DEF Promise!Next, Promise!Change
  <2>4. CASE SenderRestart \/ LoseByte \/ WriteFails
    <3>1. faults' = faults + 1 /\ table' \in {table, table + 1} /\ table' \in Version
      BY <1>1, <2>4, CapacityType DEF SenderRestart, LoseByte, WriteFails, Fault
    <3>2. Damaged' = TRUE
      BY <1>1, <3>1
    <3> QED
      BY <2>2, <3>1, <3>2 DEF Promise!Next, Promise!Damage
  <2> QED
    BY <1>2, <2>3, <2>4
<1>3. CASE WaitForHigh \/ SendScanData \/ Transmit \/ WriteDone \/ PauseOver \/ UNCHANGED vars
  BY <1>3 DEF WaitForHigh, SendScanData, Transmit, WriteDone, PauseOver, vars, senderVars, gatewayVars
<1>4. CASE GatewayRestart
  BY <1>4 DEF GatewayRestart, senderVars, Promise!Next, Promise!Forget, Promise!Nothing, Nothing
<1>5. CASE Request
  BY <1>5 DEF Request, senderVars, Promise!Next, Promise!Ask, Promise!Nothing, Nothing
<1>6. CASE FillBuf
  <2>1. gateway = "reading" /\ asked' = asked /\ table' = table /\ faults' = faults
    BY <1>6 DEF FillBuf, senderVars
  <2>2. CASE gateway' = "reading" /\ (Collects \/ DropsFrame \/ DropsBuffer)
    BY <2>1, <2>2 DEF Collects, DropsFrame, DropsBuffer
  <2>3. CASE Returns
    <3>1. gateway' = "elsewhere" /\ Asked = asked /\ Asked' = Nothing
      BY <2>1, <2>3 DEF Returns
    <3>2. asked \in Nat /\ asked # Nothing /\ asked <= table /\ TellsOf(Stream, asked, table)
      BY <1>1, <2>1 DEF LinkInv, AskedInv, Nothing
    <3>3. Stream \in Seq(Byte) /\ IsFiniteSet(SpoiledEnds(Stream))
            /\ Cardinality(SpoiledEnds(Stream)) \in Nat
      <4>1. Stream \in Seq(Byte)
        BY StreamType DEF LinkInv
      <4> QED
        BY <4>1, SpoiledFinite
    <3>4. CASE received' = Garbage /\ SpoiledEnds(Stream) # {}
      <4>1. Damaged
        <5> SUFFICES ASSUME faults = 0 PROVE FALSE
          BY <1>1
        <5>1. Few
          <6>1. 0 * RX_BUFFER = 0 /\ 0 <= Spare
            BY CapacityType DEF Spare
          <6> QED
            BY <6>1 DEF Few
        <5>2. Cardinality(SpoiledEnds(Stream)) # 0
          BY <3>3, <3>4, FS_EmptySet
        <5>3. Spoiled + Pending <= 0
          BY <5>1 DEF LinkInv, SpoiledInv
        <5>4. Spoiled \in Nat /\ Pending = Cardinality(SpoiledEnds(Stream))
          BY <2>1 DEF LinkInv, TypeOK, Spoiled, Pending
        <5> QED
          BY <3>3, <5>2, <5>3, <5>4
      <4> QED
        BY <2>1, <3>1, <3>2, <3>4, <4>1
        DEF Promise!Next, Promise!Give, Promise!Nothing, Promise!Garbage, Nothing, Garbage
    <3>5. CASE /\ Stream # <<>>
               /\ Stream[1] # Separator
               /\ received' = Stream[1][1]
      <4>1. 1 \in 1 .. Len(Stream)
        BY <3>3, <3>5, EmptySeq
      <4>2. received' \in asked .. table
        BY <3>2, <3>5, <4>1 DEF TellsOf
      <4> QED
        BY <2>1, <3>1, <3>2, <4>2 DEF Promise!Next, Promise!Give, Promise!Nothing, Nothing
    <3> QED
      BY <2>3, <3>4, <3>5 DEF Returns
  <2>4. TypeOK
    BY DEF LinkInv
  <2> QED
    BY <1>6, <2>2, <2>3, <2>4, FillBufSteps
<1> QED
  BY <1>2, <1>3, <1>4, <1>5, <1>6 DEF Next, SenderNext, FaultNext

(***************************************************************************)
(* The link implements Handoff: what the gateway is given is the table as   *)
(* it was at some time after it asked, and anything else only after a byte  *)
(* was lost or a frame cut short.                                           *)
(***************************************************************************)
THEOREM ImplementsHandoffCorrect == Spec => ImplementsHandoff
BY InitHandoff, NextHandoff, LinkInvariant, PTL DEF Spec, ImplementsHandoff, Promise!Spec
=============================================================================
