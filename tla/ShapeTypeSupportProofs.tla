----------------------- MODULE ShapeTypeSupportProofs -----------------------
(* The type support of the eProsima program for any colours, any limit of   *)
(* their length and any samples: sizes and serialisation agree, what was    *)
(* written can be read, and keys are those of the colours unless the two    *)
(* threads meet.                                                            *)
EXTENDS ShapeTypeSupport, TLAPS, SequenceTheorems

-----------------------------------------------------------------------------
(* Sizes and serialisation. *)

(* Padding takes an offset to the next multiple of 4, of which there is one *)
(* within 4 of it.                                                          *)
LEMMA AlignedFacts ==
    ASSUME NEW at \in Nat
    PROVE  /\ Aligned(at) \in Nat
           /\ Aligned(at) >= at /\ Aligned(at) <= at + 3
           /\ Aligned(at) % 4 = 0
<1>1. at % 4 \in 0..3
  BY SMT
<1>2. CASE at % 4 = 0
  BY <1>1, <1>2, SMT DEF Aligned, alignment
<1>3. CASE at % 4 \in 1..3
  BY <1>1, <1>3, SMT DEF Aligned, alignment
<1> QED
  BY <1>1, <1>2, <1>3

LEMMA AlignedStays ==
    ASSUME NEW at \in Nat, at % 4 = 0
    PROVE  Aligned(at) = at /\ (at + 4) % 4 = 0 /\ Aligned(at + 4) = at + 4
BY SMT DEF Aligned, alignment

LEMMA AlignedGrows ==
    ASSUME NEW a \in Nat, NEW b \in Nat, a <= b
    PROVE  Aligned(a) <= Aligned(b)
<1>1. /\ Aligned(a) \in Nat /\ Aligned(a) <= a + 3 /\ Aligned(a) % 4 = 0
      /\ Aligned(b) \in Nat /\ Aligned(b) >= b /\ Aligned(b) % 4 = 0
  BY AlignedFacts
<1> QED
  BY <1>1, SMT

LEMMA AlignedZero == Aligned(0) = 0
BY SMT DEF Aligned, alignment

(* Where the four items of a sample begin: the colour at 0, the numbers one *)
(* after the other from the first multiple of 4 behind it.                  *)
FirstNumber(color) == Aligned(4 + Length[color] + 1)

LEMMA Longer ==
    ASSUME NEW S, NEW q \in Seq(S), NEW e \in S,
           NEW n \in Nat, NEW m, Len(q) = n, m = n + 1
    PROVE  /\ Append(q, e) \in Seq(S)
           /\ Len(Append(q, e)) = m
           /\ Append(q, e)[m] = e
           /\ \A i \in 1..n : Append(q, e)[i] = q[i]
BY AppendProperties

LEMMA Four ==
    ASSUME NEW a, NEW b, NEW c, NEW d, NEW q1, NEW q2, NEW q3, NEW q4,
           q1 = Append(<<>>, a), q2 = Append(q1, b),
           q3 = Append(q2, c), q4 = Append(q3, d)
    PROVE  q4[1] = a /\ q4[2] = b /\ q4[3] = c /\ q4[4] = d
<1> DEFINE S == {a, b, c, d}
<1>1. a \in S /\ b \in S /\ c \in S /\ d \in S
  OBVIOUS
<1> HIDE DEF S
<1>2. q1 \in Seq(S) /\ Len(q1) = 1 /\ q1[1] = a
  <2>1. <<>> \in Seq(S) /\ Len(<<>>) = 0
    BY EmptySeq
  <2> QED
    BY <1>1, <2>1
<1>4. q2 \in Seq(S) /\ Len(q2) = 2 /\ q2[2] = b /\ \A i \in 1..1 : q2[i] = q1[i]
  BY <1>1, <1>2, Longer
<1>5. q3 \in Seq(S) /\ Len(q3) = 3 /\ q3[3] = c /\ \A i \in 1..2 : q3[i] = q2[i]
  BY <1>1, <1>4, Longer
<1>6. q4[4] = d /\ \A i \in 1..3 : q4[i] = q3[i]
  BY <1>1, <1>5, Longer
<1> QED
  BY <1>2, <1>4, <1>5, <1>6

LEMMA Layout ==
    ASSUME NEW s \in ShapeType
    PROVE  LET n == FirstNumber(s.color)
           IN  /\ serialize(s).end = n + 12
               /\ serialize(s).items[1] = [at |-> 0, is |-> s.color]
               /\ serialize(s).items[2] = [at |-> n, is |-> s.x]
               /\ serialize(s).items[3] = [at |-> n + 4, is |-> s.y]
               /\ serialize(s).items[4] = [at |-> n + 8, is |-> s.shapesize]
<1> DEFINE n == FirstNumber(s.color)
           c == PutColor(Empty, s.color)
           cx == Put(c, 4, s.x)
           cy == Put(cx, 4, s.y)
<1>1. Length[s.color] \in Nat
  BY TypeSupportAssumption DEF ShapeType
<1>2. n \in Nat /\ n % 4 = 0 /\ Aligned(n) = n /\ Aligned(n + 4) = n + 4 /\ Aligned(n + 8) = n + 8
  <2>1. n \in Nat /\ n % 4 = 0
    BY <1>1, AlignedFacts DEF FirstNumber
  <2>2. Aligned(n) = n /\ (n + 4) % 4 = 0 /\ Aligned(n + 4) = n + 4
    BY <2>1, AlignedStays
  <2>3. Aligned((n + 4) + 4) = (n + 4) + 4
    BY <2>1, <2>2, AlignedStays
  <2> QED
    BY <2>1, <2>2, <2>3
<1> DEFINE is_c == Append(<<>>, [at |-> 0, is |-> s.color])
           is_x == Append(is_c, [at |-> n, is |-> s.x])
           is_y == Append(is_x, [at |-> n + 4, is |-> s.y])
           is_s == Append(is_y, [at |-> n + 8, is |-> s.shapesize])
<1>3. c = [end |-> 4 + Length[s.color] + 1, items |-> is_c]
  BY <1>1, AlignedZero DEF PutColor, Put, Empty
<1>4. cx = [end |-> n + 4, items |-> is_x]
  BY <1>3 DEF Put, FirstNumber
<1>5. cy = [end |-> n + 8, items |-> is_y]
  <2>1. cx.end = n + 4 /\ cx.items = is_x
    BY <1>4
  <2>2. Aligned(cx.end) = n + 4 /\ Aligned(cx.end) + 4 = n + 8
    BY <2>1, <1>2
  <2> HIDE DEF cx, n
  <2> QED
    BY <2>1, <2>2 DEF Put
<1>6. Put(cy, 4, s.shapesize) = [end |-> n + 12, items |-> is_s]
  <2>1. cy.end = n + 8 /\ cy.items = is_y
    BY <1>5
  <2>2. Aligned(cy.end) = n + 8 /\ Aligned(cy.end) + 4 = n + 12
    BY <2>1, <1>2
  <2> HIDE DEF cy, n
  <2> QED
    BY <2>1, <2>2 DEF Put
<1>7. /\ is_s[1] = [at |-> 0, is |-> s.color]
      /\ is_s[2] = [at |-> n, is |-> s.x]
      /\ is_s[3] = [at |-> n + 4, is |-> s.y]
      /\ is_s[4] = [at |-> n + 8, is |-> s.shapesize]
  BY Four
<1>8. serialize(s).end = n + 12 /\ serialize(s).items = is_s
  BY <1>6 DEF serialize
<1> QED
  BY <1>7, <1>8

(* Reading gives back what was written. *)
LEMMA ReadsBack ==
    ASSUME NEW s \in ShapeType
    PROVE  deserialize(serialize(s).items) = s
<1> DEFINE n == FirstNumber(s.color)
           items == serialize(s).items
<1>1. /\ items[1] = [at |-> 0, is |-> s.color]
      /\ items[2] = [at |-> n, is |-> s.x]
      /\ items[3] = [at |-> n + 4, is |-> s.y]
      /\ items[4] = [at |-> n + 8, is |-> s.shapesize]
  BY Layout
<1> HIDE DEF items
<1>2. Read(items, 1, 0) = s.color /\ Aligned(4 + Length[s.color] + 1) = n
  BY <1>1 DEF Read, FirstNumber
<1> HIDE DEF n
<1>3. /\ Read(items, 2, n) = s.x
      /\ Read(items, 3, n + 4) = s.y
      /\ Read(items, 4, n + 8) = s.shapesize
  BY <1>1 DEF Read
<1>4. deserialize(items) =
        [color |-> s.color, x |-> s.x, y |-> s.y, shapesize |-> s.shapesize]
  BY <1>2, <1>3 DEF deserialize
<1> QED
  BY <1>4 DEF items, ShapeType

(* The two size functions follow the layout. *)
LEMMA SizeOfColor ==
    ASSUME NEW n \in Nat
    PROVE  LET end == AfterLong(AfterLong(AfterLong(AfterString(0, n))))
           IN  end = Aligned(4 + n + 1) + 12 /\ end \in Nat
<1> DEFINE m == Aligned(4 + n + 1)
<1>1. m \in Nat /\ m % 4 = 0
  BY AlignedFacts
<1>2. (m + 4) % 4 = 0 /\ Aligned(m + 4) = m + 4
  BY <1>1, AlignedStays
<1>3. Aligned((m + 4) + 4) = (m + 4) + 4
  BY <1>1, <1>2, AlignedStays
<1>4. AfterString(0, n) = 4 + n + 1
  BY AlignedZero DEF AfterString, AfterLong
<1>5. AfterLong(AfterString(0, n)) = m + 4
  BY <1>4 DEF AfterLong
<1> HIDE DEF m
<1>6. AfterLong(m + 4) = m + 8 /\ AfterLong(m + 8) = m + 12
  BY <1>1, <1>2, <1>3 DEF AfterLong
<1>7. AfterLong(AfterLong(AfterLong(AfterString(0, n)))) = m + 12
  BY <1>5, <1>6
<1> QED
  BY <1>1, <1>7 DEF m

LEMMA PayloadSizes ==
    ASSUME NEW s \in ShapeType
    PROVE  /\ Payload(s).length = getCdrSerializedSize(s, 0) + Encapsulation
           /\ Length[s.color] <= COLOR_MAX_LENGTH => Payload(s).length <= m_typeSize
<1> DEFINE l == Length[s.color]
<1>1. l \in Nat /\ COLOR_MAX_LENGTH \in Nat
  BY TypeSupportAssumption DEF ShapeType
<1>2. serialize(s).end = Aligned(4 + l + 1) + 12
  BY Layout DEF FirstNumber
<1>3. getCdrSerializedSize(s, 0) = Aligned(4 + l + 1) + 12
  BY <1>1, SizeOfColor DEF getCdrSerializedSize
<1>4. m_typeSize = Aligned(4 + COLOR_MAX_LENGTH + 1) + 12 + Encapsulation
  BY <1>1, SizeOfColor DEF m_typeSize, getMaxCdrSerializedSize, MaxEnd
<1>5. Payload(s).length = Aligned(4 + l + 1) + 12 + Encapsulation
  BY <1>2 DEF Payload
<1>6. ASSUME l <= COLOR_MAX_LENGTH
      PROVE  Payload(s).length <= m_typeSize
  <2>1. Aligned(4 + l + 1) <= Aligned(4 + COLOR_MAX_LENGTH + 1)
    BY <1>1, <1>6, AlignedGrows
  <2>2. Aligned(4 + l + 1) \in Nat /\ Aligned(4 + COLOR_MAX_LENGTH + 1) \in Nat
    BY <1>1, AlignedFacts
  <2> QED
    BY <2>1, <2>2, <1>4, <1>5 DEF Encapsulation
<1> QED
  BY <1>3, <1>5, <1>6

(* The key buffer has the room of the longest colour of the IDL file. *)
LEMMA KeyFitsShortColors ==
    ASSUME NEW color \in Colors
    PROVE  KeyFits(color) <=> Length[color] <= COLOR_MAX_LENGTH
<1>1. Length[color] \in Nat /\ COLOR_MAX_LENGTH \in Nat
  BY TypeSupportAssumption
<1>2. PutColor(Empty, color).end = 4 + Length[color] + 1
  BY <1>1, AlignedZero DEF PutColor, Put, Empty
<1>3. getKeyMaxCdrSerializedSize(0) = 4 + COLOR_MAX_LENGTH + 1
  BY <1>1, AlignedZero DEF getKeyMaxCdrSerializedSize, AfterString, AfterLong
<1> QED
  BY <1>1, <1>2, <1>3 DEF KeyFits

-----------------------------------------------------------------------------
(* The invariant. *)

(* Payloads whose colour keeps to the IDL file: those that are sent or      *)
(* filed, though others may arrive.                                         *)
Small == {p \in Payloads : Length[p.of.color] <= COLOR_MAX_LENGTH}

LEMMA AnyPayload ==
    ASSUME NEW p \in Payloads
    PROVE  /\ p.of \in Samples /\ p.of.color \in Colors /\ Length[p.of.color] \in Nat
           /\ deserialize(p.items) = p.of
           /\ p.length = getCdrSerializedSize(p.of, 0) + Encapsulation
<1>1. PICK s \in Samples : p = Payload(s)
  BY DEF Payloads
<1>2. s \in ShapeType
  BY TypeSupportAssumption
<1>3. p.of = s /\ p.items = serialize(s).items /\ p.length = Payload(s).length
  BY <1>1 DEF Payload
<1>4. p.of.color \in Colors /\ Length[p.of.color] \in Nat
  BY <1>2, <1>3, TypeSupportAssumption DEF ShapeType
<1>5. deserialize(p.items) = p.of
  BY <1>2, <1>3, ReadsBack
<1> QED
  BY <1>1, <1>2, <1>3, <1>4, <1>5, PayloadSizes

LEMMA SmallPayloads ==
    ASSUME NEW p \in Small
    PROVE  /\ p \in Payloads /\ Length[p.of.color] <= COLOR_MAX_LENGTH
           /\ p.length <= m_typeSize
<1>1. p \in Payloads /\ Length[p.of.color] <= COLOR_MAX_LENGTH
  BY DEF Small
<1>2. PICK s \in Samples : p = Payload(s)
  BY <1>1 DEF Payloads
<1>3. p.of = s /\ s \in ShapeType
  BY <1>2, TypeSupportAssumption DEF Payload
<1> QED
  BY <1>1, <1>2, <1>3, PayloadSizes

Keys     == [of : Colors \cup {"none"}, length : Nat]
Entries  == [payload : Small, key : Keys, raced : BOOLEAN]
Sent     == [kind : {"sent"}, payload : Small, key : Keys, raced : BOOLEAN]
TooLong  == {s \in Samples : Length[s.color] > COLOR_MAX_LENGTH}
Thrown   == [kind : {"exception"}, of : TooLong, by : Threads]
Outcomes == [kind : {"none"}] \cup Sent \cup Thrown
Pcs      == {"idle", "getKey", "digest", "copy", "keyed", "terminated"}

ThreadTypes ==
    /\ roles \in {{"pub"}, {"sub"}, {"pub", "sub"}}
    /\ pc \in [Threads -> Pcs]
    /\ data \in [Threads -> Samples \cup {None}]
    /\ handle \in [Threads -> Keys]
    /\ m_keyBuffer \in Colors \cup {"none"}
    /\ m_md5 \in Keys
    /\ raced \subseteq Threads

PayloadTypes ==
    /\ network \in Seq(Payloads) /\ Len(network) <= Depth
    /\ history \in Seq(Entries) /\ Len(history) <= Depth
    /\ outcome \in Outcomes

Busy(t) == pc[t] \in {"getKey", "digest", "copy", "keyed"}

(* What a busy thread works on: the main thread on a sample of its own, the *)
(* receiving thread on the payload at the head of the network.  Behind      *)
(* SerializeKey the colour is one that fits.                                *)
WorkInv ==
    /\ Busy("main") => "pub" \in roles /\ data["main"] \in Samples
    /\ Busy("receiver") =>
         /\ "sub" \in roles
         /\ network # <<>>
         /\ data["receiver"] = Head(network).of
    /\ network # <<>> => "sub" \in roles
    /\ \A t \in Threads : pc[t] \in {"digest", "copy", "keyed"} =>
          Length[data[t].color] <= COLOR_MAX_LENGTH

(* A thread in getKey finds in the shared buffers what it put there, or has *)
(* met the other; while both are in it, both have.                          *)
KeyInv ==
    /\ InKey("main") /\ InKey("receiver") => raced = Threads
    /\ raced # {} => roles = {"pub", "sub"}
    /\ \A t \in Threads \ raced :
         /\ pc[t] = "digest" => m_keyBuffer = data[t].color
         /\ pc[t] = "copy" => m_md5 = Key(data[t].color)
         /\ pc[t] = "keyed" => handle[t] = Key(data[t].color)

IInv == ThreadTypes /\ PayloadTypes /\ WorkInv /\ KeyInv /\ KeyIsColor

LEMMA InitInv == Init => IInv
<1> SUFFICES ASSUME Init PROVE IInv
  OBVIOUS
<1>1. ThreadTypes
  BY DEF Init, ThreadTypes, Pcs, Keys, NoKey
<1>2. PayloadTypes
  <2>1. network \in Seq(Payloads) /\ history \in Seq(Entries)
    BY EmptySeq DEF Init
  <2>2. Len(network) = 0 /\ Len(history) = 0
    BY DEF Init
  <2>3. outcome \in Outcomes
    BY DEF Init, Outcomes
  <2> QED
    BY <2>1, <2>2, <2>3, TypeSupportAssumption DEF PayloadTypes
<1>3. WorkInv
  BY DEF Init, WorkInv, Busy, Threads
<1>4. KeyInv
  BY DEF Init, KeyInv, InKey, Threads
<1>5. KeyIsColor
  BY DEF Init, KeyIsColor, Keyed, Filed
<1> QED
  BY <1>1, <1>2, <1>3, <1>4, <1>5 DEF IInv

-----------------------------------------------------------------------------
(* Every step keeps it. *)

LEMMA WorksOnSample ==
    ASSUME IInv, NEW t \in Threads, Busy(t)
    PROVE  /\ data[t] \in Samples /\ data[t].color \in Colors
           /\ Length[data[t].color] \in Nat
           /\ t = "receiver" => /\ Head(network) \in Payloads
                                /\ data[t] = Head(network).of
<1>1. CASE t = "receiver"
  <2>1. network # <<>> /\ data[t] = Head(network).of
    BY <1>1 DEF IInv, WorkInv
  <2>2. Head(network) \in Payloads
    BY <2>1, HeadTailProperties DEF IInv, PayloadTypes
  <2> QED
    BY <1>1, <2>1, <2>2, AnyPayload
<1>2. CASE t = "main"
  <2>1. data[t] \in Samples
    BY <1>2 DEF IInv, WorkInv
  <2> QED
    BY <1>2, <2>1, TypeSupportAssumption DEF ShapeType
<1> QED
  BY <1>1, <1>2 DEF Threads

LEMMA KeyedSame ==
    KeyIsColor /\ UNCHANGED <<roles, history, outcome>> => KeyIsColor'
BY DEF KeyIsColor, Keyed, Filed

LEMMA StepSerializeKey ==
    ASSUME IInv, NEW t \in Threads, SerializeKey(t)
    PROVE  IInv'
<1> USE DEF SerializeKey, At, Goto
<1>1. Busy(t)
  BY DEF Busy
<1>2. data[t] \in Samples /\ data[t].color \in Colors /\ Length[data[t].color] <= COLOR_MAX_LENGTH
  BY <1>1, WorksOnSample, KeyFitsShortColors
<1>3. ThreadTypes'
  BY <1>2 DEF IInv, ThreadTypes, Pcs
<1>4. PayloadTypes'
  BY DEF IInv, PayloadTypes
<1>5. pc' = [pc EXCEPT ![t] = "digest"] /\ pc \in [Threads -> Pcs]
  BY DEF IInv, ThreadTypes
<1>6. WorkInv'
  <2>1. \A u \in Threads : Busy(u)' <=> Busy(u)
    BY <1>5, <1>1 DEF Busy
  <2>2. \A u \in Threads : pc'[u] \in {"digest", "copy", "keyed"} =>
           Length[data'[u].color] <= COLOR_MAX_LENGTH
    BY <1>2, <1>5 DEF IInv, WorkInv
  <2> QED
    BY <2>1, <2>2 DEF IInv, WorkInv, Threads
<1>7. KeyInv'
  <2>1. InKey("main")' /\ InKey("receiver")' => raced' = Threads
    BY <1>5 DEF InKey, Threads, Other
  <2>2. raced' # {} => roles' = {"pub", "sub"}
    <3>1. CASE InKey(Other(t))
      <4>1. Busy("main") /\ Busy("receiver")
        BY <1>1, <3>1 DEF Busy, InKey, Other, Threads
      <4>2. "pub" \in roles /\ "sub" \in roles
        BY <4>1 DEF IInv, WorkInv
      <4> QED
        BY <4>2 DEF IInv, ThreadTypes
    <3>2. CASE ~InKey(Other(t))
      BY <3>2 DEF IInv, KeyInv
    <3> QED
      BY <3>1, <3>2
  <2>3. ASSUME NEW u \in Threads \ raced'
        PROVE  /\ pc'[u] = "digest" => m_keyBuffer' = data'[u].color
               /\ pc'[u] = "copy" => m_md5' = Key(data'[u].color)
               /\ pc'[u] = "keyed" => handle'[u] = Key(data'[u].color)
    <3>1. CASE u = t
      BY <3>1, <1>5
    <3>2. CASE u # t
      <4>1. u = Other(t) /\ ~InKey(u)
        BY <2>3, <3>2 DEF Threads, Other
      <4>2. u \notin raced
        BY <2>3, <3>2, <4>1
      <4> QED
        BY <3>2, <4>1, <4>2, <1>5 DEF InKey, IInv, KeyInv
    <3> QED
      BY <3>1, <3>2
  <2> QED
    BY <2>1, <2>2, <2>3 DEF KeyInv
<1>8. KeyIsColor'
  BY KeyedSame DEF IInv
<1> QED
  BY <1>3, <1>4, <1>6, <1>7, <1>8 DEF IInv

LEMMA StepKeyThrows ==
    ASSUME IInv, NEW t \in Threads, KeyThrows(t)
    PROVE  IInv'
<1> USE DEF KeyThrows, At, shared
<1>1. Busy(t)
  BY DEF Busy
<1>2. data[t] \in Samples /\ Length[data[t].color] > COLOR_MAX_LENGTH
  <2>1. data[t] \in Samples /\ data[t].color \in Colors /\ Length[data[t].color] \in Nat
    BY <1>1, WorksOnSample
  <2>2. ~(Length[data[t].color] <= COLOR_MAX_LENGTH)
    BY <2>1, KeyFitsShortColors
  <2> QED
    BY <2>1, <2>2, TypeSupportAssumption
<1>3. ThreadTypes'
  <2>1. pc' \in [Threads -> Pcs]
    BY DEF Pcs
  <2> QED
    BY <2>1 DEF IInv, ThreadTypes
<1>4. PayloadTypes'
  <2>1. outcome' \in Thrown
    BY <1>2 DEF Thrown, TooLong
  <2> QED
    BY <2>1 DEF IInv, PayloadTypes, Outcomes
<1>5. pc' = [u \in Threads |-> "terminated"]
  OBVIOUS
<1>6. WorkInv'
  BY <1>5 DEF WorkInv, Busy, IInv, Threads
<1>7. KeyInv'
  BY <1>5 DEF KeyInv, InKey, IInv, Threads
<1>8. KeyIsColor'
  BY DEF KeyIsColor, Keyed, Filed, IInv
<1> QED
  BY <1>3, <1>4, <1>6, <1>7, <1>8 DEF IInv

LEMMA StepUpdateDigest ==
    ASSUME IInv, NEW t \in Threads, UpdateDigest(t)
    PROVE  IInv'
<1> USE DEF UpdateDigest, At, Goto
<1>1. Busy(t) /\ InKey(t)
  BY DEF Busy, InKey
<1>2. data[t].color \in Colors /\ Length[data[t].color] \in Nat
  BY <1>1, WorksOnSample
<1>3. ThreadTypes'
  <2>1. m_md5' \in Keys
    BY <1>2 DEF IInv, ThreadTypes, Keys, Digest
  <2> QED
    BY <2>1 DEF IInv, ThreadTypes, Pcs
<1>4. PayloadTypes'
  BY DEF IInv, PayloadTypes
<1>5. pc' = [pc EXCEPT ![t] = "copy"] /\ pc \in [Threads -> Pcs]
  BY DEF IInv, ThreadTypes
<1>6. WorkInv'
  <2>1. \A u \in Threads : Busy(u)' <=> Busy(u)
    BY <1>5, <1>1 DEF Busy
  <2>2. \A u \in Threads : pc'[u] \in {"digest", "copy", "keyed"} =>
           Length[data'[u].color] <= COLOR_MAX_LENGTH
    BY <1>5 DEF IInv, WorkInv
  <2> QED
    BY <2>1, <2>2 DEF IInv, WorkInv, Threads
<1>7. KeyInv'
  <2>1. \A u \in Threads : InKey(u)' <=> InKey(u)
    BY <1>5, <1>1 DEF InKey
  <2>2. ASSUME NEW u \in Threads \ raced'
        PROVE  /\ pc'[u] = "digest" => m_keyBuffer' = data'[u].color
               /\ pc'[u] = "copy" => m_md5' = Key(data'[u].color)
               /\ pc'[u] = "keyed" => handle'[u] = Key(data'[u].color)
    <3>1. CASE u = t
      BY <2>2, <3>1, <1>5 DEF IInv, KeyInv, Key
    <3>2. CASE u # t
      <4>1. ~InKey(u)
        BY <1>1, <2>2, <3>2 DEF IInv, KeyInv, Threads
      <4> QED
        BY <3>2, <4>1, <2>2, <1>5 DEF InKey, IInv, KeyInv
    <3> QED
      BY <3>1, <3>2
  <2> QED
    BY <2>1, <2>2 DEF IInv, KeyInv, Threads
<1>8. KeyIsColor'
  BY KeyedSame DEF IInv
<1> QED
  BY <1>3, <1>4, <1>6, <1>7, <1>8 DEF IInv

LEMMA StepCopyDigest ==
    ASSUME IInv, NEW t \in Threads, CopyDigest(t)
    PROVE  IInv'
<1> USE DEF CopyDigest, At, Goto, shared
<1>1. ThreadTypes'
  BY DEF IInv, ThreadTypes, Pcs
<1>2. PayloadTypes'
  BY DEF IInv, PayloadTypes
<1>3. /\ pc' = [pc EXCEPT ![t] = "keyed"] /\ pc \in [Threads -> Pcs]
      /\ handle \in [Threads -> Keys]
  BY DEF IInv, ThreadTypes
<1>4. WorkInv'
  <2>1. \A u \in Threads : Busy(u)' <=> Busy(u)
    BY <1>3 DEF Busy
  <2>2. \A u \in Threads : pc'[u] \in {"digest", "copy", "keyed"} =>
           Length[data'[u].color] <= COLOR_MAX_LENGTH
    BY <1>3 DEF IInv, WorkInv
  <2> QED
    BY <2>1, <2>2 DEF IInv, WorkInv, Threads
<1>5. KeyInv'
  <2>1. \A u \in Threads : InKey(u)' => InKey(u)
    BY <1>3 DEF InKey
  <2>2. ASSUME NEW u \in Threads \ raced'
        PROVE  /\ pc'[u] = "digest" => m_keyBuffer' = data'[u].color
               /\ pc'[u] = "copy" => m_md5' = Key(data'[u].color)
               /\ pc'[u] = "keyed" => handle'[u] = Key(data'[u].color)
    BY <2>2, <1>3 DEF IInv, KeyInv
  <2> QED
    BY <2>1, <2>2 DEF IInv, KeyInv, Threads
<1>6. KeyIsColor'
  BY KeyedSame DEF IInv
<1> QED
  BY <1>1, <1>2, <1>4, <1>5, <1>6 DEF IInv

LEMMA StepWrite ==
    ASSUME IInv, NEW s \in Samples, Write(s)
    PROVE  IInv'
<1> USE DEF Write, At, Goto, shared
<1>1. ThreadTypes'
  BY DEF IInv, ThreadTypes, Pcs
<1>2. PayloadTypes'
  BY DEF IInv, PayloadTypes
<1>3. /\ pc' = [pc EXCEPT !["main"] = "getKey"] /\ pc \in [Threads -> Pcs]
      /\ data' = [data EXCEPT !["main"] = s]
      /\ data \in [Threads -> Samples \cup {None}]
  BY DEF IInv, ThreadTypes
<1>4. pc'["main"] = "getKey" /\ data'["main"] = s
  BY <1>3 DEF Threads
<1>5. pc'["receiver"] = pc["receiver"] /\ data'["receiver"] = data["receiver"]
  BY <1>3 DEF Threads
<1>6. WorkInv'
  BY <1>4, <1>5 DEF IInv, WorkInv, Busy, Threads
<1>7. KeyInv'
  BY <1>4, <1>5 DEF IInv, KeyInv, InKey, Threads
<1>8. KeyIsColor'
  BY KeyedSame DEF IInv
<1> QED
  BY <1>1, <1>2, <1>6, <1>7, <1>8 DEF IInv

LEMMA StepSerialize ==
    ASSUME IInv, Serialize
    PROVE  IInv'
<1> DEFINE p == Payload(data["main"])
<1> USE DEF At, Goto, shared
<1>1. Busy("main") /\ "main" \in Threads
  BY DEF Serialize, Busy, Threads
<1>2. data["main"] \in Samples /\ Length[data["main"].color] <= COLOR_MAX_LENGTH
  BY <1>1 DEF Serialize, IInv, WorkInv
<1>3. p \in Small /\ p.of = data["main"]
  BY <1>2 DEF Small, Payloads, Payload
<1>4. outcome' = [kind |-> "sent", payload |-> p, key |-> handle["main"],
                  raced |-> "main" \in raced]
  <2>1. /\ p.length = getCdrSerializedSize(data["main"], 0) + Encapsulation
        /\ p.length <= m_typeSize
    BY <1>3, SmallPayloads, AnyPayload
  <2>2. p.length <= p.length
    <3>1. p.length = Aligned(4 + Length[data["main"].color] + 1) + 12 + Encapsulation
      BY <1>2, Layout, TypeSupportAssumption DEF Payload, FirstNumber
    <3>2. Aligned(4 + Length[data["main"].color] + 1) \in Nat
      BY <1>1, WorksOnSample, AlignedFacts
    <3> QED
      BY <3>1, <3>2 DEF Encapsulation
  <2>3. PICK room \in {m_typeSize, getCdrSerializedSize(data["main"], 0) + Encapsulation} :
          outcome' = IF p.length <= room
                       THEN [kind |-> "sent", payload |-> p, key |-> handle["main"],
                             raced |-> "main" \in raced]
                       ELSE [kind |-> "refused", of |-> data["main"]]
    BY DEF Serialize
  <2>4. p.length <= room
    BY <2>1, <2>2, <2>3
  <2> QED
    BY <2>3, <2>4
<1>5. ThreadTypes'
  BY DEF Serialize, IInv, ThreadTypes, Pcs
<1>6. PayloadTypes'
  <2>1. outcome' \in Sent
    BY <1>1, <1>3, <1>4 DEF Sent, IInv, ThreadTypes
  <2> QED
    BY <2>1 DEF Serialize, IInv, PayloadTypes, Outcomes
<1>7. pc' = [pc EXCEPT !["main"] = "idle"] /\ pc \in [Threads -> Pcs]
  BY DEF Serialize, IInv, ThreadTypes
<1>8. WorkInv'
  BY <1>7 DEF Serialize, IInv, WorkInv, Busy, Threads
<1>9. KeyInv'
  BY <1>7 DEF Serialize, IInv, KeyInv, InKey, Threads
<1>10. KeyIsColor'
  <2>1. \/ outcome'.key = Key(outcome'.payload.of.color)
        \/ outcome'.raced /\ roles' = {"pub", "sub"}
    <3>1. /\ outcome'.key = handle["main"] /\ outcome'.payload.of = data["main"]
          /\ outcome'.raced = ("main" \in raced)
      BY <1>3, <1>4
    <3>2. CASE "main" \in raced
      BY <3>1, <3>2 DEF Serialize, IInv, KeyInv
    <3>3. CASE "main" \notin raced
      <4>1. pc["main"] = "keyed"
        BY DEF Serialize
      <4>2. handle["main"] = Key(data["main"].color)
        BY <1>1, <3>3, <4>1 DEF IInv, KeyInv
      <4>3. outcome'.key = Key(outcome'.payload.of.color)
        BY <3>1, <4>2, Zenon
      <4> QED
        BY <4>3
    <3> QED
      BY <3>2, <3>3
  <2>2. history' = history /\ roles' = roles
    BY DEF Serialize
  <2> QED
    BY <2>1, <2>2 DEF IInv, KeyIsColor, Keyed, Filed
<1> QED
  BY <1>5, <1>6, <1>8, <1>9, <1>10 DEF IInv

LEMMA StepTake ==
    ASSUME IInv, Take
    PROVE  IInv'
<1> USE DEF Take, At, shared
<1>1. /\ Head(history) \in Entries /\ Tail(history) \in Seq(Entries)
      /\ Len(Tail(history)) = Len(history) - 1
      /\ \A k \in 1..Len(Tail(history)) : Tail(history)[k] = history[k + 1]
  BY HeadTailProperties DEF IInv, PayloadTypes
<1>2. data'["main"] \in Samples /\ data'["receiver"] = data["receiver"]
  <2>1. Head(history).payload \in Small
    BY <1>1 DEF Entries
  <2>2. deserialize(Head(history).payload.items) \in Samples
    BY <2>1, SmallPayloads, AnyPayload
  <2> QED
    BY <2>2 DEF IInv, ThreadTypes, Threads
<1>3. ThreadTypes'
  <2>1. data' \in [Threads -> Samples \cup {None}]
    BY <1>2 DEF IInv, ThreadTypes, Threads
  <2> QED
    BY <2>1 DEF IInv, ThreadTypes
<1>4. Len(history) \in Nat /\ Len(history') \in Nat /\ Len(history') = Len(history) - 1
  BY <1>1, LenProperties DEF IInv, PayloadTypes
<1>5. PayloadTypes'
  BY <1>1, <1>4, TypeSupportAssumption DEF IInv, PayloadTypes
<1>6. WorkInv'
  BY <1>2 DEF IInv, WorkInv, Busy, Threads
<1>7. KeyInv'
  BY <1>2 DEF IInv, KeyInv, InKey, Threads
<1>8. KeyIsColor'
  <2>1. Filed' \subseteq Filed
    <3>1. \A k \in 1..Len(history') : k + 1 \in 1..Len(history) /\ history'[k] = history[k + 1]
      BY <1>1, <1>4
    <3> QED
      BY <3>1 DEF Filed
  <2> QED
    BY <2>1 DEF IInv, KeyIsColor, Keyed
<1> QED
  BY <1>3, <1>5, <1>6, <1>7, <1>8 DEF IInv

LEMMA StepArrive ==
    ASSUME IInv, NEW s \in Samples, Arrive(s)
    PROVE  IInv'
<1> USE DEF Arrive, shared
<1>1. Payload(s) \in Payloads
  BY DEF Payloads
<1>2. /\ network' \in Seq(Payloads) /\ Len(network') = Len(network) + 1
      /\ network' # <<>>
      /\ \A i \in 1..Len(network) : network'[i] = network[i]
  BY <1>1, AppendProperties DEF IInv, PayloadTypes
<1>3. Len(network) \in Nat
  BY LenProperties DEF IInv, PayloadTypes
<1>4. ThreadTypes'
  BY DEF IInv, ThreadTypes
<1>5. PayloadTypes'
  BY <1>2, <1>3, TypeSupportAssumption DEF IInv, PayloadTypes
<1>6. WorkInv'
  <2>1. network # <<>> => Head(network') = Head(network)
    <3>1. network # <<>> => Len(network) >= 1
      BY <1>3, EmptySeq DEF IInv, PayloadTypes
    <3>2. network # <<>> => network'[1] = network[1]
      BY <1>2, <1>3, <3>1
    <3> QED
      BY <1>2, <3>2
  <2> QED
    BY <1>2, <2>1 DEF IInv, WorkInv, Busy
<1>7. KeyInv'
  BY DEF IInv, KeyInv, InKey
<1>8. KeyIsColor'
  BY KeyedSame DEF IInv
<1> QED
  BY <1>4, <1>5, <1>6, <1>7, <1>8 DEF IInv

LEMMA StepReceive ==
    ASSUME IInv, Receive
    PROVE  IInv'
<1> USE DEF Receive, At, Goto, shared
<1>1. /\ Head(network) \in Payloads
      /\ deserialize(Head(network).items) = Head(network).of
      /\ Head(network).of \in Samples
  <2>1. Head(network) \in Payloads
    BY HeadTailProperties DEF IInv, PayloadTypes
  <2> QED
    BY <2>1, AnyPayload
<1>2. ThreadTypes'
  BY <1>1 DEF IInv, ThreadTypes, Pcs
<1>3. PayloadTypes'
  BY DEF IInv, PayloadTypes
<1>4. /\ pc'["receiver"] = "getKey" /\ data'["receiver"] = Head(network).of
      /\ pc'["main"] = pc["main"] /\ data'["main"] = data["main"]
  BY <1>1 DEF IInv, ThreadTypes, Threads
<1>5. WorkInv'
  BY <1>4 DEF IInv, WorkInv, Busy, Threads
<1>6. KeyInv'
  BY <1>4 DEF IInv, KeyInv, InKey, Threads
<1>7. KeyIsColor'
  BY KeyedSame DEF IInv
<1> QED
  BY <1>2, <1>3, <1>5, <1>6, <1>7 DEF IInv

Elements(q) == {q[k] : k \in 1..Len(q)}

(* What a bounded history holds after one more entry is among what it held, *)
(* and the entry.                                                           *)
LEMMA KeptLast ==
    ASSUME NEW S, NEW q \in Seq(S), NEW e \in S, Len(q) <= Depth,
           NEW r, r = KeepLast(Append(q, e))
    PROVE  /\ r \in Seq(S) /\ Len(r) <= Depth
           /\ Elements(r) \subseteq Elements(q) \cup {e}
<1> DEFINE a == Append(q, e)
<1>1. /\ a \in Seq(S) /\ a # <<>> /\ Len(a) = Len(q) + 1
      /\ a[Len(q) + 1] = e
      /\ \A i \in 1..Len(q) : a[i] = q[i]
  BY AppendProperties
<1>2. Len(q) \in Nat /\ Depth \in Nat
  BY LenProperties, TypeSupportAssumption
<1>3. \A k \in 1..Len(a) : a[k] = e \/ \E j \in 1..Len(q) : a[k] = q[j]
  BY <1>1, <1>2
<1> HIDE DEF a
<1> USE DEF Elements
<1>4. CASE Len(a) > Depth
  <2>1. /\ Tail(a) \in Seq(S) /\ Len(Tail(a)) = Len(a) - 1
        /\ \A i \in 1..Len(Tail(a)) : Tail(a)[i] = a[i + 1]
    BY <1>1, HeadTailProperties
  <2>2. \A i \in 1..Len(Tail(a)) : i + 1 \in 1..Len(a)
    BY <1>1, <1>2, <2>1
  <2>3. Len(Tail(a)) <= Depth
    BY <1>1, <1>2, <2>1
  <2> QED
    BY <1>3, <1>4, <2>1, <2>2, <2>3 DEF KeepLast, a
<1>5. CASE ~(Len(a) > Depth)
  <2>1. Len(a) <= Depth
    BY <1>1, <1>2, <1>5
  <2> QED
    BY <1>1, <1>3, <1>5, <2>1 DEF KeepLast, a
<1> QED
  BY <1>4, <1>5

LEMMA StepFile ==
    ASSUME IInv, File
    PROVE  IInv'
<1> DEFINE e == [payload |-> Head(network), key |-> handle["receiver"],
                 raced |-> "receiver" \in raced]
<1> USE DEF At, Goto, shared
<1>1. Busy("receiver") /\ "receiver" \in Threads
  BY DEF File, Busy, Threads
<1>2. /\ network # <<>> /\ Head(network) \in Small
      /\ data["receiver"] = Head(network).of
  <2>1. network # <<>> /\ Head(network) \in Payloads /\ data["receiver"] = Head(network).of
    BY <1>1, WorksOnSample DEF IInv, WorkInv
  <2>2. pc["receiver"] = "keyed"
    BY DEF File
  <2>3. Length[data["receiver"].color] <= COLOR_MAX_LENGTH
    BY <1>1, <2>2 DEF IInv, WorkInv
  <2> QED
    BY <2>1, <2>3 DEF Small
<1>3. /\ network' \in Seq(Payloads) /\ Len(network') = Len(network) - 1
      /\ Len(network) \in Nat /\ Len(network') \in Nat
  BY <1>2, HeadTailProperties, LenProperties DEF File, IInv, PayloadTypes
<1>4. e \in Entries
  BY <1>1, <1>2 DEF Entries, IInv, ThreadTypes
<1>5. history' = KeepLast(Append(history, e))
  BY DEF File
<1>6. \/ e.key = Key(e.payload.of.color)
      \/ e.raced /\ roles' = {"pub", "sub"}
  <2>1. CASE "receiver" \in raced
    BY <2>1 DEF File, IInv, KeyInv
  <2>2. CASE "receiver" \notin raced
    <3>1. pc["receiver"] = "keyed"
      BY DEF File
    <3>2. handle["receiver"] = Key(data["receiver"].color)
      BY <1>1, <2>2, <3>1 DEF IInv, KeyInv
    <3>3. e.key = handle["receiver"] /\ e.payload.of = data["receiver"]
      BY <1>2
    <3> HIDE DEF e
    <3>4. e.key = Key(e.payload.of.color)
      BY <3>2, <3>3, Zenon
    <3> QED
      BY <3>4
  <2> QED
    BY <2>1, <2>2
<1> HIDE DEF e
<1>7. /\ history' \in Seq(Entries) /\ Len(history') <= Depth
      /\ Elements(history') \subseteq Elements(history) \cup {e}
  <2>1. history \in Seq(Entries) /\ Len(history) <= Depth
    BY DEF IInv, PayloadTypes
  <2>2. history' \in Seq(Entries)
    BY <2>1, <1>4, <1>5, KeptLast
  <2>3. Len(history') <= Depth
    BY <2>1, <1>4, <1>5, KeptLast
  <2>4. Elements(history') \subseteq Elements(history) \cup {e}
    BY <2>1, <1>4, <1>5, KeptLast
  <2> QED
    BY <2>2, <2>3, <2>4
<1>8. ThreadTypes'
  BY DEF File, IInv, ThreadTypes, Pcs
<1>9. PayloadTypes'
  BY <1>3, <1>7, TypeSupportAssumption DEF File, IInv, PayloadTypes
<1>10. pc'["receiver"] = "idle" /\ pc'["main"] = pc["main"]
  BY DEF File, IInv, ThreadTypes, Threads
<1>11. WorkInv'
  BY <1>2, <1>10 DEF File, IInv, WorkInv, Busy, Threads
<1>12. KeyInv'
  BY <1>10 DEF File, IInv, KeyInv, InKey, Threads
<1>13. KeyIsColor'
  <2>1. Filed' \subseteq Filed \cup {e}
    BY <1>7 DEF Filed, Elements
  <2>2. outcome' = outcome /\ roles' = roles
    BY DEF File
  <2> QED
    BY <2>1, <2>2, <1>6 DEF IInv, KeyIsColor, Keyed
<1> QED
  BY <1>8, <1>9, <1>11, <1>12, <1>13 DEF IInv

-----------------------------------------------------------------------------
(* What was put together above holds always. *)
THEOREM Invariance == Spec => []IInv
<1>1. IInv /\ [Next]_vars => IInv'
  <2> SUFFICES ASSUME IInv, [Next]_vars PROVE IInv'
    OBVIOUS
  <2>1. ASSUME NEW t \in Threads, getKey(t) PROVE IInv'
    BY <2>1, StepSerializeKey, StepKeyThrows, StepUpdateDigest, StepCopyDigest
       DEF getKey
  <2>2. ASSUME NEW s \in Samples, Write(s) \/ Arrive(s) PROVE IInv'
    BY <2>2, StepWrite, StepArrive
  <2>3. CASE Serialize \/ Take \/ Receive \/ File
    BY <2>3, StepSerialize, StepTake, StepReceive, StepFile
  <2>4. CASE Ended \/ UNCHANGED vars
    <3>1. UNCHANGED vars
      BY <2>4 DEF Ended
    <3> USE <3>1 DEF vars, shared
    <3>2. ThreadTypes' /\ PayloadTypes'
      BY DEF IInv, ThreadTypes, PayloadTypes
    <3>3. WorkInv'
      BY DEF IInv, WorkInv, Busy
    <3>4. KeyInv'
      BY DEF IInv, KeyInv, InKey
    <3>5. KeyIsColor'
      BY KeyedSame DEF IInv
    <3> QED
      BY <3>2, <3>3, <3>4, <3>5 DEF IInv
  <2> QED
    BY <2>1, <2>2, <2>3, <2>4 DEF Next
<1> QED
  BY InitInv, <1>1, PTL DEF Spec

(* Every payload filed or sent is one of Small.                             *)
LEMMA KeyedSmall == PayloadTypes => \A e \in Keyed : e.payload \in Small
<1> SUFFICES ASSUME PayloadTypes PROVE \A e \in Keyed : e.payload \in Small
  OBVIOUS
<1>1. Filed \subseteq Entries
  BY ElementOfSeq DEF PayloadTypes, Filed
<1>2. outcome.kind = "sent" => outcome.payload \in Small
  BY DEF PayloadTypes, Outcomes, Sent, Thrown
<1> QED
  BY <1>1, <1>2 DEF Keyed, Entries

(* Every payload on its way, filed or sent is that of a sample.             *)
LEMMA AllPayloads == PayloadTypes => InTransit \subseteq Payloads
<1> SUFFICES ASSUME PayloadTypes PROVE InTransit \subseteq Payloads
  OBVIOUS
<1>1. {network[k] : k \in 1..Len(network)} \subseteq Payloads
  BY ElementOfSeq DEF PayloadTypes
<1> QED
  BY <1>1, KeyedSmall, SmallPayloads DEF InTransit

(* No interleaving of the two threads takes a variable out of its type.     *)
THEOREM TypeCorrect == Spec => []TypeOK
<1>1. IInv => TypeOK
  <2> SUFFICES ASSUME IInv PROVE TypeOK
    OBVIOUS
  <2>1. network \in Seq(Payloads) /\ Len(network) <= Depth /\ Len(history) <= Depth
    BY DEF IInv, PayloadTypes
  <2>2. \A e \in Filed : e.payload \in Payloads
    <3>1. Filed \subseteq Entries
      BY ElementOfSeq DEF IInv, PayloadTypes, Filed
    <3> QED
      BY <3>1, SmallPayloads DEF Entries
  <2>3. outcome.kind \in {"none", "sent", "refused", "exception"}
    BY DEF IInv, PayloadTypes, Outcomes, Sent, Thrown
  <2> QED
    BY <2>1, <2>2, <2>3 DEF IInv, ThreadTypes, TypeOK, Pcs, Keys
<1> QED
  BY Invariance, <1>1, PTL

(* Sizes and serialisation agree, for colours of any length and any limit.  *)
THEOREM SizesAlwaysAgree == Spec => []SizesAgree
<1>1. IInv => SizesAgree
  BY AllPayloads, AnyPayload, KeyedSmall, SmallPayloads DEF IInv, SizesAgree
<1> QED
  BY Invariance, <1>1, PTL

(* Whatever is in transit can be read back.                                 *)
THEOREM AlwaysRoundTrip == Spec => []RoundTrip
<1>1. IInv => RoundTrip
  BY AllPayloads, AnyPayload DEF IInv, RoundTrip
<1> QED
  BY Invariance, <1>1, PTL

(* Only a colour longer than the limit fails, on either thread: the getKey  *)
(* of the writing or of the receiving thread ends the process for it, and   *)
(* nothing of such a colour is sent or filed.                               *)
THEOREM FailureIsLongColor == Spec => []OnlyLongColorsFail
<1>1. IInv => OnlyLongColorsFail
  <2> SUFFICES ASSUME IInv PROVE OnlyLongColorsFail
    OBVIOUS
  <2>1. outcome.kind # "refused"
    BY DEF IInv, PayloadTypes, Outcomes, Sent, Thrown
  <2>2. outcome.kind = "exception" => Length[outcome.of.color] > COLOR_MAX_LENGTH
    BY DEF IInv, PayloadTypes, Outcomes, Sent, Thrown, TooLong
  <2>3. \A e \in Keyed : Length[e.payload.of.color] <= COLOR_MAX_LENGTH
    BY KeyedSmall, SmallPayloads DEF IInv
  <2> QED
    BY <2>1, <2>2, <2>3 DEF OnlyLongColorsFail
<1> QED
  BY Invariance, <1>1, PTL

(* Keys are those of the colours unless two threads of a process with both  *)
(* endpoints met in getKey.                                                 *)
THEOREM KeysAreColors == Spec => []KeyIsColor
<1>1. IInv => KeyIsColor
  BY DEF IInv
<1> QED
  BY Invariance, <1>1, PTL

=============================================================================
