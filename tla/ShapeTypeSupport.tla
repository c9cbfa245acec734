--------------------------- MODULE ShapeTypeSupport ---------------------------
(* The type support of the eProsima program: ShapeType and                  *)
(* ShapeTypePubSubType of srcCxx/eprosima_fastrtps, as the middleware calls *)
(* them for a process with a publisher, a subscriber or both.  There is one *)
(* ShapeTypePubSubType in the process (m_type of ShapeType_main.cpp): the   *)
(* main thread, which writes and takes, and the receiving thread share its  *)
(* m_keyBuffer and m_md5.                                                   *)
(*                                                                          *)
(* A colour is a value with a length; a payload is the sequence of what was *)
(* put into it, each item with the offset it was put at.  The byte order is *)
(* left out: it travels with the payload.                                   *)
EXTENDS Integers, Sequences, FiniteSets

CONSTANTS
    Colors,            \* the colours -color may name, here and at a peer
    Length,            \* the length of each
    COLOR_MAX_LENGTH,
    Samples,           \* the samples written, here and by a peer
    Depth              \* payloads the reader's history, and the network, hold

ShapeType == [color : Colors, x : Int, y : Int, shapesize : Int]

ASSUME TypeSupportAssumption ==
    /\ Length \in [Colors -> Nat]
    /\ COLOR_MAX_LENGTH \in Nat
    /\ Samples \subseteq ShapeType
    /\ Depth \in Nat

-----------------------------------------------------------------------------
(* Sizes. *)

(* Cdr::alignment: the padding before an item of 4 bytes. *)
alignment(at) == (4 - (at % 4)) % 4

Aligned(at)        == at + alignment(at)
AfterLong(at)      == Aligned(at) + 4
AfterString(at, n) == AfterLong(at) + n + 1

(* Mutant: no room for the NUL that ends the text. *)
MaxEndMutant(at) == AfterLong(AfterLong(AfterLong(AfterString(at, COLOR_MAX_LENGTH) - 1)))

MaxEnd(at) == AfterLong(AfterLong(AfterLong(AfterString(at, COLOR_MAX_LENGTH))))
getMaxCdrSerializedSize(current_alignment) == MaxEnd(current_alignment) - current_alignment

(* Mutant: the padding after the text is forgotten. *)
getCdrSerializedSizeMutant(data, current_alignment) ==
    AfterString(current_alignment, Length[data.color]) + 12 - current_alignment

getCdrSerializedSize(data, current_alignment) ==
    AfterLong(AfterLong(AfterLong(AfterString(current_alignment, Length[data.color]))))
      - current_alignment

(* The end, not the size: the same for the alignment of 0 it is called with. *)
getKeyMaxCdrSerializedSize(current_alignment) ==
    AfterString(current_alignment, COLOR_MAX_LENGTH)

Encapsulation == 4
m_typeSize    == getMaxCdrSerializedSize(0) + Encapsulation

-----------------------------------------------------------------------------
(* Serialisation.  A stream begins behind the encapsulation. *)

Empty == [end |-> 0, items |-> <<>>]

(* The item at the next multiple of 4. *)
Put(stream, size, item) ==
    [end   |-> Aligned(stream.end) + size,
     items |-> Append(stream.items, [at |-> Aligned(stream.end), is |-> item])]

PutColor(stream, color) == Put(stream, 4 + Length[color] + 1, color)

serialize(data) ==
    Put(Put(Put(PutColor(Empty, data.color), 4, data.x), 4, data.y), 4, data.shapesize)

(* The item of a payload that stands at an offset, if one does. *)
Read(items, k, at) == IF items[k].at = at THEN items[k].is ELSE "garbled"

(* Mutant: x and y are read in the wrong order. *)
deserializeMutant(items) ==
    LET color == Read(items, 1, 0)
        x == Read(items, 2, Aligned(4 + Length[color] + 1))
        y == Read(items, 3, Aligned(4 + Length[color] + 1) + 4)
    IN  [color |-> color, x |-> y, y |-> x,
         shapesize |-> Read(items, 4, Aligned(4 + Length[color] + 1) + 8)]

deserialize(items) ==
    LET color == Read(items, 1, 0)
        x     == Aligned(4 + Length[color] + 1)
    IN  [color     |-> color,
         x         |-> Read(items, 2, x),
         y         |-> Read(items, 3, x + 4),
         shapesize |-> Read(items, 4, x + 8)]

(* What serialize() makes of a sample; "of" remembers the sample. *)
Payload(s) ==
    [items |-> serialize(s).items, length |-> serialize(s).end + Encapsulation, of |-> s]

-----------------------------------------------------------------------------
Threads == {"main", "receiver"}
Other(t) == IF t = "main" THEN "receiver" ELSE "main"
None    == [color |-> "none"]

VARIABLES
    roles,          \* the endpoints of the process: "pub", "sub"
    pc,             \* where each thread stands
    data,           \* the sample each thread works on
    handle,         \* the key each thread's getKey has computed
    m_keyBuffer,    \* the colour last serialised into the buffer
    m_md5,          \* what was last digested
    raced,          \* history: the threads whose last getKey met the other's
    network,        \* payloads on their way to the reader
    history,        \* payloads in the reader, with the keys they are filed under
    outcome         \* what became of the last write, or ended the process

shared == <<m_keyBuffer, m_md5>>
vars == <<roles, pc, data, handle, shared, raced, network, history, outcome>>

(* What getKey makes of a colour nobody disturbs: the digest of as much of  *)
(* the buffer as the colour fills.                                          *)
Digest(color, n) == [of |-> color, length |-> n]
Key(color)       == Digest(color, Length[color])
NoKey            == [of |-> "none", length |-> 0]

Init ==
    /\ roles \in {{"pub"}, {"sub"}, {"pub", "sub"}}
    /\ pc = [t \in Threads |-> "idle"]
    /\ data = [t \in Threads |-> None]
    /\ handle = [t \in Threads |-> NoKey]
    /\ m_keyBuffer = "none" /\ m_md5 = NoKey
    /\ raced = {}
    /\ network = <<>> /\ history = <<>>
    /\ outcome = [kind |-> "none"]

At(t, label) == pc[t] = label
Goto(t, label) == pc' = [pc EXCEPT ![t] = label]
InKey(t) == pc[t] \in {"digest", "copy"}

-----------------------------------------------------------------------------
(* getKey, on either thread. *)

KeyFits(color) == PutColor(Empty, color).end <= getKeyMaxCdrSerializedSize(0)

SerializeKey(t) ==
    /\ At(t, "getKey")
    /\ KeyFits(data[t].color)
    /\ m_keyBuffer' = data[t].color
    /\ raced' = IF InKey(Other(t)) THEN Threads ELSE raced \ {t}
    /\ Goto(t, "digest")
    /\ UNCHANGED <<roles, data, handle, m_md5, network, history, outcome>>

(* Nothing catches the exception of a colour that does not fit. *)
KeyThrows(t) ==
    /\ At(t, "getKey")
    /\ ~KeyFits(data[t].color)
    /\ pc' = [u \in Threads |-> "terminated"]
    /\ outcome' = [kind |-> "exception", of |-> data[t], by |-> t]
    /\ UNCHANGED <<roles, data, handle, shared, raced, network, history>>

(* Mutant: the whole buffer is digested, with what a longer colour left. *)
UpdateDigestMutant(t) ==
    /\ At(t, "digest")
    /\ m_md5' = Digest(m_keyBuffer, getKeyMaxCdrSerializedSize(0))
    /\ Goto(t, "copy")
    /\ UNCHANGED <<roles, data, handle, m_keyBuffer, raced, network, history, outcome>>

UpdateDigest(t) ==
    /\ At(t, "digest")
    /\ m_md5' = Digest(m_keyBuffer, Length[data[t].color])
    /\ Goto(t, "copy")
    /\ UNCHANGED <<roles, data, handle, m_keyBuffer, raced, network, history, outcome>>

CopyDigest(t) ==
    /\ At(t, "copy")
    /\ handle' = [handle EXCEPT ![t] = m_md5]
    /\ Goto(t, "keyed")
    /\ UNCHANGED <<roles, data, shared, raced, network, history, outcome>>

getKey(t) == SerializeKey(t) \/ KeyThrows(t) \/ UpdateDigest(t) \/ CopyDigest(t)

-----------------------------------------------------------------------------
(* The main thread writes and takes. *)

Write(s) ==
    /\ "pub" \in roles
    /\ At("main", "idle")
    /\ data' = [data EXCEPT !["main"] = s]
    /\ Goto("main", "getKey")
    /\ UNCHANGED <<roles, handle, shared, raced, network, history, outcome>>

(* The payload has the room of the largest sample, or of this one: that is  *)
(* the middleware's choice.  run() does not look at the result.             *)
Serialize ==
    LET p == Payload(data["main"])
    IN  /\ At("main", "keyed")
        /\ \E room \in {m_typeSize, getCdrSerializedSize(data["main"], 0) + Encapsulation} :
              outcome' = IF p.length <= room
                           THEN [kind |-> "sent", payload |-> p, key |-> handle["main"],
                                 raced |-> "main" \in raced]
                           ELSE [kind |-> "refused", of |-> data["main"]]
        /\ Goto("main", "idle")
        /\ UNCHANGED <<roles, data, handle, shared, raced, network, history>>

Take ==
    /\ At("main", "idle")
    /\ history # <<>>
    /\ data' = [data EXCEPT !["main"] = deserialize(Head(history).payload.items)]
    /\ history' = Tail(history)
    /\ UNCHANGED <<roles, pc, handle, shared, raced, network, outcome>>

-----------------------------------------------------------------------------
(* The receiving thread files a payload under its key. *)

(* A peer may send any colour: the IDL of srcJava sets no limit, and        *)
(* IShapesMain.java writes whatever -color names.  The middleware may turn  *)
(* a payload longer than m_typeSize away, or not.                           *)
Arrive(s) ==
    /\ "sub" \in roles
    /\ Len(network) < Depth
    /\ network' = Append(network, Payload(s))
    /\ UNCHANGED <<roles, pc, data, handle, shared, raced, history, outcome>>

(* A payload that comes without its key is deserialised to compute it. *)
Receive ==
    /\ At("receiver", "idle")
    /\ network # <<>>
    /\ data' = [data EXCEPT !["receiver"] = deserialize(Head(network).items)]
    /\ Goto("receiver", "getKey")
    /\ UNCHANGED <<roles, handle, shared, raced, network, history, outcome>>

(* Mutant: the oldest payload is kept when the history is full. *)
KeepLastMutant(seq) == seq

(* A full history gives up its oldest payload. *)
KeepLast(seq) == IF Len(seq) > Depth THEN Tail(seq) ELSE seq

File ==
    /\ At("receiver", "keyed")
    /\ history' = KeepLast(Append(history,
                     [payload |-> Head(network), key |-> handle["receiver"],
                      raced |-> "receiver" \in raced]))
    /\ network' = Tail(network)
    /\ Goto("receiver", "idle")
    /\ UNCHANGED <<roles, data, handle, shared, raced, outcome>>

Ended == At("main", "terminated") /\ UNCHANGED vars

Next ==
    \/ \E t \in Threads : getKey(t)
    \/ \E s \in Samples : Write(s) \/ Arrive(s)
    \/ Serialize \/ Take \/ Receive \/ File
    \/ Ended

Spec == Init /\ [][Next]_vars

-----------------------------------------------------------------------------
(* Properties. *)

Filed == {history[k] : k \in 1..Len(history)}
Keyed == Filed \cup IF outcome.kind = "sent" THEN {outcome} ELSE {}
Payloads == {Payload(s) : s \in Samples}
InTransit == {network[k] : k \in 1..Len(network)} \cup {e.payload : e \in Keyed}

(* Every variable keeps its type (ShapeTypePubSubType and its callers). *)
TypeOK ==
    /\ roles \in {{"pub"}, {"sub"}, {"pub", "sub"}}
    /\ pc \in [Threads -> {"idle", "getKey", "digest", "copy", "keyed", "terminated"}]
    /\ data \in [Threads -> Samples \cup {None}]
    /\ handle \in [Threads -> [of : Colors \cup {"none"}, length : Nat]]
    /\ m_keyBuffer \in Colors \cup {"none"}
    /\ m_md5 \in [of : Colors \cup {"none"}, length : Nat]
    /\ raced \subseteq Threads
    /\ network \in Seq(Payloads) /\ Len(network) <= Depth
    /\ Len(history) <= Depth
    /\ \A e \in Filed : e.payload \in Payloads
    /\ outcome.kind \in {"none", "sent", "refused", "exception"}

(* The sizes computed apart from the serialisation agree with it: what was  *)
(* written is as long as getCdrSerializedSize says, and what this process   *)
(* sent or filed fits m_typeSize (ShapeType.cpp 85 to 124,                  *)
(* ShapeTypePubSubTypes.cpp 32 to 64).                                      *)
SizesAgree ==
    /\ \A p \in InTransit : p.length = getCdrSerializedSize(p.of, 0) + Encapsulation
    /\ \A e \in Keyed : e.payload.length <= m_typeSize

(* A sample fails exactly for a colour longer than the IDL file allows, and *)
(* then by the exception of getKey, which nothing catches: out of write()   *)
(* for one of the process's own, and on the receiving thread for a peer's.  *)
(* What is sent or filed has no such colour, what ends the process has one, *)
(* and serialize() is never the one to refuse (ShapeTypePubSubTypes.cpp 49  *)
(* to 64 and 106 to 109, main 252).                                         *)
OnlyLongColorsFail ==
    /\ outcome.kind # "refused"
    /\ \A e \in Keyed : Length[e.payload.of.color] <= COLOR_MAX_LENGTH
    /\ outcome.kind = "exception" => Length[outcome.of.color] > COLOR_MAX_LENGTH

(* What is deserialised is the sample that was serialised, for every        *)
(* padding its colour leads to (ShapeType.cpp 118 to 132).                  *)
RoundTrip == \A p \in InTransit : deserialize(p.items) = p.of

(* "@Key string<COLOR_MAX_LENGTH> color" (ShapeType.idl 4): samples are     *)
(* filed and sent under the key of their own colour, unless the process has *)
(* both endpoints and its two threads were in getKey at the same time       *)
(* (ShapeTypePubSubTypes.cpp 102 to 125, main 55).                          *)
KeyIsColor ==
    \A e \in Keyed :
        \/ e.key = Key(e.payload.of.color)
        \/ e.raced /\ roles = {"pub", "sub"}
=============================================================================
