--------------------------------- MODULE Wire ---------------------------------
(***************************************************************************)
(* The codec of apis/seata.pb.go: Size, Marshal and Unmarshal of every     *)
(* message type, byte by byte.  A message is encoded; what arrives is the  *)
(* encoding, a part of it, the encoding of a newer version with a field    *)
(* more, or arbitrary bytes; it is decoded one field at a time.            *)
(*                                                                         *)
(* The words are narrower than 64 and 32 bits, the groups of 7 bits and    *)
(* the tags are as in the code.                                            *)
(***************************************************************************)
EXTENDS Messages, FiniteSets, FiniteSetsExt, SequencesExt

CONSTANTS
  WordBits, HalfBits,     \* 64 and 32, scaled down; at least 8
  Nil,                    \* no message
  Garbage, MaxGarbage     \* bytes of arbitrary input, and how many of them

ASSUME BitsAssumption == WordBits \in 8 .. 24 /\ HalfBits \in 8 .. WordBits
ASSUME GarbageAssumption == Garbage \subseteq 0 .. 255 /\ MaxGarbage \in Nat

VARIABLES
  type, sent,    \* what is encoded
  origin,        \* what became of the encoding: plain, cut, extended or garbage
  data,          \* dAtA, the bytes that arrived
  iNdEx,         \* how many of them have been read
  got,           \* the message, as far as it has been decoded
  depth,         \* nesting of groups while skipSeata is at work, and its start
  status

vars == <<type, sent, origin, data, iNdEx, got, depth, status>>

-----------------------------------------------------------------------------
(* Numbers. *)

Unsigned(x) == x % 2^WordBits
\* the conversions from uint64 to int64, and to int32 and the enumerations
Signed(u, bits) == LET v == u % 2^bits IN IF v < 2^(bits - 1) THEN v ELSE v - 2^bits

\* as many groups of 7 bits as a word has: shifts below WordBits
MaxGroups == (WordBits + 6) \div 7

\* variant: rounded down, one group too few for a number that needs two
SovShort(u) == Max({1} \cup {k \in 1 .. MaxGroups : 2^(7 * k) <= u})

\* sovSeata: the groups that are needed
Sov(u) == Min({k \in 1 .. MaxGroups : u < 2^(7 * k)})

\* encodeVarintSeata: a group to a byte, the lowest first, all but the last with the high bit
Varint(u) ==
  LET n == Min({k \in 1 .. MaxGroups : u \div 2^(7 * k) = 0}) IN
  [k \in 1 .. n |-> ((u \div 2^(7 * (k - 1))) % 128) + (IF k < n THEN 128 ELSE 0)]

-----------------------------------------------------------------------------
(* Size and Marshal. *)

WireType(kind) == IF kind \in {Bytes, Embedded} THEN 2 ELSE 0
Tag(num, wire) == num * 8 + wire
Default(kind) == CASE kind = Bytes -> <<>>
                   [] kind = Embedded -> Nil
                   [] kind = Bool -> FALSE
                   [] OTHER -> 0
Zero(t) == [n \in DOMAIN t |-> Default(t[n])]

Number(kind, v) == IF kind = Bool THEN (IF v THEN 1 ELSE 0) ELSE Unsigned(v)

\* a field with its default value is not written
MarshalField(num, kind, v) ==
  CASE v = Default(kind) -> <<>>
    [] WireType(kind) = 2 -> <<Tag(num, 2)>> \o Varint(Len(v)) \o v
    [] OTHER -> <<Tag(num, 0)>> \o Varint(Number(kind, v))

Marshal(t, m) == FlattenSeq([n \in DOMAIN t |-> MarshalField(n, t[n], m[n])])

SizeField(kind, v) ==
  CASE v = Default(kind) -> 0
    [] WireType(kind) = 2 -> 1 + Len(v) + Sov(Len(v))
    [] kind = Bool -> 2
    [] OTHER -> 1 + Sov(Unsigned(v))

Size(t, m) == SumFunction([n \in DOMAIN t |-> SizeField(t[n], m[n])])

-----------------------------------------------------------------------------
(* What is sent, and what arrives. *)

AnyContent == <<10, 0, 18, 0>>

Samples(kind) ==
  CASE kind = Bytes -> {<<>>, <<255, 8>>}
    [] kind = Int64 -> {0, 127, 128, -1}
    [] kind = Int32 -> {0, 1, -2}
    [] kind = Bool -> BOOLEAN
    [] kind = Embedded -> {Nil, <<>>, AnyContent}
    [] IsEnum(kind) -> {0, 1, Max(EnumOf(kind))}

\* messages with all fields set, or at most two
Messages(t) ==
  {[n \in DOMAIN t |-> CHOOSE v \in Samples(t[n]) : v # Default(t[n])]} \cup
  UNION {{[Zero(t) EXCEPT ![n] = v, ![k] = w] : v \in Samples(t[n]), w \in Samples(t[k])} :
         n \in DOMAIN t, k \in DOMAIN t}

\* a field of a newer version, of every wire type, the group with one inside
Extras(t) ==
  LET n == Len(t) + 1 IN
  {<<Tag(n, 0)>> \o Varint(300), <<Tag(n, 1), 1, 2, 3, 4, 5, 6, 7, 8>>, <<Tag(n, 2), 2, 255, 8>>,
   <<Tag(n, 3), Tag(n, 3), Tag(1, 0), 9, Tag(n, 4), Tag(n, 4)>>, <<Tag(n, 5), 1, 2, 3, 4>>}

Arrivals(t, m) ==
  LET all == Marshal(t, m)
      First(p) == Marshal(SubSeq(t, 1, p), m)
  IN
  [plain |-> {all},
   cut |-> {SubSeq(all, 1, k) : k \in 0 .. Len(all) - 1},
   extended |-> {First(p) \o x \o SubSeq(all, Len(First(p)) + 1, Len(all)) :
                   p \in 0 .. Len(t), x \in Extras(t)}]

NotSkipping == -1

Init ==
  /\ type = <<>> /\ sent = <<>> /\ origin = "plain" /\ data = <<>> /\ iNdEx = 0
  /\ got = <<>> /\ depth = NotSkipping /\ status = "idle"

Arrive(t, m, o, bytes) ==
  /\ status = "idle" /\ status' = "decoding"
  /\ type' = t /\ sent' = m /\ origin' = o /\ data' = bytes /\ got' = Zero(t)
  /\ UNCHANGED <<iNdEx, depth>>

-----------------------------------------------------------------------------
(* Unmarshal. *)

\* the varint that begins after i bytes: whether it ends in time, its value, and where it ends
ReadVarint(i) ==
  LET ends == {k \in 1 .. MaxGroups : i + k <= Len(data) /\ data[i + k] < 128}
      n == Min(ends)
  IN
  IF ends = {} THEN [ok |-> FALSE, value |-> 0, next |-> i]
  ELSE [ok |-> TRUE, next |-> i + n,
        value |-> Unsigned(SumFunction([k \in 1 .. n |-> (data[i + k] % 128) * 2^(7 * (k - 1))]))]

Decoding == status = "decoding" /\ iNdEx < Len(data)
Fail == status' = "error" /\ UNCHANGED <<type, sent, origin, data, iNdEx, got, depth>>
Take(num, v, next) ==
  /\ got' = [got EXCEPT ![num] = v] /\ iNdEx' = next
  /\ UNCHANGED <<type, sent, origin, data, depth, status>>

Convert(kind, u) == CASE kind = Bool -> u # 0
                      [] kind = Int64 -> Signed(u, WordBits)
                      [] OTHER -> Signed(u, HalfBits)

\* case of a number: the value, unless the varint is not well-formed
VarintField(num, at) ==
  LET r == ReadVarint(at) IN
  IF r.ok THEN Take(num, Convert(type[num], r.value), r.next) ELSE Fail

\* variant: takes what there is
BytesFieldUnchecked(num, at) ==
  LET r == ReadVarint(at) IN
  IF ~r.ok THEN Fail
  ELSE Take(num, SubSeq(data, r.next + 1, Min({r.next + r.value, Len(data)})),
            Min({r.next + r.value, Len(data)}))

\* case of a string, of bytes or of Embedded, whose own Unmarshal merges and may refuse its bytes
BytesField(num, at) ==
  LET r == ReadVarint(at)
      post == r.next + r.value
      content == SubSeq(data, r.next + 1, post)
  IN
  IF ~r.ok \/ Signed(r.value, WordBits) < 0 \/ post > Len(data) THEN Fail
  ELSE \/ Take(num, IF type[num] = Embedded /\ content = <<>> /\ got[num] # Nil THEN got[num] ELSE content, post)
       \/ type[num] = Embedded /\ content \notin {<<>>, AnyContent} /\ Fail

\* one turn of the loop of Unmarshal
Field ==
  LET tag == ReadVarint(iNdEx)
      num == Signed(tag.value \div 8, HalfBits)
      wire == tag.value % 8
      bad == \/ ~tag.ok
             \/ wire = 4
             \/ num <= 0
             \/ num \in DOMAIN type /\ wire # WireType(type[num])
  IN
  /\ Decoding /\ depth = NotSkipping
  /\ CASE bad -> Fail
       [] ~bad /\ num \notin DOMAIN type ->
            depth' = 0 /\ UNCHANGED <<type, sent, origin, data, iNdEx, got, status>>
       [] ~bad /\ num \in DOMAIN type /\ wire = 0 -> VarintField(num, tag.next)
       [] ~bad /\ num \in DOMAIN type /\ wire = 2 -> BytesField(num, tag.next)

\* variant: a fixed32 is left where it is
SkipToStuck(wire, at, r) == CASE wire = 0 -> r.next
                              [] wire = 1 -> at + 8
                              [] wire = 2 -> r.next + r.value
                              [] wire = 5 -> iNdEx
                              [] OTHER -> at

\* the end of an element of which the tag ends at `at' and the varint after it is r
SkipTo(wire, at, r) == CASE wire = 0 -> r.next
                         [] wire = 1 -> at + 8
                         [] wire = 2 -> r.next + r.value
                         [] wire = 5 -> at + 4
                         [] OTHER -> at

\* variant: groups are taken for empty
DepthFlat(wire) == 0

\* starts of groups less ends
DepthAfter(wire) == CASE wire = 3 -> depth + 1 [] wire = 4 -> depth - 1 [] OTHER -> depth

\* variant: the end that was skipped to is not looked at
OverrunsNever(next) == FALSE

Overruns(next) == next > Len(data)

\* one turn of the loop of skipSeata, and what Unmarshal does when it returns
Skip ==
  LET tag == ReadVarint(iNdEx)
      wire == tag.value % 8
      r == ReadVarint(tag.next)
      next == SkipTo(wire, tag.next, r)
      d == DepthAfter(wire)
      bad == \/ ~tag.ok
             \/ wire \in {6, 7}
             \/ d < 0
             \/ wire \in {0, 2} /\ ~r.ok
             \/ wire = 2 /\ Signed(r.value, WordBits) < 0
             \/ Overruns(next)
             \/ next = Len(data) /\ d > 0
  IN
  /\ Decoding /\ depth # NotSkipping
  /\ IF bad THEN Fail
     ELSE /\ iNdEx' = next /\ depth' = IF d = 0 THEN NotSkipping ELSE d
          /\ UNCHANGED <<type, sent, origin, data, got, status>>

\* the end of Unmarshal
Done ==
  /\ status = "decoding" /\ iNdEx >= Len(data)
  /\ status' = IF iNdEx > Len(data) THEN "error" ELSE "done"
  /\ UNCHANGED <<type, sent, origin, data, iNdEx, got, depth>>

\* the connection goes on with another message
Rest ==
  /\ status \in {"done", "error"}
  /\ type' = <<>> /\ sent' = <<>> /\ origin' = "plain" /\ data' = <<>> /\ iNdEx' = 0
  /\ got' = <<>> /\ depth' = NotSkipping /\ status' = "idle"

Send(t, m) ==
  LET arrivals == Arrivals(t, m) IN
  \E o \in {"plain", "cut", "extended"} : \E bytes \in arrivals[o] : Arrive(t, m, o, bytes)

SendGarbage(t) ==
  \E n \in 1 .. MaxGarbage : \E bytes \in [1 .. n -> Garbage] : Arrive(t, Zero(t), "garbage", bytes)

Next ==
  \/ status = "idle" /\ \E t \in MessageTypes : SendGarbage(t) \/ \E m \in Messages(t) : Send(t, m)
  \/ Field \/ Skip \/ Done \/ Rest

Spec == Init /\ [][Next]_vars

-----------------------------------------------------------------------------
(* Properties. *)

\* The buffer that Marshal allocates by Size is filled exactly: it writes backwards, from the end.
SizeIsExact == Len(Marshal(type, sent)) = Size(type, sent)

\* A message is decoded as it was sent, also by a receiver that does not know all its fields.
RoundTrip ==
  origin \in {"plain", "extended"} /\ status \in {"done", "error"} => status = "done" /\ got = sent

\* A message of which a part is missing is refused, or it lacks its last fields: no field is
\* decoded from some of its bytes.
NoPartOfAField ==
  origin = "cut" /\ status = "done" =>
    \E k \in 0 .. Len(type) : got = [n \in DOMAIN type |-> IF n <= k THEN sent[n] ELSE Default(type[n])]

\* No byte after the end is read, and a message is accepted only when all bytes are used up.
InBounds == iNdEx <= Len(data) /\ (status = "done" => iNdEx = Len(data))

\* Whatever arrives, every turn of a loop of the decoder reads on, goes over to skipping, or ends;
\* that one of them is possible until the end is what the check for deadlocks shows.
AlwaysAdvances ==
  [][\/ status' # status
     \/ iNdEx' > iNdEx
     \/ depth = NotSkipping /\ depth' = 0]_vars

=============================================================================
