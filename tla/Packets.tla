------------------------------- MODULE Packets ------------------------------
(***************************************************************************)
(* The packets to VAS and PFS servers (src/src/pktdef.cpp).  A packet is a  *)
(* row of fields of fixed width without separators.  Most fields are        *)
(* written with sprintf, which adds a terminator and does not cut a value   *)
(* that is too long: both run into the next field, which is written later.  *)
(* The calling number is brought into the form 4-4-4 by Make444, into a     *)
(* buffer without a terminator.                                             *)
(*                                                                         *)
(* A byte is a pair: where it comes from and its position there.  The       *)
(* digits of a calling number are the numbers 0 to 9 for the two that       *)
(* Make444 looks at, and 10 + k for the k-th one otherwise.                 *)
(***************************************************************************)
EXTENDS Integers, Sequences

CONSTANTS Width,      \* field -> width, scaled down from the code's
          Excess,     \* bound: bytes by which a value may exceed its field
          Leading     \* values of the two leading digits: 0, 2 and any other

Header == <<"cIfId", "cBodySize", "cTimestamp">>
EventFields ==
  Header \o <<"cEventType", "cCID", "cCallkey", "cAgentExt", "cAgentId", "cAgentIp", "cReserved">>
NoticeFields == Header \o <<"cEventType", "cResultCode">>

CID_LEN == 12

ASSUME PacketAssumption ==
  /\ Excess \in Nat /\ \A f \in DOMAIN Width : Width[f] \in Nat \ {0}
  /\ \A fields \in {EventFields, NoticeFields} :
       \A i \in 1 .. Len(fields) : fields[i] \in DOMAIN Width
  /\ {0, 2} \subseteq Leading /\ Leading \subseteq 0 .. 9

VARIABLES packet,    \* the bytes written, as a function of the offset
          layout,    \* the fields of the packet, in their order
          length,    \* field -> length of the value that was written
          caller, cid \* a calling number and what Make444 has made of it

pktVars == <<packet, layout, length, caller, cid>>

Terminator == <<"NUL", 0>>
Blank == <<"blank", 0>>

PktInit ==
  /\ packet = <<>>
  /\ layout = <<>>
  /\ length = [f \in DOMAIN Width |-> 0]
  /\ caller = <<>>
  /\ cid = <<>>

-----------------------------------------------------------------------------
(* Writing fields *)

\* The offsets of the fields, and of the end of the packet, counted from 0.
Offsets(fields) ==
  LET at[i \in 0 .. Len(fields)] == IF i = 0 THEN 0 ELSE at[i - 1] + Width[fields[i]]
  IN  at

Offset(fields, i) == Offsets(fields)[i - 1]

\* sprintf("%-*s") of a value of n bytes: blanks up to the width, a terminator.
Printed(f, n) ==
  [k \in 1 .. n |-> <<f, k>>] \o [k \in 1 .. Width[f] - n |-> Blank] \o <<Terminator>>

\* strncpy or an assignment: exactly the bytes of the field.
Copied(f) == [k \in 1 .. Width[f] |-> <<f, k>>]

Bytes(f, n) == IF f \in {"cIfId", "cEventType", "cResultCode"} THEN Copied(f) ELSE Printed(f, n)

\* The bytes at an offset are replaced; the packet grows where they run over it.
Put(bytes, at, old) ==
  [k \in 1 .. (IF at + Len(bytes) > Len(old) THEN at + Len(bytes) ELSE Len(old)) |->
     IF k > at /\ k <= at + Len(bytes) THEN bytes[k - at] ELSE old[k]]

\* Memory that holds anything, as long as the packet.
Memory(fields) == [k \in 1 .. Offset(fields, Len(fields) + 1) |-> <<"old", k>>]

\* Field i is written over what is there.
PutField(fields, len, i, old) == Put(Bytes(fields[i], len[fields[i]]), Offset(fields, i), old)

\* Faulty variant: from the last field to the first.
Fill_backwards(fields, len) ==
  LET p[i \in 0 .. Len(fields)] ==
        IF i = 0 THEN Memory(fields) ELSE PutField(fields, len, Len(fields) + 1 - i, p[i - 1])
  IN  p

\* The packet after each field: all of them, one after the other.
Fill(fields, len) ==
  LET p[i \in 0 .. Len(fields)] ==
        IF i = 0 THEN Memory(fields) ELSE PutField(fields, len, i, p[i - 1])
  IN  p

-----------------------------------------------------------------------------
(* The calling number *)

Zeros(n) == [k \in 1 .. n |-> 0]
First(s, n) == SubSeq(s, 1, n)
From(s, n) == SubSeq(s, n + 1, Len(s))

\* Faulty variant: a Seoul number is split like any other.
Make444_area(org) ==
  LET local == IF org # <<>> /\ Head(org) = 0 THEN org ELSE <<0>> \o org
      len   == Len(local)
  IN  IF Len(org) >= 12 THEN First(org, 12)
      ELSE IF len >= 12 THEN First(local, 12)
      ELSE IF len = 11 THEN <<0>> \o local
      ELSE IF len = 10 THEN <<0>> \o First(local, 3) \o <<0>> \o From(local, 3)
      ELSE IF len = 9 THEN <<0, 0>> \o First(local, 2) \o <<0>> \o From(local, 2)
      ELSE Zeros(CID_LEN - len) \o local

Make444(org) ==
  LET local == IF org # <<>> /\ Head(org) = 0 THEN org ELSE <<0>> \o org
      len   == Len(local)
  IN  IF Len(org) >= 12 THEN First(org, 12)
      ELSE IF len >= 12 THEN First(local, 12)
      ELSE IF len = 11 THEN <<0>> \o local
      ELSE IF len = 10
             THEN IF local[2] # 2
                    THEN <<0>> \o First(local, 3) \o <<0>> \o From(local, 3)
                    ELSE <<0, 0>> \o local
      ELSE IF len = 9 THEN <<0, 0>> \o First(local, 2) \o <<0>> \o From(local, 2)
      ELSE Zeros(CID_LEN - len) \o local

\* Calling numbers of n digits.
CallingNumber(n) ==
  {[k \in 1 .. n |-> IF k <= 2 THEN lead[k] ELSE 10 + k] : lead \in [1 .. 2 -> Leading]}

-----------------------------------------------------------------------------
(* The packets *)

\* Fields whose values vary in length: those that the CTI server has sent, and the
\* calling number, behind which lies what happens to be on the stack.
Varying == {"cCID", "cCallkey", "cAgentExt", "cAgentId", "cAgentIp"}

\* The lengths of all values: for the varying ones empty, or too long.
Lengths ==
  {[f \in DOMAIN Width |-> IF f \notin Varying THEN Width[f]
                           ELSE IF f \in long THEN Width[f] + Excess
                           ELSE IF f = "cCID" THEN Width[f] ELSE 0] : long \in SUBSET Varying}

MakeScsEvent(number, l) ==
  /\ layout = <<>>
  /\ caller' = number
  /\ cid' = Make444(number)
  /\ layout' = EventFields
  /\ length' = l
  /\ packet' = Fill(EventFields, l)[Len(EventFields)]

\* MakePfsChange, MakeVasChange and MakeHealthCheck differ in constants only.
MakeNotice ==
  /\ layout = <<>>
  /\ layout' = NoticeFields
  /\ length' = [f \in DOMAIN Width |-> Width[f]]
  /\ packet' = Fill(NoticeFields, length')[Len(NoticeFields)]
  /\ UNCHANGED <<caller, cid>>

PktNext ==
  \/ \E n \in 0 .. 13 : \E number \in CallingNumber(n), l \in Lengths : MakeScsEvent(number, l)
  \/ MakeNotice

PktSpec == PktInit /\ [][PktNext]_pktVars

-----------------------------------------------------------------------------
(* Properties *)

\* What field i of a packet should hold: its value, cut or padded to its width.
Field(f, n) ==
  [k \in 1 .. Width[f] |-> IF k <= n THEN <<f, k>> ELSE Blank]

\* Every field of a packet holds its own value, cut or padded to its width, however
\* long the values are and whatever lies behind the calling number: what runs over
\* is written over, and no terminator remains inside.
FieldsKept ==
  \A i \in 1 .. Len(layout) :
    SubSeq(packet, Offset(layout, i) + 1, Offset(layout, i + 1)) =
      Field(layout[i], length[layout[i]])

\* A group of digits, padded to four.
Group(s) == Zeros(4 - Len(s)) \o s

\* A telephone number has an area code (02 for Seoul, otherwise three digits with
\* the leading 0, which may be left out), three or four digits, and four digits.
Split(number) ==
  LET n    == IF Head(number) = 0 THEN number ELSE <<0>> \o number
      area == IF n[2] = 2 THEN 2 ELSE 3
  IN  <<First(n, area), SubSeq(n, area + 1, Len(n) - 4), From(n, Len(n) - 4)>>

\* A calling number that is a telephone number is sent as area code, exchange and
\* line, each with four digits; a shorter one keeps its value; and there are always
\* twelve digits, so that nothing of the buffer is left unwritten.
CidSplit ==
  cid # <<>> =>
    /\ Len(cid) = CID_LEN
    /\ Len(caller) >= 8 /\ Len(caller) <= 11 =>
         LET g == Split(caller)
         IN  Len(g[2]) \in {3, 4} => cid = Group(g[1]) \o Group(g[2]) \o Group(g[3])
    /\ Len(caller) < 8 => From(cid, CID_LEN - Len(caller)) = caller

\* An event is formed right: its fields and its calling number.
PacketRight == FieldsKept /\ CidSplit
=============================================================================
