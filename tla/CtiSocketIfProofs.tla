-------------------------- MODULE CtiSocketIfProofs -------------------------
(***************************************************************************)
(* Proof that the framing of CtiSocketIf is kept, for bodies of any length, *)
(* any number of messages and failures, and every way in which the stream   *)
(* is cut up: FramingKept.                                                  *)
(***************************************************************************)
EXTENDS CtiSocketIf, SequenceTheorems, TLAPS

\* Messages and units without the bounds of an instance.
AnyMessage == [no : Nat, len : Nat, type : Types]
AnyUnit == [of : AnyMessage, part : Nat]

\* The types of the variables that the framing depends on.
SocketTypes ==
  /\ nMsg \in Nat
  /\ mhdr \in [len : Nat, type : Types]
  /\ total_rcvd_bytes \in Int
  /\ stream \in Seq(AnyUnit) /\ rest \in Seq(AnyUnit)
  /\ sent \in Seq(AnyMessage)
  /\ got \in Seq(Seq(AnyUnit))
  /\ disturbed \in BOOLEAN
  /\ ~disturbed => hdr \in Seq(AnyUnit) /\ buf \in Seq(AnyUnit)

\* The units of the connection that have not been handed on: those of the message
\* that is being read, those that have arrived, those to come.
Wire == (hdr \o buf) \o (stream \o rest)

\* A unit that begins a message is followed by the units of that message, and then
\* by the beginning of a later one.
Framed(T, n) ==
  /\ T # <<>> => T[1].part = 0
  /\ \A k \in 1 .. Len(T) : T[k].of.no <= n
  /\ \A k \in 1 .. Len(T) : T[k].part = 0 =>
       /\ \A p \in 0 .. T[k].of.len + 1 : k + p <= Len(T) => T[k + p] = [of |-> T[k].of, part |-> p]
       /\ k + T[k].of.len + 2 <= Len(T) => T[k + T[k].of.len + 2].part = 0
       /\ \A j \in 1 .. k - 1 : T[j].part = 0 => T[j].of.no < T[k].of.no

\* The last message is whole.
Whole(T) == \A k \in 1 .. Len(T) : T[k].part = 0 => k + T[k].of.len + 1 <= Len(T)

\* Message m begins on the wire.
Begins(T, m) == \E k \in 1 .. Len(T) : T[k].part = 0 /\ T[k].of = m

\* The events that begin on the wire are sent ones that the queue, which has got g,
\* has not got, and of those only the last may be missing.
Owed(T, s, g) ==
  /\ \A k \in 1 .. Len(T) : T[k].part = 0 /\ T[k].of.type = "event" =>
       \E i \in g + 1 .. Len(s) : T[k].of = s[i]
  /\ \A i \in g + 1 .. Len(s) : i < Len(s) => Begins(T, s[i])

\* None of them is missing.
Complete(T, s, g) == \A i \in g + 1 .. Len(s) : Begins(T, s[i])

\* Messages are numbered in the order they are sent.
Numbered(s, n) ==
  /\ \A i \in 1 .. Len(s) : s[i].type = "event" /\ s[i].no <= n
  /\ \A j \in 1 .. Len(s) : \A i \in 1 .. j - 1 : s[i].no < s[j].no

\* An event that is still being sent is the last one.
RestOK ==
  \A k \in 1 .. Len(rest) : rest[k].of.type = "event" => sent # <<>> /\ rest[k].of = sent[Len(sent)]

\* What is still being sent is the rest of one message: of its header both units,
\* or the second, or none.
RestShape ==
  /\ \A k \in 2 .. Len(rest) : rest[k].part # 0
  /\ rest # <<>> /\ rest[1].part = 0 => Len(rest) >= 2

\* What the queue has got.
GotOK == Len(got) <= Len(sent) /\ \A i \in 1 .. Len(got) : got[i] = Units(sent[i])

\* The header and the part of the body that have been read.
Reading ==
  pc = "body" =>
    /\ Len(hdr) = 2
    /\ mhdr = [len |-> hdr[1].of.len, type |-> hdr[1].of.type]
    /\ total_rcvd_bytes = Len(buf)
    /\ Len(buf) <= mhdr.len

NotReading == pc # "body" => hdr = <<>> /\ buf = <<>>

\* The connection is in step: the server's failure may cost the last message.
InStep ==
  /\ Framed(Wire, nMsg)
  /\ Owed(Wire, sent, Len(got))
  /\ peer = "alive" => Whole(Wire) /\ Complete(Wire, sent, Len(got))
  /\ RestOK
  /\ GotOK
  /\ Reading

IInv ==
  /\ SocketTypes
  /\ NotReading
  /\ RestShape
  /\ Numbered(sent, nMsg)
  /\ ~disturbed => InStep

-----------------------------------------------------------------------------
(* Sequences of units *)

\* What a unit of a sequence is made of.
LEMMA UnitFields ==
  ASSUME NEW T \in Seq(AnyUnit), NEW k \in 1 .. Len(T)
  PROVE  /\ T[k] \in AnyUnit /\ T[k].of \in AnyMessage /\ T[k].part \in Nat
         /\ T[k].of.no \in Nat /\ T[k].of.len \in Nat /\ T[k].of.type \in Types
         /\ T[k] = [of |-> T[k].of, part |-> T[k].part]
<1>1. T[k] \in AnyUnit
  OBVIOUS
<1>2. T[k].of \in AnyMessage /\ T[k].part \in Nat /\ T[k] = [of |-> T[k].of, part |-> T[k].part]
  BY <1>1 DEF AnyUnit
<1> QED
  BY <1>1, <1>2 DEF AnyMessage

\* What a sent message is made of.
LEMMA MessageFields ==
  ASSUME NEW s \in Seq(AnyMessage), NEW i \in 1 .. Len(s)
  PROVE  s[i] \in AnyMessage /\ s[i].no \in Nat /\ s[i].len \in Nat /\ s[i].type \in Types
<1>1. s[i] \in AnyMessage
  OBVIOUS
<1> QED
  BY <1>1 DEF AnyMessage

\* A function on 1..n is a sequence of length n.
LEMMA FunctionIsSeq ==
  ASSUME NEW S, NEW n \in Nat, NEW f \in [1 .. n -> S]
  PROVE  f \in Seq(S) /\ Len(f) = n
  OBVIOUS

\* The units of a message.
LEMMA UnitsOf ==
  ASSUME NEW m \in AnyMessage
  PROVE  /\ Units(m) \in Seq(AnyUnit)
         /\ Len(Units(m)) = m.len + 2
         /\ \A k \in 1 .. m.len + 2 : Units(m)[k] = [of |-> m, part |-> k - 1]
<1>1. m.len + 2 \in Nat
  BY DEF AnyMessage
<1>2. Units(m) \in [1 .. m.len + 2 -> AnyUnit]
  BY <1>1 DEF Units, AnyUnit
<1>3. Units(m) \in Seq(AnyUnit) /\ Len(Units(m)) = m.len + 2
  BY <1>1, <1>2, FunctionIsSeq
<1>4. \A k \in 1 .. m.len + 2 : Units(m)[k] = [of |-> m, part |-> k - 1]
  BY DEF Units
<1> QED
  BY <1>3, <1>4

\* U is what follows the first c units of T.
Dropped(T, c, U) ==
  /\ U \in Seq(AnyUnit)
  /\ Len(U) = Len(T) - c
  /\ \A k \in 1 .. Len(U) : U[k] = T[k + c]

\* After the first message another one begins, and so on.
LEMMA FramedDrop ==
  ASSUME NEW n \in Nat, NEW T \in Seq(AnyUnit), NEW U, Framed(T, n), T # <<>>,
         Dropped(T, T[1].of.len + 2, U)
  PROVE  Framed(U, n) /\ (Whole(T) => Whole(U))
<1>1. 1 \in 1 .. Len(T) /\ Len(T) \in Nat /\ T[1].part = 0
  BY DEF Framed
<1>2. T[1].of.len \in Nat
  BY <1>1, UnitFields
<1>3. PICK c \in Nat : c = T[1].of.len + 2
  BY <1>2
<1>4. U \in Seq(AnyUnit) /\ Len(U) = Len(T) - c /\ \A k \in 1 .. Len(U) : U[k] = T[k + c]
  BY <1>3 DEF Dropped
<1>5. Len(U) \in Nat /\ Len(T) \in Nat /\ Len(U) = Len(T) - c
  BY <1>4
<1>6. \A k \in 1 .. Len(U) : k + c \in 1 .. Len(T) /\ U[k].of.len \in Nat
  <2>1. \A k \in 1 .. Len(U) : k + c \in 1 .. Len(T)
    BY <1>5
  <2>2. U \in Seq(AnyUnit)
    BY <1>4
  <2> QED
    BY <2>1, <2>2, UnitFields
<1>7. U # <<>> => U[1].part = 0
  <2> SUFFICES ASSUME U # <<>>
               PROVE  U[1].part = 0
    OBVIOUS
  <2>1. 1 \in 1 .. Len(U)
    BY <1>4
  <2>2. U[1] = T[1 + c] /\ 1 + c <= Len(T)
    BY <1>4, <1>6, <2>1
  <2>3. 1 + T[1].of.len + 2 <= Len(T) => T[1 + T[1].of.len + 2].part = 0
    BY <1>1 DEF Framed
  <2>4. 1 + T[1].of.len + 2 = 1 + c
    BY <1>2, <1>3
  <2> QED
    BY <2>2, <2>3, <2>4
<1>8. \A k \in 1 .. Len(U) : U[k].of.no <= n
  BY <1>4, <1>6 DEF Framed
<1>9. ASSUME NEW k \in 1 .. Len(U), U[k].part = 0
      PROVE  /\ \A p \in 0 .. U[k].of.len + 1 :
                  k + p <= Len(U) => U[k + p] = [of |-> U[k].of, part |-> p]
             /\ k + U[k].of.len + 2 <= Len(U) => U[k + U[k].of.len + 2].part = 0
             /\ \A j \in 1 .. k - 1 : U[j].part = 0 => U[j].of.no < U[k].of.no
             /\ Whole(T) => k + U[k].of.len + 1 <= Len(U)
  <2> DEFINE l == U[k].of.len
  <2>1. k + c \in 1 .. Len(T) /\ U[k] = T[k + c] /\ l \in Nat
    BY <1>4, <1>6
  <2>2. T[k + c].part = 0 /\ T[k + c].of.len = l
    BY <1>9, <2>1
  <2>3. /\ \A p \in 0 .. l + 1 :
             (k + c) + p <= Len(T) => T[(k + c) + p] = [of |-> T[k + c].of, part |-> p]
        /\ (k + c) + l + 2 <= Len(T) => T[(k + c) + l + 2].part = 0
        /\ \A j \in 1 .. (k + c) - 1 : T[j].part = 0 => T[j].of.no < T[k + c].of.no
        /\ Whole(T) => (k + c) + l + 1 <= Len(T)
    BY <2>2, <2>1, Zenon DEF Framed, Whole
  <2> HIDE DEF l
  <2>4. ASSUME NEW p \in 0 .. l + 1, k + p <= Len(U)
        PROVE  U[k + p] = [of |-> U[k].of, part |-> p]
    <3>1. k + p \in 1 .. Len(U) /\ (k + c) + p <= Len(T) /\ (k + p) + c = (k + c) + p
      BY <1>5, <2>1, <2>4
    <3> QED
      BY <1>4, <2>1, <2>3, <3>1
  <2>5. ASSUME k + l + 2 <= Len(U)
        PROVE  U[k + l + 2].part = 0
    <3>1. /\ k + l + 2 \in 1 .. Len(U)
          /\ (k + c) + l + 2 <= Len(T)
          /\ (k + l + 2) + c = (k + c) + l + 2
      BY <1>5, <2>1, <2>5
    <3> QED
      BY <1>4, <2>1, <2>3, <3>1
  <2>6. ASSUME NEW j \in 1 .. k - 1, U[j].part = 0
        PROVE  U[j].of.no < U[k].of.no
    <3>1. j \in 1 .. Len(U) /\ j + c \in 1 .. (k + c) - 1
      BY <1>1, <1>4
    <3> QED
      BY <1>4, <2>1, <2>3, <2>6, <3>1
  <2>7. Whole(T) => k + l + 1 <= Len(U)
    BY <1>1, <1>4, <2>1, <2>3
  <2> QED
    BY <2>4, <2>5, <2>6, <2>7 DEF l
<1> QED
  BY <1>7, <1>8, <1>9 DEF Framed, Whole

\* The first message comes first, whole or not, and the others have later numbers.
LEMMA FirstMessage ==
  ASSUME NEW n \in Nat, NEW T \in Seq(AnyUnit), Framed(T, n), T # <<>>
  PROVE  /\ 1 \in 1 .. Len(T) /\ T[1].part = 0 /\ T[1].of.len \in Nat
         /\ \A k \in 1 .. Len(T) :
              k <= T[1].of.len + 2 => T[k] = [of |-> T[1].of, part |-> k - 1]
         /\ \A k \in 2 .. Len(T) : T[k].part = 0 =>
              k > T[1].of.len + 2 /\ T[1].of.no < T[k].of.no
<1>1. 1 \in 1 .. Len(T) /\ T[1].part = 0
  BY DEF Framed
<1>2. T[1].of.len \in Nat
  BY <1>1, UnitFields
<1>3. \A p \in 0 .. T[1].of.len + 1 : 1 + p <= Len(T) => T[1 + p] = [of |-> T[1].of, part |-> p]
  BY <1>1, Zenon DEF Framed
<1>4. ASSUME NEW k \in 1 .. Len(T), k <= T[1].of.len + 2
      PROVE  T[k] = [of |-> T[1].of, part |-> k - 1]
  <2>1. k - 1 \in 0 .. T[1].of.len + 1 /\ 1 + (k - 1) = k /\ k <= Len(T)
    BY <1>2, <1>4
  <2> QED
    BY <1>3, <2>1
<1>5. ASSUME NEW k \in 2 .. Len(T), T[k].part = 0
      PROVE  k > T[1].of.len + 2 /\ T[1].of.no < T[k].of.no
  <2>1. k \in 1 .. Len(T) /\ 1 \in 1 .. k - 1 /\ k - 1 # 0
    OBVIOUS
  <2>2. T[1].of.no < T[k].of.no
    BY <1>1, <1>5, <2>1, Zenon DEF Framed
  <2>3. ~(k <= T[1].of.len + 2)
    <3> SUFFICES ASSUME k <= T[1].of.len + 2
                 PROVE  FALSE
      OBVIOUS
    <3>1. T[k] = [of |-> T[1].of, part |-> k - 1]
      BY <1>4, <2>1
    <3> QED
      BY <1>5, <2>1, <3>1
  <2> QED
    BY <1>2, <2>1, <2>2, <2>3
<1> QED
  BY <1>1, <1>2, <1>4, <1>5

\* U is the beginning of T.
Cut(T, U) ==
  /\ U \in Seq(AnyUnit)
  /\ Len(U) <= Len(T)
  /\ \A k \in 1 .. Len(U) : U[k] = T[k]

\* A wire that ends earlier is framed.
LEMMA FramedCut ==
  ASSUME NEW n \in Nat, NEW T \in Seq(AnyUnit), NEW U, Framed(T, n), Cut(T, U)
  PROVE  Framed(U, n)
<1>1. Len(U) \in Nat /\ Len(T) \in Nat /\ Len(U) <= Len(T)
  BY DEF Cut
<1>2. \A k \in 1 .. Len(U) : k \in 1 .. Len(T) /\ U[k] = T[k]
  BY <1>1 DEF Cut
<1>3. \A k \in 1 .. Len(U) : U[k].of.len \in Nat
  BY UnitFields DEF Cut
<1>4. U # <<>> => U[1].part = 0
  <2> SUFFICES ASSUME U # <<>>
               PROVE  U[1].part = 0
    OBVIOUS
  <2>1. 1 \in 1 .. Len(U)
    BY DEF Cut
  <2> QED
    BY <1>2, <2>1 DEF Framed
<1>5. \A k \in 1 .. Len(U) : U[k].of.no <= n
  BY <1>2 DEF Framed
<1>6. ASSUME NEW k \in 1 .. Len(U), U[k].part = 0
      PROVE  /\ \A p \in 0 .. U[k].of.len + 1 :
                  k + p <= Len(U) => U[k + p] = [of |-> U[k].of, part |-> p]
             /\ k + U[k].of.len + 2 <= Len(U) => U[k + U[k].of.len + 2].part = 0
             /\ \A j \in 1 .. k - 1 : U[j].part = 0 => U[j].of.no < U[k].of.no
  <2> DEFINE l == U[k].of.len
  <2>1. k \in 1 .. Len(T) /\ U[k] = T[k] /\ l \in Nat
    BY <1>2, <1>3
  <2>2. T[k].part = 0 /\ T[k].of.len = l
    BY <1>6, <2>1
  <2>3. /\ \A p \in 0 .. l + 1 : k + p <= Len(T) => T[k + p] = [of |-> T[k].of, part |-> p]
        /\ k + l + 2 <= Len(T) => T[k + l + 2].part = 0
        /\ \A j \in 1 .. k - 1 : T[j].part = 0 => T[j].of.no < T[k].of.no
    BY <2>1, <2>2, Zenon DEF Framed
  <2> HIDE DEF l
  <2>4. ASSUME NEW p \in 0 .. l + 1, k + p <= Len(U)
        PROVE  U[k + p] = [of |-> U[k].of, part |-> p]
    <3>1. k + p \in 1 .. Len(U) /\ k + p <= Len(T)
      BY <1>1, <2>1, <2>4
    <3> QED
      BY <1>2, <2>1, <2>3, <3>1
  <2>5. ASSUME k + l + 2 <= Len(U)
        PROVE  U[k + l + 2].part = 0
    <3>1. k + l + 2 \in 1 .. Len(U) /\ k + l + 2 <= Len(T)
      BY <1>1, <2>1, <2>5
    <3> QED
      BY <1>2, <2>3, <3>1
  <2>6. ASSUME NEW j \in 1 .. k - 1, U[j].part = 0
        PROVE  U[j].of.no < U[k].of.no
    <3>1. j \in 1 .. Len(U)
      BY <1>1
    <3> QED
      BY <1>2, <2>1, <2>3, <2>6, <3>1
  <2> QED
    BY <2>4, <2>5, <2>6 DEF l
<1> QED
  BY <1>4, <1>5, <1>6 DEF Framed

\* U is T followed by the units of m.
Extended(T, m, U) ==
  /\ U \in Seq(AnyUnit)
  /\ Len(U) = Len(T) + m.len + 2
  /\ \A k \in 1 .. Len(T) : U[k] = T[k]
  /\ \A k \in 1 .. m.len + 2 : U[Len(T) + k] = [of |-> m, part |-> k - 1]

\* The units of an extended wire: old ones, or those of m, which begins after them.
LEMMA ExtendedUnits ==
  ASSUME NEW T \in Seq(AnyUnit), NEW m \in AnyMessage, NEW U, Extended(T, m, U),
         NEW k \in 1 .. Len(U)
  PROVE  \/ k \in 1 .. Len(T) /\ U[k] = T[k]
         \/ k = Len(T) + 1 /\ U[k].part = 0 /\ U[k].of = m
         \/ k > Len(T) + 1 /\ U[k].part # 0 /\ U[k].of = m
<1>1. Len(T) \in Nat /\ m.len \in Nat /\ Len(U) = Len(T) + m.len + 2
  BY DEF Extended, AnyMessage
<1>2. CASE k <= Len(T)
  BY <1>1, <1>2 DEF Extended
<1>3. CASE ~(k <= Len(T))
  <2>1. k - Len(T) \in 1 .. m.len + 2 /\ Len(T) + (k - Len(T)) = k
    BY <1>1, <1>3
  <2>2. U[k] = [of |-> m, part |-> (k - Len(T)) - 1]
    BY <2>1 DEF Extended
  <2> QED
    BY <1>1, <1>3, <2>1, <2>2
<1> QED
  BY <1>2, <1>3

\* A message that begins after a whole one is framed.
LEMMA FramedMore ==
  ASSUME NEW n \in Nat, NEW T \in Seq(AnyUnit), NEW m \in AnyMessage, NEW U,
         Framed(T, n), Whole(T), m.no = n + 1, Extended(T, m, U)
  PROVE  Framed(U, n + 1) /\ Whole(U)
<1>1. Len(T) \in Nat /\ m.len \in Nat /\ Len(U) \in Nat /\ Len(U) = Len(T) + m.len + 2
  BY DEF Extended, AnyMessage
<1>2. \A k \in 1 .. Len(T) :
        /\ U[k] = T[k] /\ T[k].of.len \in Nat /\ T[k].of.no \in Nat
        /\ T[k].of.no <= n
  BY UnitFields DEF Extended, Framed
<1>3. U[Len(T) + 1].part = 0 /\ U[Len(T) + 1].of = m
  <2>1. Len(T) + 1 \in 1 .. Len(U)
    BY <1>1
  <2> QED
    BY <1>1, <2>1, ExtendedUnits
<1>4. U # <<>> => U[1].part = 0
  <2>1. CASE T = <<>>
    BY <1>1, <1>3, <2>1
  <2>2. CASE T # <<>>
    <3>1. 1 \in 1 .. Len(T)
      BY <2>2
    <3> QED
      BY <1>2, <2>2, <3>1 DEF Framed
  <2> QED
    BY <2>1, <2>2
<1>5. \A k \in 1 .. Len(U) : U[k].of.no <= n + 1
  <2> TAKE k \in 1 .. Len(U)
  <2>1. CASE k \in 1 .. Len(T)
    BY <1>2, <2>1
  <2>2. CASE U[k].of = m
    BY <2>2
  <2> QED
    BY <2>1, <2>2, ExtendedUnits
<1>6. ASSUME NEW k \in 1 .. Len(U), U[k].part = 0
      PROVE  /\ \A p \in 0 .. U[k].of.len + 1 :
                  k + p <= Len(U) => U[k + p] = [of |-> U[k].of, part |-> p]
             /\ k + U[k].of.len + 2 <= Len(U) => U[k + U[k].of.len + 2].part = 0
             /\ \A j \in 1 .. k - 1 : U[j].part = 0 => U[j].of.no < U[k].of.no
             /\ k + U[k].of.len + 1 <= Len(U)
  <2>1. CASE k \in 1 .. Len(T)
    <3> DEFINE l == T[k].of.len
    <3>1. U[k] = T[k] /\ l \in Nat /\ T[k].part = 0
      BY <1>2, <1>6, <2>1
    <3>2. /\ \A p \in 0 .. l + 1 : k + p <= Len(T) => T[k + p] = [of |-> T[k].of, part |-> p]
          /\ k + l + 2 <= Len(T) => T[k + l + 2].part = 0
          /\ \A j \in 1 .. k - 1 : T[j].part = 0 => T[j].of.no < T[k].of.no
          /\ k + l + 1 <= Len(T)
      BY <2>1, <3>1, Zenon DEF Framed, Whole
    <3> HIDE DEF l
    <3>3. k + l + 1 <= Len(T) /\ l \in Nat /\ k \in Nat /\ k >= 1
      BY <2>1, <3>1, <3>2
    <3>4. ASSUME NEW p \in 0 .. l + 1
          PROVE  U[k + p] = [of |-> T[k].of, part |-> p]
      <4>1. k + p \in 1 .. Len(T) /\ k + p <= Len(T)
        BY <1>1, <3>3
      <4> QED
        BY <1>2, <3>2, <4>1
    <3>5. U[k + l + 2].part = 0
      <4>1. CASE k + l + 2 = Len(T) + 1
        BY <1>3, <4>1
      <4>2. CASE k + l + 2 \in 1 .. Len(T)
        BY <1>2, <3>2, <4>2
      <4>3. k + l + 2 = Len(T) + 1 \/ k + l + 2 \in 1 .. Len(T)
        BY <1>1, <3>3
      <4> QED
        BY <4>1, <4>2, <4>3
    <3>6. ASSUME NEW j \in 1 .. k - 1, U[j].part = 0
          PROVE  U[j].of.no < T[k].of.no
      <4>1. j \in 1 .. Len(T)
        BY <1>1, <2>1
      <4> QED
        BY <1>2, <3>2, <3>6, <4>1
    <3>7. k + l + 1 <= Len(U)
      BY <1>1, <3>3
    <3> QED
      BY <3>1, <3>4, <3>5, <3>6, <3>7 DEF l
  <2>2. CASE k = Len(T) + 1 /\ U[k].of = m
    <3>1. ASSUME NEW p \in 0 .. m.len + 1
          PROVE  U[k + p] = [of |-> m, part |-> p]
      <4>1. p + 1 \in 1 .. m.len + 2 /\ Len(T) + (p + 1) = k + p /\ (p + 1) - 1 = p
        BY <1>1, <2>2
      <4> QED
        BY <4>1 DEF Extended
    <3>2. ~(k + m.len + 2 <= Len(U)) /\ k + m.len + 1 <= Len(U)
      BY <1>1, <2>2
    <3>3. ASSUME NEW j \in 1 .. k - 1
          PROVE  U[j].of.no < m.no
      <4>1. j \in 1 .. Len(T)
        BY <1>1, <2>2
      <4> QED
        BY <1>2, <4>1
    <3> QED
      BY <2>2, <3>1, <3>2, <3>3
  <2> QED
    BY <1>6, <2>1, <2>2, ExtendedUnits
<1> QED
  BY <1>4, <1>5, <1>6 DEF Framed, Whole

\* A beginning after the first message is still there when that one is dropped.
LEMMA BeginsDrop ==
  ASSUME NEW n \in Nat, NEW T \in Seq(AnyUnit), NEW U, Framed(T, n), T # <<>>,
         Dropped(T, T[1].of.len + 2, U), NEW m, Begins(T, m), m # T[1].of
  PROVE  Begins(U, m)
<1>1. PICK k \in 1 .. Len(T) : T[k].part = 0 /\ T[k].of = m
  BY DEF Begins
<1>2. k # 1
  BY <1>1
<1>3. T[1].of.len \in Nat /\ k > T[1].of.len + 2
  BY <1>1, <1>2, FirstMessage
<1>4. PICK c \in Nat : c = T[1].of.len + 2
  BY <1>3
<1>5. Len(U) = Len(T) - c /\ Len(T) \in Nat
  BY <1>4 DEF Dropped
<1>6. k - c \in 1 .. Len(U) /\ (k - c) + c = k
  BY <1>3, <1>4, <1>5
<1>7. U[k - c] = T[k]
  BY <1>4, <1>6 DEF Dropped
<1> QED
  BY <1>1, <1>6, <1>7 DEF Begins

\* A beginning that is left after the first message was dropped is another one.
LEMMA BeginsLater ==
  ASSUME NEW n \in Nat, NEW T \in Seq(AnyUnit), NEW U, Framed(T, n), T # <<>>,
         Dropped(T, T[1].of.len + 2, U), NEW k \in 1 .. Len(U), U[k].part = 0
  PROVE  \E j \in 1 .. Len(T) : T[j] = U[k] /\ T[1].of.no < T[j].of.no
<1>1. T[1].of.len \in Nat
  BY FirstMessage
<1>2. PICK c \in Nat : c = T[1].of.len + 2 /\ c >= 2
  BY <1>1
<1>3. Len(U) = Len(T) - c /\ Len(T) \in Nat /\ U[k] = T[k + c]
  BY <1>2 DEF Dropped
<1>4. k + c \in 2 .. Len(T) /\ k + c \in 1 .. Len(T)
  <2>1. c \in Nat /\ c >= 2 /\ k \in Nat /\ k >= 1 /\ k <= Len(T) - c /\ Len(T) \in Nat
    BY <1>2, <1>3
  <2> QED
    BY <2>1
<1>5. T[1].of.no < T[k + c].of.no
  BY <1>3, <1>4, FirstMessage
<1> QED
  BY <1>3, <1>4, <1>5

\* The first event on the wire is the one that the queue is to get next.
LEMMA FirstIsNext ==
  ASSUME NEW n \in Nat, NEW T \in Seq(AnyUnit), NEW s \in Seq(AnyMessage), NEW g \in Nat,
         Framed(T, n), Numbered(s, n), Owed(T, s, g), T # <<>>, T[1].of.type = "event"
  PROVE  g + 1 \in 1 .. Len(s) /\ T[1].of = s[g + 1]
<1>1. 1 \in 1 .. Len(T) /\ T[1].part = 0 /\ T[1].of.no \in Nat
  BY FirstMessage, UnitFields
<1>2. PICK i \in g + 1 .. Len(s) : T[1].of = s[i]
  BY <1>1 DEF Owed
<1>3. i \in Nat /\ Len(s) \in Nat /\ g + 1 <= i /\ i <= Len(s)
  OBVIOUS
<1>4. i = g + 1
  <2> SUFFICES ASSUME i # g + 1
               PROVE  FALSE
    OBVIOUS
  <2>1. g + 1 \in g + 1 .. Len(s) /\ g + 1 < Len(s) /\ i \in 1 .. Len(s) /\ g + 1 \in 1 .. i - 1
    BY <1>3
  <2>2. PICK k \in 1 .. Len(T) : T[k].part = 0 /\ T[k].of = s[g + 1]
    BY <2>1 DEF Owed, Begins
  <2>3. s[g + 1].no < T[1].of.no
    BY <1>2, <2>1 DEF Numbered
  <2>4. T[k].of.no < T[1].of.no /\ T[k].of.no \in Nat
    BY <2>2, <2>3, UnitFields
  <2>5. k # 1
    BY <1>1, <2>4
  <2>6. k \in 2 .. Len(T)
    BY <2>5
  <2>7. T[1].of.no < T[k].of.no
    BY <2>2, <2>6, FirstMessage
  <2> QED
    BY <1>1, <2>4, <2>7
<1> QED
  BY <1>2, <1>3, <1>4

\* When the queue has got the first event, it has to get the others.
LEMMA OwedAfterEvent ==
  ASSUME NEW n \in Nat, NEW T \in Seq(AnyUnit), NEW s \in Seq(AnyMessage), NEW g \in Nat, NEW U,
         Framed(T, n), Numbered(s, n), Owed(T, s, g), T # <<>>, T[1].of.type = "event",
         Dropped(T, T[1].of.len + 2, U)
  PROVE  Owed(U, s, g + 1) /\ (Complete(T, s, g) => Complete(U, s, g + 1))
<1>1. g + 1 \in 1 .. Len(s) /\ T[1].of = s[g + 1] /\ Len(s) \in Nat
  BY FirstIsNext
<1>2. ASSUME NEW i \in g + 1 + 1 .. Len(s), Begins(T, s[i])
      PROVE  Begins(U, s[i])
  <2>1. i \in 1 .. Len(s) /\ g + 1 \in 1 .. i - 1
    BY <1>1
  <2>2. s[g + 1].no < s[i].no
    BY <2>1 DEF Numbered
  <2>3. s[i].no \in Nat
    BY <2>1, MessageFields
  <2>4. s[i] # T[1].of
    BY <1>1, <2>2, <2>3
  <2> QED
    BY <1>2, <2>4, BeginsDrop
<1>3. ASSUME NEW k \in 1 .. Len(U), U[k].part = 0, U[k].of.type = "event"
      PROVE  \E i \in g + 1 + 1 .. Len(s) : U[k].of = s[i]
  <2>1. PICK j \in 1 .. Len(T) : T[j] = U[k] /\ T[1].of.no < T[j].of.no
    BY <1>3, BeginsLater
  <2>2. PICK i \in g + 1 .. Len(s) : T[j].of = s[i]
    BY <1>3, <2>1 DEF Owed
  <2>3. T[j].of.no \in Nat
    BY UnitFields
  <2>4. i # g + 1
    BY <1>1, <2>1, <2>2, <2>3
  <2>5. i \in g + 1 + 1 .. Len(s)
    BY <1>1, <2>4
  <2> QED
    BY <2>1, <2>2, <2>5
<1>4. \A i \in g + 1 + 1 .. Len(s) : i \in g + 1 .. Len(s)
  BY <1>1
<1>5. \A i \in g + 1 + 1 .. Len(s) : i < Len(s) => Begins(U, s[i])
  BY <1>2, <1>4 DEF Owed
<1>6. Complete(T, s, g) => Complete(U, s, g + 1)
  BY <1>2, <1>4 DEF Complete
<1> QED
  BY <1>3, <1>5, <1>6 DEF Owed

\* A message that is no event leaves the queue what it had to get.
LEMMA OwedAfterOther ==
  ASSUME NEW n \in Nat, NEW T \in Seq(AnyUnit), NEW s \in Seq(AnyMessage), NEW g \in Nat, NEW U,
         Framed(T, n), Numbered(s, n), Owed(T, s, g), T # <<>>, T[1].of.type # "event",
         Dropped(T, T[1].of.len + 2, U)
  PROVE  Owed(U, s, g) /\ (Complete(T, s, g) => Complete(U, s, g))
<1>1. ASSUME NEW i \in g + 1 .. Len(s), Begins(T, s[i])
      PROVE  Begins(U, s[i])
  <2>1. i \in 1 .. Len(s)
    OBVIOUS
  <2>2. s[i] # T[1].of
    BY <2>1 DEF Numbered
  <2> QED
    BY <1>1, <2>2, BeginsDrop
<1>2. ASSUME NEW k \in 1 .. Len(U), U[k].part = 0, U[k].of.type = "event"
      PROVE  \E i \in g + 1 .. Len(s) : U[k].of = s[i]
  <2>1. PICK j \in 1 .. Len(T) : T[j] = U[k] /\ T[1].of.no < T[j].of.no
    BY <1>2, BeginsLater
  <2> QED
    BY <1>2, <2>1 DEF Owed
<1>3. \A i \in g + 1 .. Len(s) : i < Len(s) => Begins(U, s[i])
  BY <1>1 DEF Owed
<1>4. Complete(T, s, g) => Complete(U, s, g)
  BY <1>1 DEF Complete
<1> QED
  BY <1>2, <1>3, <1>4 DEF Owed

\* When the server fails, only the last event can be lost.
LEMMA OwedCut ==
  ASSUME NEW n \in Nat, NEW T \in Seq(AnyUnit), NEW s \in Seq(AnyMessage), NEW g \in Nat, NEW U,
         Numbered(s, n), Owed(T, s, g), Cut(T, U),
         \A k \in 1 .. Len(T) : k > Len(U) /\ T[k].of.type = "event" => T[k].of = s[Len(s)]
  PROVE  Owed(U, s, g)
<1>1. Len(U) \in Nat /\ Len(T) \in Nat /\ Len(U) <= Len(T) /\ Len(s) \in Nat
  BY DEF Cut
<1>2. \A k \in 1 .. Len(U) : k \in 1 .. Len(T) /\ U[k] = T[k]
  BY <1>1 DEF Cut
<1>3. ASSUME NEW i \in g + 1 .. Len(s), i < Len(s)
      PROVE  Begins(U, s[i])
  <2>1. i \in 1 .. Len(s) /\ Len(s) \in 1 .. Len(s) /\ i \in 1 .. Len(s) - 1
    BY <1>1, <1>3
  <2>2. PICK k \in 1 .. Len(T) : T[k].part = 0 /\ T[k].of = s[i]
    BY <1>3 DEF Owed, Begins
  <2>3. s[i].type = "event" /\ s[i].no < s[Len(s)].no /\ s[i].no \in Nat
    BY <2>1, MessageFields DEF Numbered
  <2>4. ~(k > Len(U))
    BY <2>2, <2>3
  <2>5. k \in 1 .. Len(U)
    BY <1>1, <2>4
  <2> QED
    BY <1>2, <2>2, <2>5 DEF Begins
<1> QED
  BY <1>2, <1>3 DEF Owed

\* A message that the server begins is one more to get, if it is an event.
LEMMA OwedMore ==
  ASSUME NEW T \in Seq(AnyUnit), NEW m \in AnyMessage, NEW s \in Seq(AnyMessage), NEW g \in Nat,
         NEW U, Owed(T, s, g), Complete(T, s, g), g <= Len(s), Extended(T, m, U),
         NEW r, r = IF m.type = "event" THEN Append(s, m) ELSE s
  PROVE  Owed(U, r, g) /\ Complete(U, r, g)
<1>1. Len(T) \in Nat /\ m.len \in Nat /\ Len(U) = Len(T) + m.len + 2 /\ Len(s) \in Nat
  BY DEF Extended, AnyMessage
<1>2. /\ Len(r) \in Nat /\ Len(s) <= Len(r) /\ \A i \in 1 .. Len(s) : r[i] = s[i]
      /\ m.type = "event" => Len(r) = Len(s) + 1 /\ r[Len(s) + 1] = m
      /\ m.type # "event" => r = s
  BY <1>1
<1>3. Len(T) + 1 \in 1 .. Len(U) /\ U[Len(T) + 1].part = 0 /\ U[Len(T) + 1].of = m
  <2>1. Len(T) + 1 \in 1 .. Len(U)
    BY <1>1
  <2> QED
    BY <1>1, <2>1, ExtendedUnits
<1>4. Complete(U, r, g)
  <2> SUFFICES ASSUME NEW i \in g + 1 .. Len(r)
               PROVE  Begins(U, r[i])
    BY DEF Complete
  <2>1. CASE i \in g + 1 .. Len(s)
    <3>1. r[i] = s[i]
      BY <1>2, <2>1
    <3>2. PICK k \in 1 .. Len(T) : T[k].part = 0 /\ T[k].of = s[i]
      BY <2>1 DEF Complete, Begins
    <3>3. k \in 1 .. Len(U) /\ U[k] = T[k]
      BY <1>1 DEF Extended
    <3> QED
      BY <3>1, <3>2, <3>3 DEF Begins
  <2>2. CASE m.type = "event" /\ i = Len(s) + 1
    <3>1. r[i] = m
      BY <1>2, <2>2
    <3> QED
      BY <1>3, <3>1 DEF Begins
  <2> QED
    BY <1>1, <1>2, <2>1, <2>2
<1>5. ASSUME NEW k \in 1 .. Len(U), U[k].part = 0, U[k].of.type = "event"
      PROVE  \E i \in g + 1 .. Len(r) : U[k].of = r[i]
  <2>1. CASE k \in 1 .. Len(T) /\ U[k] = T[k]
    <3>1. PICK i \in g + 1 .. Len(s) : T[k].of = s[i]
      BY <1>5, <2>1 DEF Owed
    <3>2. i \in g + 1 .. Len(r) /\ r[i] = s[i]
      BY <1>1, <1>2
    <3> QED
      BY <2>1, <3>1, <3>2
  <2>2. CASE U[k].of = m
    <3>1. Len(s) + 1 \in g + 1 .. Len(r) /\ r[Len(s) + 1] = m
      BY <1>1, <1>2, <1>5, <2>2
    <3> QED
      BY <2>2, <3>1
  <2> QED
    BY <1>5, <2>1, <2>2, ExtendedUnits
<1> QED
  BY <1>4, <1>5 DEF Owed, Complete

-----------------------------------------------------------------------------
(* Moving units *)

\* Both parts of a sequence that is cut in two.
LEMMA CutInTwo ==
  ASSUME NEW S, NEW s \in Seq(S), NEW k \in 0 .. Len(s)
  PROVE  /\ SubSeq(s, 1, k) \in Seq(S) /\ Len(SubSeq(s, 1, k)) = k
         /\ SubSeq(s, k + 1, Len(s)) \in Seq(S) /\ Len(SubSeq(s, k + 1, Len(s))) = Len(s) - k
         /\ SubSeq(s, 1, k) \o SubSeq(s, k + 1, Len(s)) = s
         /\ \A i \in 1 .. k : SubSeq(s, 1, k)[i] = s[i]
         /\ \A i \in 1 .. Len(s) - k : SubSeq(s, k + 1, Len(s))[i] = s[k + i]
<1>1. Len(s) \in Nat /\ k \in Nat /\ k <= Len(s)
  OBVIOUS
<1>2. /\ SubSeq(s, 1, k) \in Seq(S) /\ Len(SubSeq(s, 1, k)) = k
      /\ \A i \in 1 .. k : SubSeq(s, 1, k)[i] = s[i]
  BY <1>1
<1>3. /\ SubSeq(s, k + 1, Len(s)) \in Seq(S) /\ Len(SubSeq(s, k + 1, Len(s))) = Len(s) - k
      /\ \A i \in 1 .. Len(s) - k : SubSeq(s, k + 1, Len(s))[i] = s[k + i]
  BY <1>1
<1>4. SubSeq(s, 1, k) \o SubSeq(s, k + 1, Len(s)) = s
  <2>1. 1 \in 1 .. Len(s) + 1 /\ k \in 1 - 1 .. Len(s) /\ Len(s) \in k .. Len(s)
    BY <1>1
  <2>2. SubSeq(s, 1, k) \o SubSeq(s, k + 1, Len(s)) = SubSeq(s, 1, Len(s))
    BY <2>1, ConcatAdjacentSubSeq
  <2> QED
    BY <2>2, SubSeqFull
<1> QED
  BY <1>2, <1>3, <1>4

\* Units that move from the stream into the header stay on the wire.
LEMMA MoveIntoHeader ==
  ASSUME NEW S, NEW x \in Seq(S), NEW y \in Seq(S), NEW r \in Seq(S)
  PROVE  (x \o <<>>) \o (y \o r) = (<<>> \o <<>>) \o ((x \o y) \o r)
<1>1. x \o <<>> = x /\ (x \o y) \o r \in Seq(S)
  OBVIOUS
<1>2. (x \o y) \o r = x \o (y \o r)
  OBVIOUS
<1>3. ASSUME NEW z \in Seq(S)
      PROVE  (<<>> \o <<>>) \o z = z
  OBVIOUS
<1> QED
  BY <1>1, <1>2, <1>3, Zenon

\* The wire is a sequence of units.
LEMMA WireTypes ==
  ASSUME SocketTypes, ~disturbed
  PROVE  /\ hdr \o buf \in Seq(AnyUnit) /\ Len(hdr \o buf) = Len(hdr) + Len(buf)
         /\ stream \o rest \in Seq(AnyUnit) /\ Len(stream \o rest) = Len(stream) + Len(rest)
         /\ Wire \in Seq(AnyUnit)
         /\ Len(Wire) = Len(hdr) + Len(buf) + Len(stream) + Len(rest)
<1>1. /\ hdr \o buf \in Seq(AnyUnit) /\ Len(hdr \o buf) = Len(hdr) + Len(buf)
      /\ stream \o rest \in Seq(AnyUnit) /\ Len(stream \o rest) = Len(stream) + Len(rest)
  BY ConcatProperties DEF SocketTypes
<1>2. Wire \in Seq(AnyUnit) /\ Len(Wire) = Len(hdr \o buf) + Len(stream \o rest)
  BY <1>1, ConcatProperties DEF Wire
<1>3. Len(hdr) \in Nat /\ Len(buf) \in Nat /\ Len(stream) \in Nat /\ Len(rest) \in Nat
  BY DEF SocketTypes
<1> QED
  BY <1>1, <1>2, <1>3

\* A wire that holds the units of one message is framed.
LEMMA FramedUnits ==
  ASSUME NEW n \in Nat, NEW m \in AnyMessage, m.no <= n
  PROVE  Framed(Units(m), n) /\ Whole(Units(m))
<1>1. /\ Units(m) \in Seq(AnyUnit) /\ Len(Units(m)) = m.len + 2 /\ m.len \in Nat
      /\ \A k \in 1 .. m.len + 2 : Units(m)[k] = [of |-> m, part |-> k - 1]
  BY UnitsOf DEF AnyMessage
<1>2. ASSUME NEW k \in 1 .. m.len + 2
      PROVE  Units(m)[k].of = m /\ (Units(m)[k].part = 0 <=> k = 1)
  <2>1. Units(m)[k] = [of |-> m, part |-> k - 1]
    BY <1>1
  <2>2. Units(m)[k].of = m /\ Units(m)[k].part = k - 1
    BY <2>1
  <2> QED
    BY <2>2
<1>3. ASSUME NEW p \in 0 .. m.len + 1
      PROVE  Units(m)[1 + p] = [of |-> m, part |-> p]
  <2>1. 1 + p \in 1 .. m.len + 2 /\ (1 + p) - 1 = p
    BY <1>1
  <2> QED
    BY <1>1, <2>1
<1> HIDE DEF Units
<1> QED
  BY <1>1, <1>2, <1>3 DEF Framed, Whole

\* An empty wire is framed and owes nothing.
LEMMA EmptyWire ==
  ASSUME NEW n \in Nat
  PROVE  /\ Framed(<<>>, n) /\ Whole(<<>>)
         /\ Owed(<<>>, <<>>, 0) /\ Complete(<<>>, <<>>, 0)
  BY DEF Framed, Whole, Owed, Complete, Begins

-----------------------------------------------------------------------------
(* The steps *)

\* Steps that leave the units alone.
LEMMA Quiet ==
  ASSUME IInv,
         UNCHANGED <<hdr, mhdr, buf, total_rcvd_bytes, stream, rest, nMsg, sent, got, disturbed>>,
         pc' = pc \/ (pc # "body" /\ pc' # "body"),
         peer' = "alive" => peer = "alive"
  PROVE  IInv'
<1>1. SocketTypes' /\ NotReading' /\ RestShape' /\ Numbered(sent, nMsg)'
  BY DEF IInv, SocketTypes, NotReading, RestShape, Numbered
<1>2. ASSUME ~disturbed
      PROVE  InStep'
  <2>1. InStep
    BY <1>2 DEF IInv
  <2>2. Wire' = Wire
    BY DEF Wire
  <2>3. RestOK' /\ GotOK' /\ Reading'
    BY <2>1 DEF InStep, RestOK, GotOK, Reading
  <2> QED
    BY <2>1, <2>2, <2>3 DEF InStep
<1> QED
  BY <1>1, <1>2 DEF IInv

\* The units have moved on the wire.
LEMMA Moved ==
  ASSUME IInv, ~disturbed, SocketTypes', NotReading', RestShape', RestOK', Reading', Wire' = Wire,
         UNCHANGED <<nMsg, sent, got, peer>>
  PROVE  IInv'
<1>1. InStep
  BY DEF IInv
<1>2. GotOK'
  BY <1>1 DEF InStep, GotOK
<1>3. InStep'
  BY <1>1, <1>2 DEF InStep
<1>4. Numbered(sent, nMsg)'
  BY DEF IInv
<1> QED
  BY <1>3, <1>4 DEF IInv

\* A connection begins, with nothing on the wire or with the answer to the open
\* request, or it ends.
LEMMA Fresh ==
  ASSUME IInv, hdr' = <<>>, buf' = <<>>, stream' = <<>>, sent' = <<>>, got' = <<>>,
         mhdr' \in [len : Nat, type : Types], total_rcvd_bytes' \in Int, disturbed' \in BOOLEAN,
         rest' \in Seq(AnyUnit), RestShape', pc' # "body", UNCHANGED nMsg,
         ~disturbed' => rest' \in {<<>>, Units(OpenConf)}
  PROVE  IInv'
<1>1. nMsg \in Nat
  BY DEF IInv, SocketTypes
<1>2. SocketTypes'
  BY <1>1 DEF SocketTypes
<1>3. NotReading' /\ Numbered(sent, nMsg)'
  BY DEF NotReading, Numbered
<1>4. ASSUME ~disturbed'
      PROVE  InStep'
  <2>1. OpenConf \in AnyMessage /\ OpenConf.no = 0 /\ OpenConf.type = "other"
    BY DEF OpenConf, AnyMessage, Types
  <2>2. Wire' = rest'
    BY DEF Wire
  <2>3. Framed(rest', nMsg) /\ Whole(rest')
    BY <1>1, <1>4, <2>1, EmptyWire, FramedUnits
  <2>4. \A k \in 1 .. Len(rest') : rest'[k].of.type = "other"
    <3>1. CASE rest' = <<>>
      BY <3>1
    <3>2. CASE rest' = Units(OpenConf)
      <4> TAKE k \in 1 .. Len(rest')
      <4>1. rest'[k] = [of |-> OpenConf, part |-> k - 1]
        BY <2>1, <3>2, UnitsOf
      <4> QED
        BY <2>1, <4>1
    <3> QED
      BY <1>4, <3>1, <3>2
  <2>5. Owed(rest', <<>>, 0) /\ Complete(rest', <<>>, 0)
    BY <2>4 DEF Owed, Complete
  <2>6. RestOK' /\ GotOK' /\ Reading'
    BY <2>4 DEF RestOK, GotOK, Reading
  <2> QED
    BY <2>2, <2>3, <2>5, <2>6 DEF InStep
<1> QED
  BY <1>2, <1>3, <1>4 DEF IInv

\* DestroySocket.
LEMMA DisconnectStep ==
  ASSUME IInv, Disconnect, hdr' = <<>>, buf' = <<>>, UNCHANGED nMsg,
         mhdr' \in [len : Nat, type : Types], total_rcvd_bytes' \in Int
  PROVE  IInv'
<1>1. rest' = <<>> /\ RestShape'
  BY DEF Disconnect, RestShape
<1>2. disturbed' \in BOOLEAN
  BY Zenon DEF Disconnect
<1> QED
  BY <1>1, <1>2, Fresh DEF Disconnect

\* The first units of a message pass for a header: it is one, unless it has arrived
\* in two parts.
LEMMA HeaderStep == IInv /\ header => IInv'
<1> SUFFICES ASSUME IInv, header
             PROVE  IInv'
  OBVIOUS
<1> DEFINE k == IF Len(stream) >= 2 THEN 2 ELSE 1
<1>1. stream \in Seq(AnyUnit) /\ rest \in Seq(AnyUnit) /\ k \in 0 .. Len(stream) /\ k >= 1
  BY DEF IInv, SocketTypes, header
<1>2. /\ hdr' = SubSeq(stream, 1, k) /\ stream' = SubSeq(stream, k + 1, Len(stream))
      /\ buf' = <<>> /\ total_rcvd_bytes' = 0 /\ pc' = "body"
      /\ UNCHANGED <<rest, nMsg, sent, got, peer>>
  BY DEF header, conn, env
<1> HIDE DEF k
<1>3. /\ hdr' \in Seq(AnyUnit) /\ Len(hdr') = k /\ stream' \in Seq(AnyUnit)
      /\ hdr' \o stream' = stream
      /\ \A i \in 1 .. k : hdr'[i] = stream[i]
  BY <1>1, <1>2, CutInTwo
<1>4. PICK len \in (IF hdr'[1].part = 0 THEN {hdr'[1].of.len} ELSE 0 .. MaxBody),
           type \in (IF k = 2 /\ hdr'[2].part = 1 THEN {hdr'[2].of.type} ELSE Types) :
             mhdr' = [len |-> len, type |-> type]
  BY <1>2, Zenon DEF header, k
<1>5. disturbed' = (disturbed \/ k = 1)
  BY Zenon DEF header, k
<1>6. mhdr' \in [len : Nat, type : Types]
  <2>1. hdr'[1].of.len \in Nat
    <3>1. 1 \in 1 .. Len(hdr')
      BY <1>1, <1>3
    <3> QED
      BY <1>3, <3>1, UnitFields
  <2>2. ASSUME k = 2
        PROVE  hdr'[2].of.type \in Types
    <3>1. 2 \in 1 .. Len(hdr')
      BY <1>3, <2>2
    <3> QED
      BY <1>3, <3>1, UnitFields
  <2>3. len \in Nat
    BY <2>1, BoundAssumption
  <2>4. type \in Types
    BY <2>2
  <2> QED
    BY <1>4, <2>3, <2>4
<1>7. disturbed' \in BOOLEAN
  BY <1>5, Zenon
<1>8. SocketTypes'
  BY <1>2, <1>3, <1>6, <1>7 DEF IInv, SocketTypes
<1>9. NotReading' /\ RestShape' /\ Numbered(sent, nMsg)'
  BY <1>2 DEF IInv, NotReading, RestShape
<1>10. ASSUME ~disturbed'
       PROVE  IInv'
  <2>1. ~disturbed /\ k # 1
    BY <1>5, <1>10, Zenon
  <2>2. k = 2
    BY <2>1 DEF k
  <2>3. InStep /\ hdr = <<>> /\ buf = <<>>
    BY <2>1 DEF IInv, NotReading, header
  <2>4. Wire = (<<>> \o <<>>) \o ((hdr' \o stream') \o rest)
    BY <1>3, <2>3 DEF Wire
  <2>5. Wire' = (hdr' \o <<>>) \o (stream' \o rest)
    BY <1>2 DEF Wire
  <2>6. Wire' = Wire
    <3>1. PICK x \in Seq(AnyUnit), y \in Seq(AnyUnit), r \in Seq(AnyUnit) :
            x = hdr' /\ y = stream' /\ r = rest
      BY <1>1, <1>3
    <3>2. (x \o <<>>) \o (y \o r) = (<<>> \o <<>>) \o ((x \o y) \o r)
      BY MoveIntoHeader
    <3> QED
      BY <2>4, <2>5, <3>1, <3>2, Zenon
  <2>7. Wire \in Seq(AnyUnit) /\ Len(Wire) >= 2 /\ Wire[1] = stream[1] /\ Wire[2] = stream[2]
    <3>1. Wire = stream \o rest
      BY <1>1, <2>3 DEF Wire
    <3> QED
      BY <1>1, <2>2, <3>1
  <2>8. hdr'[1] = Wire[1] /\ hdr'[2] = Wire[2]
    BY <1>3, <2>2, <2>7
  <2>9. Wire # <<>> /\ Framed(Wire, nMsg) /\ nMsg \in Nat
    BY <2>3, <2>7 DEF InStep, IInv, SocketTypes
  <2>10. Wire[1].part = 0 /\ Wire[2] = [of |-> Wire[1].of, part |-> 1]
    <3>1. Wire[1].of.len \in Nat /\ Wire[1].part = 0
      BY <2>7, <2>9, FirstMessage
    <3>2. 2 \in 1 .. Len(Wire) /\ 2 <= Wire[1].of.len + 2
      BY <2>7, <3>1
    <3>3. Wire[2] = [of |-> Wire[1].of, part |-> 2 - 1]
      BY <2>7, <2>9, <3>2, FirstMessage
    <3> QED
      BY <3>1, <3>3
  <2>11. len = hdr'[1].of.len /\ type = hdr'[1].of.type
    BY <2>2, <2>8, <2>10
  <2>12. Reading'
    BY <1>2, <1>3, <1>4, <1>6, <2>2, <2>11 DEF Reading
  <2>13. RestOK'
    BY <1>2, <2>3 DEF InStep, RestOK
  <2> QED
    BY <1>2, <1>8, <1>9, <2>1, <2>6, <2>12, <2>13, Moved
<1> QED
  BY <1>8, <1>9, <1>10 DEF IInv

\* The rest of the body, or what has arrived of it, is read behind what was read.
LEMMA BodyStep == IInv /\ body_recv => IInv'
<1> SUFFICES ASSUME IInv, body_recv
             PROVE  IInv'
  OBVIOUS
<1>1. /\ stream \in Seq(AnyUnit) /\ rest \in Seq(AnyUnit) /\ total_rcvd_bytes \in Int
      /\ mhdr.len \in Nat /\ total_rcvd_bytes < mhdr.len /\ pc = "body" /\ stream # <<>>
  BY DEF IInv, SocketTypes, body_recv, InBody
<1>2. PICK k : k = IF Len(stream) < mhdr.len - total_rcvd_bytes THEN Len(stream)
                   ELSE mhdr.len - total_rcvd_bytes
  OBVIOUS
<1>3. /\ k \in 0 .. Len(stream) /\ total_rcvd_bytes + k \in Int
      /\ total_rcvd_bytes + k <= mhdr.len
  BY <1>1, <1>2
<1>4. /\ buf' = SubSeq(buf, 1, total_rcvd_bytes) \o SubSeq(stream, 1, k)
      /\ total_rcvd_bytes' = total_rcvd_bytes + k
      /\ stream' = SubSeq(stream, k + 1, Len(stream))
      /\ UNCHANGED <<pc, hdr, mhdr, rest, nMsg, sent, got, peer, disturbed>>
  BY <1>2 DEF body_recv, control, conn, env, history
<1>5. PICK x \in Seq(AnyUnit) : x = SubSeq(stream, 1, k) /\ Len(x) = k /\ x \o stream' = stream
  BY <1>1, <1>3, <1>4, CutInTwo
<1>6. stream' \in Seq(AnyUnit)
  BY <1>1, <1>3, <1>4, CutInTwo
<1>7. ASSUME ~disturbed
      PROVE  /\ hdr \in Seq(AnyUnit) /\ buf \in Seq(AnyUnit) /\ buf' = buf \o x
             /\ total_rcvd_bytes = Len(buf)
  <2>1. hdr \in Seq(AnyUnit) /\ buf \in Seq(AnyUnit) /\ total_rcvd_bytes = Len(buf)
    BY <1>1, <1>7 DEF IInv, SocketTypes, InStep, Reading
  <2>2. SubSeq(buf, 1, Len(buf)) = buf
    BY <2>1, SubSeqFull
  <2> QED
    BY <1>4, <1>5, <2>1, <2>2
<1>8. SocketTypes'
  <2>1. ~disturbed => buf' \in Seq(AnyUnit)
    BY <1>5, <1>7, ConcatProperties
  <2> QED
    BY <1>3, <1>4, <1>6, <2>1 DEF IInv, SocketTypes
<1>9. NotReading' /\ RestShape' /\ Numbered(sent, nMsg)'
  BY <1>1, <1>4 DEF IInv, NotReading, RestShape
<1>10. ASSUME ~disturbed
       PROVE  IInv'
  <2>1. Wire = (hdr \o buf) \o ((x \o stream') \o rest)
    BY <1>5 DEF Wire
  <2>2. Wire' = (hdr \o (buf \o x)) \o (stream' \o rest)
    BY <1>4, <1>7, <1>10 DEF Wire
  <2>3. Wire' = Wire
    <3>1. PICK h \in Seq(AnyUnit), b \in Seq(AnyUnit), y \in Seq(AnyUnit), r \in Seq(AnyUnit) :
            h = hdr /\ b = buf /\ y = stream' /\ r = rest
      BY <1>1, <1>6, <1>7, <1>10
    <3>2. h \o (b \o x) = (h \o b) \o x
      OBVIOUS
    <3>3. (x \o y) \o r = x \o (y \o r)
      OBVIOUS
    <3>4. PICK g \in Seq(AnyUnit), z \in Seq(AnyUnit) : g = h \o b /\ z = y \o r
      <4>1. h \o b \in Seq(AnyUnit) /\ y \o r \in Seq(AnyUnit)
        OBVIOUS
      <4> QED
        BY <4>1, Zenon
    <3>5. (g \o x) \o z = g \o (x \o z)
      OBVIOUS
    <3>6. Wire = g \o (x \o z)
      BY <2>1, <3>1, <3>3, <3>4, Zenon
    <3>7. Wire' = (g \o x) \o z
      BY <2>2, <3>1, <3>2, <3>4, Zenon
    <3> QED
      BY <3>5, <3>6, <3>7
  <2>4. Len(buf') = Len(buf) + k
    BY <1>5, <1>7, <1>10, ConcatProperties
  <2>5. Reading'
    BY <1>1, <1>3, <1>4, <1>7, <1>10, <2>4 DEF IInv, InStep, Reading
  <2>6. RestOK'
    BY <1>4, <1>10 DEF IInv, InStep, RestOK
  <2> QED
    BY <1>4, <1>8, <1>9, <1>10, <2>3, <2>5, <2>6, Moved
<1> QED
  BY <1>4, <1>8, <1>9, <1>10 DEF IInv

\* The next units arrive.
LEMMA ArriveStep == IInv /\ Arrive => IInv'
<1> SUFFICES ASSUME IInv, Arrive
             PROVE  IInv'
  OBVIOUS
<1>1. stream \in Seq(AnyUnit) /\ rest \in Seq(AnyUnit) /\ rest # <<>>
  BY DEF IInv, SocketTypes, Arrive
<1>2. PICK k : k = IF ~SplitHeaders /\ rest[1].part = 0 THEN 2 ELSE 1
  OBVIOUS
<1>3. k \in 0 .. Len(rest) /\ k >= 1
  BY <1>1, <1>2 DEF IInv, RestShape
<1>4. /\ stream' = stream \o SubSeq(rest, 1, k)
      /\ rest' = SubSeq(rest, k + 1, Len(rest))
      /\ UNCHANGED <<pc, hdr, mhdr, buf, total_rcvd_bytes, nMsg, sent, got, peer, disturbed>>
  BY <1>2 DEF Arrive, control, message, conn, env, history
<1>5. PICK x \in Seq(AnyUnit) : x = SubSeq(rest, 1, k) /\ x \o rest' = rest
  BY <1>1, <1>3, <1>4, CutInTwo
<1>6. /\ rest' \in Seq(AnyUnit) /\ Len(rest') = Len(rest) - k
      /\ \A i \in 1 .. Len(rest') : rest'[i] = rest[k + i]
  BY <1>1, <1>3, <1>4, CutInTwo
<1>7. \A i \in 1 .. Len(rest') : k + i \in 2 .. Len(rest) /\ k + i \in 1 .. Len(rest)
  BY <1>1, <1>3, <1>6
<1>8. SocketTypes'
  <2>1. stream' \in Seq(AnyUnit)
    BY <1>1, <1>4, <1>5, ConcatProperties
  <2> QED
    BY <1>4, <1>6, <2>1 DEF IInv, SocketTypes
<1>9. \A i \in 1 .. Len(rest') : rest'[i].part # 0
  BY <1>6, <1>7 DEF IInv, RestShape
<1>10. RestShape'
  BY <1>6, <1>9 DEF RestShape
<1>11. NotReading' /\ Numbered(sent, nMsg)'
  BY <1>4 DEF IInv, NotReading
<1>12. ASSUME ~disturbed
       PROVE  IInv'
  <2>1. hdr \o buf \in Seq(AnyUnit)
    BY <1>12, WireTypes DEF IInv
  <2>2. (stream \o x) \o rest' = stream \o (x \o rest')
    <3>1. PICK y \in Seq(AnyUnit), r \in Seq(AnyUnit) : y = stream /\ r = rest'
      BY <1>1, <1>6
    <3>2. (y \o x) \o r = y \o (x \o r)
      OBVIOUS
    <3> QED
      BY <3>1, <3>2, Zenon
  <2>3. Wire' = Wire
    BY <1>4, <1>5, <2>2 DEF Wire
  <2>4. RestOK'
    BY <1>4, <1>6, <1>7, <1>12 DEF IInv, InStep, RestOK
  <2>5. Reading'
    BY <1>4, <1>12 DEF IInv, InStep, Reading
  <2> QED
    BY <1>4, <1>8, <1>10, <1>11, <1>12, <2>3, <2>4, <2>5, Moved
<1> QED
  BY <1>4, <1>8, <1>10, <1>11, <1>12 DEF IInv

\* The units of m at the end of the wire.
LEMMA ExtendWire ==
  ASSUME NEW g \in Seq(AnyUnit), NEW y \in Seq(AnyUnit), NEW m \in AnyMessage
  PROVE  Extended(g \o (y \o <<>>), m, g \o (y \o Units(m)))
<1>1. PICK u \in Seq(AnyUnit) :
        /\ u = Units(m) /\ Len(u) = m.len + 2
        /\ \A k \in 1 .. m.len + 2 : u[k] = [of |-> m, part |-> k - 1]
  BY UnitsOf
<1>2. m.len \in Nat /\ Len(g) \in Nat /\ Len(y) \in Nat
  BY DEF AnyMessage
<1>3. PICK T \in Seq(AnyUnit) : T = g \o y /\ Len(T) = Len(g) + Len(y)
  BY ConcatProperties
<1>4. g \o (y \o <<>>) = T
  BY <1>3
<1>5. g \o (y \o u) = T \o u
  <2>1. (g \o y) \o u = g \o (y \o u)
    OBVIOUS
  <2> QED
    BY <1>3, <2>1
<1>6. /\ T \o u \in Seq(AnyUnit) /\ Len(T \o u) = Len(T) + m.len + 2
      /\ \A k \in 1 .. Len(T) : (T \o u)[k] = T[k]
      /\ \A k \in 1 .. m.len + 2 : (T \o u)[Len(T) + k] = u[k]
  <2>1. T \o u \in Seq(AnyUnit) /\ Len(T \o u) = Len(T) + Len(u)
    BY ConcatProperties
  <2>2. \A k \in 1 .. Len(T) : (T \o u)[k] = T[k]
    OBVIOUS
  <2>3. \A k \in 1 .. Len(u) : (T \o u)[Len(T) + k] = u[k]
    OBVIOUS
  <2>4. Len(T) \in Nat
    OBVIOUS
  <2> QED
    BY <1>1, <1>2, <2>1, <2>2, <2>3, <2>4
<1>7. Extended(T, m, T \o u)
  BY <1>1, <1>6 DEF Extended
<1> QED
  BY <1>1, <1>4, <1>5, <1>7, Zenon

\* A server that has sent its last message begins the next one.
LEMMA BeginStep ==
  ASSUME IInv, NEW len \in 0 .. MaxBody, NEW type \in {"event", "other"}, BeginMessage(len, type)
  PROVE  IInv'
<1>1. PICK m \in AnyMessage : m = [no |-> nMsg + 1, len |-> len, type |-> type]
  <2>1. nMsg + 1 \in Nat /\ len \in Nat /\ type \in Types
    BY BoundAssumption DEF IInv, SocketTypes, Types
  <2>2. [no |-> nMsg + 1, len |-> len, type |-> type] \in AnyMessage
    BY <2>1 DEF AnyMessage
  <2> QED
    BY <2>2, Zenon
<1>2. m.no = nMsg + 1 /\ m.type = type /\ m.len \in Nat /\ nMsg \in Nat
  BY <1>1 DEF IInv, SocketTypes, AnyMessage
<1>3. /\ peer = "alive" /\ rest = <<>> /\ nMsg' = nMsg + 1 /\ rest' = Units(m)
      /\ sent' = IF m.type = "event" THEN Append(sent, m) ELSE sent
      /\ UNCHANGED <<pc, hdr, mhdr, buf, total_rcvd_bytes, stream, got, peer, disturbed>>
  BY <1>1, <1>2 DEF BeginMessage, control, message, conn
<1>4. sent \in Seq(AnyMessage) /\ Len(sent) \in Nat /\ Numbered(sent, nMsg)
  BY DEF IInv, SocketTypes
<1>5. /\ sent' \in Seq(AnyMessage) /\ Len(sent') \in Nat /\ Len(sent) <= Len(sent')
      /\ \A i \in 1 .. Len(sent) : sent'[i] = sent[i]
      /\ m.type = "event" => Len(sent') = Len(sent) + 1 /\ sent'[Len(sent')] = m
      /\ m.type # "event" => Len(sent') = Len(sent)
  BY <1>3, <1>4
<1>6. /\ rest' \in Seq(AnyUnit) /\ Len(rest') = m.len + 2
      /\ \A k \in 1 .. Len(rest') : rest'[k] = [of |-> m, part |-> k - 1]
  BY <1>3, UnitsOf
<1>7. \A k \in 1 .. Len(rest') : rest'[k].of = m /\ rest'[k].part = k - 1
  <2> TAKE k \in 1 .. Len(rest')
  <2>1. rest'[k] = [of |-> m, part |-> k - 1]
    BY <1>6
  <2> QED
    BY <2>1
<1>8. SocketTypes'
  BY <1>2, <1>3, <1>5, <1>6 DEF IInv, SocketTypes
<1>9. NotReading'
  BY <1>3 DEF IInv, NotReading
<1>10. RestShape'
  BY <1>2, <1>6, <1>7 DEF RestShape
<1>11. Numbered(sent, nMsg)'
  <2>1. \A i \in 1 .. Len(sent) : /\ sent'[i].type = "event" /\ sent'[i].no <= nMsg
                                  /\ sent'[i].no \in Nat
    BY <1>4, <1>5, MessageFields DEF Numbered
  <2>2. \A i \in 1 .. Len(sent') :
          \/ i \in 1 .. Len(sent)
          \/ i = Len(sent') /\ i = Len(sent) + 1 /\ sent'[i] = m /\ m.type = "event"
    BY <1>4, <1>5
  <2>3. \A i \in 1 .. Len(sent') : sent'[i].type = "event" /\ sent'[i].no <= nMsg + 1
    BY <1>2, <2>1, <2>2
  <2>4. ASSUME NEW j \in 1 .. Len(sent'), NEW i \in 1 .. j - 1
        PROVE  sent'[i].no < sent'[j].no
    <3>1. i \in 1 .. Len(sent)
      BY <1>4, <1>5, <2>2
    <3>2. CASE j \in 1 .. Len(sent)
      BY <1>4, <1>5, <3>1, <3>2 DEF Numbered
    <3>3. CASE sent'[j] = m
      BY <1>2, <2>1, <3>1, <3>3
    <3> QED
      BY <2>2, <3>2, <3>3
  <2> QED
    BY <1>3, <2>3, <2>4 DEF Numbered
<1>12. ASSUME ~disturbed
       PROVE  InStep'
  <2>1. InStep
    BY <1>12 DEF IInv
  <2>2. hdr \o buf \in Seq(AnyUnit) /\ Wire \in Seq(AnyUnit) /\ stream \in Seq(AnyUnit)
    BY <1>12, WireTypes DEF IInv, SocketTypes
  <2>3. Extended(Wire, m, Wire')
    <3>1. PICK g \in Seq(AnyUnit), y \in Seq(AnyUnit) : g = hdr \o buf /\ y = stream
      BY <2>2
    <3>2. Extended(g \o (y \o <<>>), m, g \o (y \o Units(m)))
      BY ExtendWire
    <3>3. Wire = g \o (y \o <<>>) /\ Wire' = g \o (y \o Units(m))
      BY <1>3, <3>1 DEF Wire
    <3> QED
      BY <3>2, <3>3, Zenon
  <2>4. /\ Framed(Wire, nMsg) /\ Whole(Wire) /\ Owed(Wire, sent, Len(got))
        /\ Complete(Wire, sent, Len(got))
    BY <1>3, <2>1 DEF InStep
  <2>5. Len(got) \in Nat /\ Len(got) <= Len(sent)
    BY <2>1 DEF InStep, GotOK, IInv, SocketTypes
  <2>6. Framed(Wire', nMsg + 1) /\ Whole(Wire')
    BY <1>2, <2>2, <2>3, <2>4, FramedMore
  <2>7. Owed(Wire', sent', Len(got)) /\ Complete(Wire', sent', Len(got))
    BY <1>3, <1>4, <2>2, <2>3, <2>4, <2>5, OwedMore
  <2>8. RestOK'
    BY <1>4, <1>5, <1>7 DEF RestOK
  <2>9. GotOK'
    BY <1>3, <1>4, <1>5, <2>1, <2>5 DEF InStep, GotOK
  <2>10. Reading'
    BY <1>3, <2>1 DEF InStep, Reading
  <2> QED
    BY <1>3, <2>6, <2>7, <2>8, <2>9, <2>10 DEF InStep
<1> QED
  BY <1>3, <1>8, <1>9, <1>10, <1>11, <1>12 DEF IInv

\* A complete body: what was read is the first message on the wire, and the others
\* are left.
LEMMA MessageRead ==
  ASSUME IInv, ~disturbed, BodyDone
  PROVE  /\ Wire # <<>>
         /\ Dropped(Wire, Wire[1].of.len + 2, stream \o rest)
         /\ hdr \o buf = Units(Wire[1].of)
         /\ mhdr.type = Wire[1].of.type
<1>1. InStep /\ SocketTypes /\ nMsg \in Nat
  BY DEF IInv, SocketTypes
<1>2. /\ Len(hdr) = 2 /\ mhdr = [len |-> hdr[1].of.len, type |-> hdr[1].of.type]
      /\ total_rcvd_bytes = Len(buf) /\ Len(buf) <= mhdr.len
  BY <1>1 DEF InStep, Reading, BodyDone
<1>3. hdr \in Seq(AnyUnit) /\ buf \in Seq(AnyUnit) /\ mhdr.len \in Nat /\ Len(buf) \in Nat
  BY <1>1 DEF SocketTypes
<1>4. Len(buf) = mhdr.len
  BY <1>2, <1>3 DEF BodyDone, InBody
<1>5. PICK g \in Seq(AnyUnit), w \in Seq(AnyUnit) :
        g = hdr \o buf /\ w = stream \o rest /\ Len(g) = mhdr.len + 2 /\ g[1] = hdr[1]
  <2>1. hdr \o buf \in Seq(AnyUnit) /\ stream \o rest \in Seq(AnyUnit)
    BY <1>1, WireTypes
  <2>2. Len(hdr \o buf) = mhdr.len + 2 /\ (hdr \o buf)[1] = hdr[1]
    <3>1. PICK h \in Seq(AnyUnit), b \in Seq(AnyUnit) : h = hdr /\ b = buf
      BY <1>3
    <3>2. Len(h) = 2 /\ Len(b) = mhdr.len
      BY <1>2, <1>4, <3>1
    <3>3. Len(h \o b) = Len(h) + Len(b)
      BY ConcatProperties
    <3>4. \A k \in 1 .. Len(h) : (h \o b)[k] = h[k]
      OBVIOUS
    <3> QED
      BY <1>3, <3>1, <3>2, <3>3, <3>4
  <2> QED
    BY <2>1, <2>2, Zenon
<1>6. Wire = g \o w /\ Wire \in Seq(AnyUnit)
  BY <1>1, <1>5, WireTypes DEF Wire
<1>7. /\ Len(Wire) = Len(g) + Len(w) /\ Len(g) \in Nat /\ Len(w) \in Nat /\ Len(g) >= 2
      /\ \A k \in 1 .. Len(g) : Wire[k] = g[k] /\ k \in 1 .. Len(Wire)
      /\ \A k \in 1 .. Len(w) : w[k] = Wire[k + Len(g)]
  <2>1. Len(g) \in Nat /\ Len(w) \in Nat /\ Len(g) >= 2
    BY <1>3, <1>5
  <2>2. Len(g \o w) = Len(g) + Len(w)
    BY ConcatProperties
  <2>3. \A k \in 1 .. Len(g) : (g \o w)[k] = g[k]
    OBVIOUS
  <2>4. \A k \in 1 .. Len(w) : w[k] = (g \o w)[k + Len(g)]
    OBVIOUS
  <2> QED
    BY <1>6, <2>1, <2>2, <2>3, <2>4
<1>8. Wire # <<>> /\ Wire[1] = hdr[1] /\ Framed(Wire, nMsg)
  BY <1>1, <1>5, <1>6, <1>7 DEF InStep
<1>9. Len(g) = Wire[1].of.len + 2 /\ mhdr.type = Wire[1].of.type
  BY <1>2, <1>5, <1>8
<1>10. Dropped(Wire, Wire[1].of.len + 2, w)
  BY <1>7, <1>9 DEF Dropped
<1>11. g = Units(Wire[1].of)
  <2>1. PICK m \in AnyMessage : m = Wire[1].of
    BY <1>6, <1>8, FirstMessage, UnitFields, <1>1
  <2>2. /\ Units(m) \in Seq(AnyUnit) /\ Len(Units(m)) = Len(g)
        /\ \A k \in 1 .. Len(g) : Units(m)[k] = [of |-> m, part |-> k - 1]
    BY <1>9, <2>1, UnitsOf
  <2>3. \A k \in 1 .. Len(g) : g[k] = [of |-> m, part |-> k - 1]
    <3>1. \A k \in 1 .. Len(Wire) :
            k <= Wire[1].of.len + 2 =>
              Wire[k] = [of |-> Wire[1].of, part |-> k - 1]
      BY <1>1, <1>6, <1>8, FirstMessage
    <3> QED
      BY <1>7, <1>9, <2>1, <3>1
  <2>4. g = Units(m)
    BY <2>2, <2>3, SeqEqual
  <2> QED
    BY <2>1, <2>4
<1> QED
  BY <1>5, <1>8, <1>9, <1>10, <1>11

\* An event message goes to the queue, any other is discarded.
LEMMA DispatchStep == IInv /\ (dispatch_event \/ dispatch_other) => IInv'
<1> SUFFICES ASSUME IInv, dispatch_event \/ dispatch_other
             PROVE  IInv'
  OBVIOUS
<1>1. /\ BodyDone /\ hdr' = <<>> /\ buf' = <<>> /\ mhdr' = NoHeader /\ total_rcvd_bytes' = 0
      /\ pc' = "poll" /\ UNCHANGED <<stream, rest, peer, nMsg, sent, disturbed>>
  BY DEF dispatch_event, dispatch_other, BodyDone, conn, bytes, env, history
<1>2. /\ mhdr.type = "event" => got' = IF disturbed THEN got ELSE Append(got, hdr \o buf)
      /\ mhdr.type # "event" => got' = got
  BY DEF dispatch_event, dispatch_other, history
<1>3. SocketTypes'
  <2>1. mhdr' \in [len : Nat, type : Types]
    BY <1>1 DEF NoHeader, Types
  <2>2. got' \in Seq(Seq(AnyUnit))
    <3>1. CASE got' = got
      BY <3>1 DEF IInv, SocketTypes
    <3>2. CASE ~disturbed /\ got' = Append(got, hdr \o buf)
      <4>1. hdr \o buf \in Seq(AnyUnit) /\ got \in Seq(Seq(AnyUnit))
        BY <3>2, WireTypes DEF IInv, SocketTypes
      <4> QED
        BY <3>2, <4>1, AppendProperties
    <3> QED
      BY <1>2, <3>1, <3>2
  <2> QED
    BY <1>1, <2>1, <2>2 DEF IInv, SocketTypes
<1>4. NotReading' /\ RestShape' /\ Numbered(sent, nMsg)'
  BY <1>1 DEF IInv, NotReading, RestShape
<1>5. ASSUME ~disturbed
      PROVE  InStep'
  <2>1. /\ Wire # <<>> /\ Dropped(Wire, Wire[1].of.len + 2, stream \o rest)
        /\ hdr \o buf = Units(Wire[1].of) /\ mhdr.type = Wire[1].of.type
    BY <1>1, <1>5, MessageRead
  <2>2. Wire \in Seq(AnyUnit) /\ stream \o rest \in Seq(AnyUnit)
    BY <1>5, WireTypes DEF IInv
  <2>3. /\ InStep /\ Numbered(sent, nMsg) /\ nMsg \in Nat
        /\ sent \in Seq(AnyMessage) /\ got \in Seq(Seq(AnyUnit))
    BY <1>5 DEF IInv, SocketTypes
  <2>4. Framed(Wire, nMsg) /\ Owed(Wire, sent, Len(got)) /\ GotOK /\ RestOK
    BY <2>3 DEF InStep
  <2>5. Wire' = stream \o rest
    <3>1. ASSUME NEW z \in Seq(AnyUnit)
          PROVE  (<<>> \o <<>>) \o z = z
      OBVIOUS
    <3>2. Wire' = (<<>> \o <<>>) \o (stream \o rest)
      BY <1>1 DEF Wire
    <3> QED
      BY <2>2, <3>1, <3>2
  <2>6. Framed(Wire', nMsg) /\ (Whole(Wire) => Whole(Wire'))
    BY <2>1, <2>2, <2>3, <2>4, <2>5, FramedDrop
  <2>7. Len(got) \in Nat
    BY <2>3
  <2>8. /\ Owed(Wire', sent, Len(got'))
        /\ Complete(Wire, sent, Len(got)) => Complete(Wire', sent, Len(got'))
        /\ GotOK'
    <3>1. CASE mhdr.type = "event"
      <4>1. got' = Append(got, Units(Wire[1].of))
        BY <1>2, <1>5, <2>1, <3>1
      <4>2. Len(got) + 1 \in 1 .. Len(sent) /\ Wire[1].of = sent[Len(got) + 1]
        BY <2>1, <2>2, <2>3, <2>4, <2>7, <3>1, FirstIsNext
      <4>3. /\ Len(got') = Len(got) + 1 /\ got'[Len(got) + 1] = Units(sent[Len(got) + 1])
            /\ \A i \in 1 .. Len(got) : got'[i] = got[i]
        <5>1. PICK u : u = Units(Wire[1].of)
          OBVIOUS
        <5>2. Wire[1].of \in AnyMessage
          BY <2>3, <4>2, MessageFields
        <5>3. u \in Seq(AnyUnit)
          BY <5>1, <5>2, UnitsOf
        <5>4. /\ Len(got') = Len(got) + 1 /\ got'[Len(got) + 1] = u
              /\ \A i \in 1 .. Len(got) : got'[i] = got[i]
          BY <2>3, <4>1, <5>1, <5>3, AppendProperties
        <5> QED
          BY <4>2, <5>1, <5>4
      <4>4. \A i \in 1 .. Len(got') : i \in 1 .. Len(got) \/ i = Len(got) + 1
        BY <2>7, <4>3
      <4>5. GotOK'
        BY <1>1, <2>4, <2>7, <4>2, <4>3, <4>4 DEF GotOK
      <4>6. /\ Owed(Wire', sent, Len(got) + 1)
            /\ (Complete(Wire, sent, Len(got)) => Complete(Wire', sent, Len(got) + 1))
        BY <2>1, <2>2, <2>3, <2>4, <2>5, <2>7, <3>1, OwedAfterEvent
      <4> QED
        BY <4>3, <4>5, <4>6
    <3>2. CASE mhdr.type # "event"
      <4>1. /\ Owed(Wire', sent, Len(got))
            /\ (Complete(Wire, sent, Len(got)) => Complete(Wire', sent, Len(got)))
        BY <2>1, <2>2, <2>3, <2>4, <2>5, <2>7, <3>2, OwedAfterOther
      <4> QED
        BY <1>1, <1>2, <2>4, <3>2, <4>1 DEF GotOK
    <3> QED
      BY <3>1, <3>2
  <2>9. RestOK' /\ Reading'
    BY <1>1, <2>4 DEF RestOK, Reading
  <2> QED
    BY <1>1, <2>3, <2>6, <2>8, <2>9 DEF InStep
<1> QED
  BY <1>1, <1>3, <1>4, <1>5 DEF IInv

\* A failed server sends nothing more: the last message may be cut short, or lost.
LEMMA CutStep ==
  ASSUME IInv, rest' = <<>>, peer' # "alive",
         UNCHANGED <<pc, hdr, mhdr, buf, total_rcvd_bytes, stream, nMsg, sent, got, disturbed>>
  PROVE  IInv'
<1>1. SocketTypes' /\ NotReading' /\ RestShape' /\ Numbered(sent, nMsg)'
  <2>1. <<>> \in Seq(AnyUnit) /\ Len(<<>>) = 0
    OBVIOUS
  <2> QED
    BY <2>1 DEF IInv, SocketTypes, NotReading, RestShape
<1>2. ASSUME ~disturbed
      PROVE  InStep'
  <2>1. /\ InStep /\ Numbered(sent, nMsg) /\ nMsg \in Nat
        /\ sent \in Seq(AnyMessage) /\ Len(got) \in Nat
    BY <1>2 DEF IInv, SocketTypes
  <2>2. /\ hdr \o buf \in Seq(AnyUnit) /\ stream \in Seq(AnyUnit)
        /\ rest \in Seq(AnyUnit) /\ Wire \in Seq(AnyUnit)
    BY <1>2, WireTypes DEF IInv, SocketTypes
  <2>3. PICK g \in Seq(AnyUnit), r \in Seq(AnyUnit) :
          r = rest /\ Wire = g \o r /\ Wire' = g
    <3>1. PICK b \in Seq(AnyUnit), y \in Seq(AnyUnit), r \in Seq(AnyUnit) :
            b = hdr \o buf /\ y = stream /\ r = rest
      BY <2>2
    <3>2. b \o (y \o r) = (b \o y) \o r /\ b \o (y \o <<>>) = b \o y /\ b \o y \in Seq(AnyUnit)
      OBVIOUS
    <3>3. Wire = b \o (y \o r)
      BY <3>1 DEF Wire
    <3>4. Wire' = b \o (y \o <<>>)
      BY <3>1 DEF Wire
    <3> QED
      BY <3>1, <3>2, <3>3, <3>4, Zenon
  <2>4. Len(Wire) = Len(g) + Len(r) /\ Len(g) \in Nat /\ Len(r) \in Nat
    BY <2>3, ConcatProperties
  <2>5. \A k \in 1 .. Len(g) : g[k] = Wire[k]
    BY <2>3
  <2>6. \A k \in 1 .. Len(r) : (g \o r)[Len(g) + k] = r[k]
    OBVIOUS
  <2>7. Cut(Wire, g)
    BY <2>4, <2>5 DEF Cut
  <2>8. ASSUME NEW k \in 1 .. Len(Wire), k > Len(g), Wire[k].of.type = "event"
        PROVE  Wire[k].of = sent[Len(sent)]
    <3>1. k - Len(g) \in 1 .. Len(r) /\ Len(g) + (k - Len(g)) = k
      BY <2>4, <2>8
    <3>2. Wire[k] = r[k - Len(g)]
      BY <2>3, <2>6, <3>1
    <3> QED
      BY <2>1, <2>3, <2>8, <3>1, <3>2 DEF InStep, RestOK
  <2>9. Framed(g, nMsg)
    BY <2>1, <2>2, <2>7, FramedCut DEF InStep
  <2>10. Owed(g, sent, Len(got))
    BY <2>1, <2>2, <2>7, <2>8, OwedCut DEF InStep
  <2>11. RestOK' /\ GotOK' /\ Reading'
    BY <2>1 DEF InStep, RestOK, GotOK, Reading
  <2> QED
    BY <2>3, <2>9, <2>10, <2>11 DEF InStep
<1> QED
  BY <1>1, <1>2 DEF IInv

\* A connection is taken as confirmed, with the answer, or a part of it, to come.
LEMMA ConnectStep ==
  ASSUME IInv, NEW s \in Servers, connect_confirmed(s) \/ connect_late(s)
  PROVE  IInv'
<1>1. /\ pc # "body" /\ pc' # "body" /\ stream' = <<>> /\ sent' = <<>> /\ got' = <<>>
      /\ UNCHANGED <<hdr, mhdr, buf, total_rcvd_bytes, nMsg>>
  BY DEF connect_confirmed, connect_late, Connected, Servers, message
<1>2. hdr' = <<>> /\ buf' = <<>> /\ mhdr' \in [len : Nat, type : Types] /\ total_rcvd_bytes' \in Int
  BY <1>1 DEF IInv, NotReading, SocketTypes
<1>3. CASE connect_confirmed(s)
  <2>1. rest' = <<>> /\ disturbed' = FALSE
    BY <1>3 DEF connect_confirmed, Connected
  <2>2. rest' \in Seq(AnyUnit) /\ RestShape'
    BY <2>1 DEF RestShape
  <2> QED
    BY <1>1, <1>2, <2>1, <2>2, Fresh
<1>4. CASE connect_late(s)
  <2>1. PICK k \in 0 .. 2 : rest' = SubSeq(Units(OpenConf), k + 1, 3) /\ disturbed' = (k # 0)
    BY <1>4 DEF connect_late, Connected, OpenConf
  <2>2. disturbed' \in BOOLEAN /\ (~disturbed' => k = 0)
    BY <2>1, Zenon
  <2>3. PICK u \in Seq(AnyUnit) :
          /\ u = Units(OpenConf) /\ Len(u) = 3
          /\ \A i \in 1 .. 3 : u[i] = [of |-> OpenConf, part |-> i - 1]
    <3>1. OpenConf \in AnyMessage /\ OpenConf.len + 2 = 3
      BY DEF OpenConf, AnyMessage, Types
    <3> QED
      BY <3>1, UnitsOf
  <2>4. /\ rest' \in Seq(AnyUnit) /\ Len(rest') = 3 - k
        /\ \A i \in 1 .. 3 - k : rest'[i] = u[k + i]
    <3>1. PICK v : v = SubSeq(u, k + 1, Len(u))
      OBVIOUS
    <3>2. k \in 0 .. Len(u) /\ rest' = v
      BY <2>1, <2>3, <3>1
    <3>3. v \in Seq(AnyUnit) /\ Len(v) = Len(u) - k /\ \A i \in 1 .. Len(u) - k : v[i] = u[k + i]
      BY <3>1, <3>2, CutInTwo
    <3> QED
      BY <2>3, <3>2, <3>3
  <2>5. \A i \in 1 .. Len(rest') : rest'[i].part = k + i - 1
    <3> TAKE i \in 1 .. Len(rest')
    <3>1. k + i \in 1 .. 3 /\ i \in 1 .. 3 - k
      BY <2>4
    <3>2. rest'[i] = [of |-> OpenConf, part |-> k + i - 1]
      BY <2>3, <2>4, <3>1
    <3> QED
      BY <3>2
  <2>6. RestShape'
    <3>1. \A i \in 2 .. Len(rest') : rest'[i].part # 0
      BY <2>4, <2>5
    <3>2. ASSUME rest' # <<>>, rest'[1].part = 0
          PROVE  Len(rest') >= 2
      <4>1. 1 \in 1 .. Len(rest')
        BY <2>4
      <4>2. k + 1 - 1 = 0
        BY <2>5, <3>2, <4>1
      <4> QED
        BY <2>4, <4>2
    <3> QED
      BY <3>1, <3>2 DEF RestShape
  <2>7. ~disturbed' => rest' = Units(OpenConf)
    <3> SUFFICES ASSUME k = 0
                 PROVE  rest' = u
      BY <2>2, <2>3
    <3>1. rest' = SubSeq(u, 1, Len(u))
      BY <2>1, <2>3
    <3> QED
      BY <3>1, SubSeqFull
  <2> QED
    BY <1>1, <1>2, <2>2, <2>4, <2>6, <2>7, Fresh
<1> QED
  BY <1>3, <1>4

\* A receive fails: the connection is disturbed until it ends.
LEMMA ErrorStep == IInv /\ body_error => IInv'
<1> SUFFICES ASSUME IInv, body_error
             PROVE  IInv'
  OBVIOUS
<1>1. /\ pc = "body" /\ disturbed' = TRUE /\ total_rcvd_bytes' = total_rcvd_bytes - 1
      /\ UNCHANGED <<pc, hdr, mhdr, buf, stream, rest, nMsg, sent, got>>
  BY DEF body_error, InBody, control, bytes
<1> QED
  BY <1>1 DEF IInv, SocketTypes, NotReading, RestShape

-----------------------------------------------------------------------------
(* The invariant is kept *)

LEMMA InitIInv == Init => IInv
<1> SUFFICES ASSUME Init
             PROVE  IInv
  OBVIOUS
<1>1. SocketTypes /\ NotReading /\ RestShape /\ Numbered(sent, nMsg)
  <2>1. SocketTypes
    <3>1. mhdr \in [len : Nat, type : Types]
      BY DEF Init, NoHeader, Types
    <3>2. \A S : <<>> \in Seq(S)
      OBVIOUS
    <3>3. disturbed \in BOOLEAN
      BY DEF Init
    <3> QED
      BY <3>1, <3>2, <3>3 DEF Init, SocketTypes
  <2> QED
    BY <2>1 DEF Init, NotReading, RestShape, Numbered
<1>2. Wire = <<>>
  BY DEF Init, Wire
<1>3. /\ Framed(Wire, nMsg) /\ Whole(Wire) /\ Owed(Wire, sent, Len(got))
      /\ Complete(Wire, sent, Len(got))
  BY <1>2, EmptyWire DEF Init
<1>4. RestOK /\ GotOK /\ Reading
  BY DEF Init, RestOK, GotOK, Reading
<1> QED
  BY <1>1, <1>3, <1>4 DEF IInv, InStep

LEMMA RunIInv == IInv /\ Run => IInv'
<1> SUFFICES ASSUME IInv, Run
             PROVE  IInv'
  OBVIOUS
<1>1. /\ mhdr \in [len : Nat, type : Types] /\ total_rcvd_bytes \in Int
      /\ pc # "body" => hdr = <<>> /\ buf = <<>>
  BY DEF IInv, SocketTypes, NotReading
<1>2. ASSUME NEW s \in Servers, connect_skip(s)
      PROVE  IInv'
  BY <1>2, Quiet DEF connect_skip, Servers, Other, message, conn, bytes, env, history
<1>3. ASSUME NEW s \in Servers, connect_fail(s)
      PROVE  IInv'
  BY <1>3, Quiet DEF connect_fail, Servers, Other, message, conn, bytes, history
<1>4. CASE poll_readable
  BY <1>4, Quiet DEF poll_readable, message, conn, bytes, env, history
<1>5. CASE poll_timeout
  BY <1>5, Quiet DEF poll_timeout, message, conn, bytes, env, history
<1>6. CASE peek
  BY <1>6, Quiet DEF peek, message, bytes, env, history
<1>7. CASE heartbeat
  <2>1. CASE Disconnect
    BY <1>1, <1>7, <2>1, DisconnectStep DEF heartbeat, message, env
  <2>2. CASE ~Disconnect
    BY <1>7, <2>2, Quiet DEF heartbeat, message, bytes, env, history
  <2> QED
    BY <2>1, <2>2
<1>8. CASE header_fail
  BY <1>1, <1>8, DisconnectStep DEF header_fail, message, env
<1>9. CASE dispatch_bad
  <2>1. mhdr' \in [len : Nat, type : Types] /\ total_rcvd_bytes' \in Int
    BY <1>9 DEF dispatch_bad, BodyDone, NoHeader, Types
  <2> QED
    BY <1>9, <2>1, DisconnectStep DEF dispatch_bad, BodyDone, env
<1> QED
  BY <1>2, <1>3, <1>4, <1>5, <1>6, <1>7, <1>8, <1>9,
     ConnectStep, HeaderStep, BodyStep, ErrorStep, DispatchStep DEF Run

LEMMA NextIInv == IInv /\ [Next]_vars => IInv'
<1> SUFFICES ASSUME IInv, [Next]_vars
             PROVE  IInv'
  OBVIOUS
<1>1. ASSUME NEW s \in Servers, ServerDown(s)
      PROVE  IInv'
  <2>1. CASE server = s /\ peer = "alive"
    BY <1>1, <2>1, CutStep DEF ServerDown, control, message, history
  <2>2. CASE ~(server = s /\ peer = "alive")
    BY <1>1, <2>2, Quiet DEF ServerDown, control, message, history
  <2> QED
    BY <2>1, <2>2
<1>2. ASSUME NEW s \in Servers, ServerUp(s)
      PROVE  IInv'
  BY <1>2, Quiet DEF ServerUp, control, message, conn, bytes, history
<1>3. CASE TcpGivesUp
  BY <1>3, Quiet DEF TcpGivesUp, control, message, bytes, env, history
<1>4. CASE UNCHANGED vars
  BY <1>4, Quiet DEF vars, control, message, conn, bytes, env, history
<1> QED
  BY <1>1, <1>2, <1>3, <1>4, RunIInv, BeginStep, ArriveStep DEF Next

\* When everything has been read, nothing is owed.
LEMMA IInvFramingKept == IInv => FramingKept
<1> SUFFICES ASSUME IInv, ~disturbed
             PROVE  FramingKept
  BY DEF FramingKept
<1>1. InStep
  BY DEF IInv
<1>2. ASSUME pc = "poll", stream = <<>>, rest = <<>>, peer = "alive"
      PROVE  Len(got) = Len(sent)
  <2>1. Wire = <<>>
    BY <1>2 DEF IInv, NotReading, Wire
  <2>2. \A i \in Len(got) + 1 .. Len(sent) : Begins(<<>>, sent[i])
    BY <1>1, <1>2, <2>1 DEF InStep, Complete
  <2>3. \A m : ~Begins(<<>>, m)
    BY DEF Begins
  <2>4. Len(got) \in Nat /\ Len(sent) \in Nat /\ Len(got) <= Len(sent)
    BY <1>1 DEF IInv, SocketTypes, InStep, GotOK
  <2> QED
    BY <2>2, <2>3, <2>4
<1> QED
  BY <1>1, <1>2 DEF FramingKept, InStep, GotOK

\* On a connection whose headers arrive in one piece and on which no receive fails,
\* the CTI queue gets exactly the event messages, whole and in order, and when all
\* that was sent has been read none is missing (Run, ctisocketif.cpp).
THEOREM FramingAlwaysKept == Spec => []FramingKept
<1>1. IInv /\ [Next]_vars => IInv'
  BY NextIInv
<1> QED
  BY <1>1, InitIInv, IInvFramingKept, PTL DEF Spec
=============================================================================
