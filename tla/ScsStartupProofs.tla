-------------------------- MODULE ScsStartupProofs --------------------------
(***************************************************************************)
(* Proofs about VasConfig and ScsStartup for every set of configurations,   *)
(* every number of slots, of servers and of reloads.                        *)
(*                                                                         *)
(* ScsStartup implements VasConfig (StartRefines), so what holds of loading *)
(* and looking up alone holds while main and the other threads run.  The    *)
(* inductive invariant of VasConfig (CfgInv) says how far the loader is in  *)
(* the files, and that the table is what the lines passed so far make it:   *)
(* each prefix in the slot that is its rank in the configuration.  On top   *)
(* of it, ExitInv is about the texts of the servers and HandlerInv about    *)
(* the counter of servers and the handlers that main has created.           *)
(***************************************************************************)
EXTENDS ScsStartup, FiniteSetTheorems, WellFoundedInduction, TLAPS

-----------------------------------------------------------------------------
(* The invariant of VasConfig *)

\* Lines of the configuration that are done; the range file that is being read,
\* how many of its lines are done, and the position of the next one.
Done == Len(config) - Len(todo)
RangeFile == config[Done + 1].lines
LDone == Len(RangeFile) - Len(lines)
Here == <<Done + 1, LDone + 1>>
InFile == pc \in {"lines", "put"}

\* The table belongs to the configuration, or still to the one before.
Filling == pc \notin {"clearIp", "clearRange", "exited"}
Source == IF pc \in {"clearIp", "clearRange"} THEN before ELSE config

\* What is left to do is the rest of the configuration and of the range file, in
\* which no faulty line has been met.
LoaderOK ==
  /\ todo \in Seq(ConfigLine)
  /\ \A k \in 1 .. Len(todo) : todo[k] = config[Done + k]
  /\ pc \in {"clearIp", "clearRange"} => Len(todo) = Len(config)
  /\ pc = "idle" => todo = <<>>
  /\ pc = "count" => todo # <<>> /\ Head(todo).kind = "server"
  /\ InFile =>
       /\ todo # <<>> /\ Head(todo).kind = "range"
       /\ Len(lines) <= Len(RangeFile)
       /\ \A k \in 1 .. Len(lines) : lines[k] = RangeFile[LDone + k]
       /\ \A l \in 1 .. LDone : Good(config, <<Done + 1, l>>)
  /\ pc = "put" => /\ lines # <<>>
                   /\ Head(lines).prefix # BadPrefix
                   /\ g_vas_ip_01[slot] = Head(lines).prefix

\* A slot holds the prefix whose rank it is, and numbers of such a prefix.
Slotted(c) ==
  /\ \A s \in Slots :
       g_vas_ip_01[s] # -1 => g_vas_ip_01[s] \in PrefixesOf(c) /\ Rank(c, g_vas_ip_01[s]) = s
  /\ \A s \in Slots, z \in Suffixes :
       g_vas_range[s][z] # -1 =>
         \E y \in PrefixesOf(c) : /\ Rank(c, y) = s
                                  /\ g_vas_range[s][z] \in Numbers(c, [prefix |-> y, suffix |-> z])

\* How far the table has been cleared.
Cleared ==
  /\ pc = "clearIp" => \A s \in Slots : s < slot => g_vas_ip_01[s] = -1
  /\ pc = "clearRange" => /\ \A s \in Slots : g_vas_ip_01[s] = -1
                          /\ \A s \in Slots, z \in Suffixes : s < slot => g_vas_range[s][z] = -1

\* Positions that have been passed, and those whose prefix has been given a slot.
Passed ==
  {q \in Reached(config) : q[1] <= Done \/ (InFile /\ q[1] = Done + 1 /\ q[2] <= LDone)}

Claimed == Passed \cup (IF pc = "put" THEN {Here} ELSE {})

Fits == Cardinality(PrefixesOf(config)) <= MAX_IP_01

\* A prefix that has a slot has been met; the slots are taken in order; a prefix that
\* has been met has a slot, unless all are taken; a number is one of its address.
Taken == \A s \in Slots : g_vas_ip_01[s] # -1 =>
           \E q \in Claimed : At(config, q).prefix = g_vas_ip_01[s]
InOrder == \A s, t \in Slots : s < t /\ g_vas_ip_01[t] # -1 => g_vas_ip_01[s] # -1
Complete ==
  \A q \in Claimed : \/ \E s \in Slots : g_vas_ip_01[s] = At(config, q).prefix
                     \/ \A s \in Slots : g_vas_ip_01[s] # -1
OwnNumbers ==
  \A s \in Slots, z \in Suffixes : g_vas_range[s][z] # -1 =>
    /\ g_vas_ip_01[s] # -1
    /\ g_vas_range[s][z] \in Numbers(config, [prefix |-> g_vas_ip_01[s], suffix |-> z])

\* If the prefixes fit, the last line passed of an address gives the number.
PassedAt(a) == {q \in Passed : At(config, q) = a}
LastOf(P, q) == q \in P /\ \A r \in P : r = q \/ Before(r, q)
Says(P, n) == IF P = {} THEN n = -1 ELSE \E q \in P : LastOf(P, q) /\ n = config[q[1]].no
LastWins ==
  Fits => \A s \in Slots, z \in Suffixes : g_vas_ip_01[s] # -1 =>
            Says(PassedAt([prefix |-> g_vas_ip_01[s], suffix |-> z]), g_vas_range[s][z])

TableOK == Filling => Taken /\ InOrder /\ Complete /\ OwnNumbers /\ LastWins

\* A lookup knows the configurations whose table it reads; a slot that it has found is
\* that of its prefix in one of them.
LookupOK ==
  /\ lpc # "idle" => config \in seen /\ (pc # "idle" => before \in seen)
  /\ lpc \in {"scan", "read"} => ask \in Address
  /\ lpc = "scan" => vasno = -1
  /\ lpc = "read" => \E c \in seen : ask.prefix \in PrefixesOf(c) /\ Rank(c, ask.prefix) = i

CfgInv == TypeOK /\ LoaderOK /\ Slotted(Source) /\ Cleared /\ TableOK /\ LookupOK /\ NoMisroute

-----------------------------------------------------------------------------
(* The invariant of ScsStartup *)

\* Server lines that are done, those of them with a value, and whether there is one.
ServersDone == {e \in ServerLines(config) : e <= Done}
ValuedDone == {e \in ServersDone : config[e].ip # NoValue}
Met == Filling /\ (ServersDone # {} \/ pc = "count")

Origins == config \in loads /\ before \in loads /\ loads \subseteq Configs

\* A stored text is as long as one of its kind that has been loaded.
TextsKnown ==
  \A index \in 0 .. MAX_VAS_SERVER_COUNT :
    \/ szVasServerIp[index] = <<>>
    \/ \E c \in loads : \E k \in 1 .. Len(c) :
         /\ c[k].kind = IF index < MAX_VAS_SERVER_COUNT THEN "server" ELSE "extra"
         /\ c[k].ip \notin {NoValue, NoColon}
         /\ Len(c[k].ip) = Len(szVasServerIp[index])

\* The counter stays inside the array.
CountBounded == Met => nVasServerCount <= Cardinality(ServersDone)

ExitInv == Origins /\ TextsKnown /\ CountBounded /\ ExitNeedsReason

\* The counter never exceeds the number of servers.
CountExact ==
  Regular(loads) => /\ nVasServerCount <= Servers(config)
                    /\ Met => nVasServerCount = Cardinality(ValuedDone)

\* The EXTRA server has a port once its line is done.
ExtraNamed(n) == \E e \in 1 .. n : config[e].kind = "extra" /\ config[e].ip # NoValue
ExtraKnown ==
  /\ Filling /\ ExtraNamed(Done) => usVasServerPortExtra
  /\ Regular(loads) /\ started => usVasServerPortExtra

NumberGiven ==
  vasno # -1 => \E c \in loads : \E e \in 1 .. Len(c) : c[e].kind = "range" /\ c[e].no = vasno

MainTypes ==
  /\ g_vasIfHandler \in [Handlers -> {"none", "bare", "ready"}]
  /\ m \in Nat
  /\ p \in Nat
  /\ mpc # "load" => started

\* How many handlers main has created.
Created ==
  Regular(loads) =>
    /\ \A h \in Handlers : h < m => g_vasIfHandler[h] = "ready"
    /\ mpc \in {"new", "queue"} => m < Servers(config)
    /\ mpc \in {"extra", "extraQueue", "run"} /\ ~overlap => m >= Servers(config)
    /\ mpc = "run" => g_vasExtra = "ready"

HandlerInv == CountExact /\ ExtraKnown /\ NumberGiven /\ MainTypes /\ Created /\ NoMissingHandler

-----------------------------------------------------------------------------
(* Configurations *)

\* What ConfigAssumption says of a line.
LEMMA LineFacts ==
  ASSUME NEW c \in Configs, NEW e \in 1 .. Len(c)
  PROVE  /\ c[e].no \in Nat \ {0}
         /\ c[e].kind \in {"server", "extra", "range"}
         /\ c[e].kind = "range" => c[e].lines \in Seq(Line)
         /\ c[e].kind # "range" => c[e].ip \in {NoValue, NoColon} \cup Text
<1>1. c[e] \in ConfigLine
  BY ConfigAssumption
<1>2. CASE c[e] \in [kind : {"server", "extra"}, no : Nat \ {0},
                     ip : {NoValue, NoColon} \cup Text]
  BY <1>2
<1>3. CASE c[e] \in [kind : {"range"}, no : Nat \ {0}, exists : BOOLEAN, lines : Seq(Line)]
  BY <1>3
<1> QED
  BY <1>1, <1>2, <1>3 DEF ConfigLine

\* A position is a pair of the number of a RANGE_FILE line and of a line of that file.
LEMMA PositionFacts ==
  ASSUME NEW c, NEW q \in Positions(c)
  PROVE  /\ q = <<q[1], q[2]>>
         /\ q[1] \in 1 .. Len(c)
         /\ c[q[1]].kind = "range"
         /\ q[2] \in 1 .. Len(c[q[1]].lines)
<1>1. PICK e \in {k \in 1 .. Len(c) : c[k].kind = "range"} :
        q \in {<<e, l>> : l \in 1 .. Len(c[e].lines)}
  BY DEF Positions
<1>2. PICK l \in 1 .. Len(c[e].lines) : q = <<e, l>>
  BY <1>1
<1>3. q[1] = e /\ q[2] = l
  BY <1>2
<1> QED
  BY <1>1, <1>2, <1>3

LEMMA PositionMade ==
  ASSUME NEW c, NEW e \in 1 .. Len(c), c[e].kind = "range", NEW l \in 1 .. Len(c[e].lines)
  PROVE  <<e, l>> \in Positions(c)
<1>1. e \in {k \in 1 .. Len(c) : c[k].kind = "range"}
  OBVIOUS
<1>2. <<e, l>> \in {<<e, j>> : j \in 1 .. Len(c[e].lines)}
  OBVIOUS
<1> QED
  BY <1>1, <1>2 DEF Positions

LEMMA AtFacts ==
  ASSUME NEW c \in Configs, NEW q \in Positions(c)
  PROVE  /\ At(c, q) \in Line
         /\ c[q[1]].no \in Nat \ {0}
         /\ q[1] \in Nat \ {0} /\ q[2] \in Nat \ {0}
<1>1. q[1] \in 1 .. Len(c) /\ c[q[1]].kind = "range" /\ q[2] \in 1 .. Len(c[q[1]].lines)
  BY PositionFacts
<1>2. c[q[1]].lines \in Seq(Line) /\ c[q[1]].no \in Nat \ {0}
  BY <1>1, LineFacts
<1>3. Len(c) \in Nat /\ Len(c[q[1]].lines) \in Nat
  BY <1>2, ConfigAssumption
<1> QED
  BY <1>1, <1>2, <1>3 DEF At

\* A prefix that a configuration uses is one.
LEMMA PrefixFacts ==
  ASSUME NEW c \in Configs, NEW x \in PrefixesOf(c)
  PROVE  x \in Prefixes /\ x # -1
<1>1. PICK q \in Reached(c) : x = At(c, q).prefix
  BY DEF PrefixesOf
<1>2. q \in Positions(c) /\ x # BadPrefix
  BY <1>1 DEF Reached
<1>3. At(c, q) \in Line
  BY <1>2, AtFacts
<1> QED
  BY <1>1, <1>2, <1>3, BadAssumption DEF Line

\* The image of a finite set is finite.
LEMMA ImageFinite ==
  ASSUME NEW S, IsFiniteSet(S), NEW f, f = [x \in S |-> f[x]]
  PROVE  IsFiniteSet({f[x] : x \in S})
<1> DEFINE T == {f[x] : x \in S}
<1>1. f \in Surjection(S, T)
  BY DEF Surjection
<1> QED
  BY <1>1, FS_Surjection

\* A configuration names finitely many prefixes.
LEMMA PrefixesFinite ==
  ASSUME NEW c \in Configs
  PROVE  IsFiniteSet(PrefixesOf(c))
<1> DEFINE E == {k \in 1 .. Len(c) : c[k].kind = "range"}
           F == [e \in E |-> {<<e, l>> : l \in 1 .. Len(c[e].lines)}]
<1>1. IsFiniteSet(E)
  <2>1. Len(c) \in Nat
    BY ConfigAssumption
  <2>2. IsFiniteSet(1 .. Len(c))
    BY <2>1, FS_Interval
  <2> QED
    BY <2>2, FS_Subset
<1>2. ASSUME NEW e \in E
      PROVE  IsFiniteSet(F[e])
  <2> DEFINE G == [l \in 1 .. Len(c[e].lines) |-> <<e, l>>]
  <2>1. Len(c[e].lines) \in Int
    BY LineFacts
  <2>2. IsFiniteSet(1 .. Len(c[e].lines))
    <3>1. \A n \in Int : IsFiniteSet(1 .. n)
      BY FS_Interval
    <3> QED
      BY <2>1, <3>1, Zenon
  <2>3. IsFiniteSet({G[l] : l \in 1 .. Len(c[e].lines)})
    <3>1. G = [l \in 1 .. Len(c[e].lines) |-> G[l]]
      OBVIOUS
    <3> HIDE DEF G
    <3> QED
      BY <2>2, <3>1, ImageFinite
  <2>4. F[e] = {G[l] : l \in 1 .. Len(c[e].lines)}
    OBVIOUS
  <2> QED
    BY <2>3, <2>4
<1>3. IsFiniteSet({F[e] : e \in E})
  <2>1. F = [e \in E |-> F[e]]
    OBVIOUS
  <2> HIDE DEF F
  <2> QED
    BY <1>1, <2>1, ImageFinite
<1>4. Positions(c) = UNION {F[e] : e \in E}
  <2>1. {F[e] : e \in E} = {{<<e, l>> : l \in 1 .. Len(c[e].lines)} : e \in E}
    OBVIOUS
  <2> QED
    BY <2>1, Zenon DEF Positions
<1>5. IsFiniteSet(Positions(c))
  <2> HIDE DEF F
  <2>1. \A T \in {F[e] : e \in E} : IsFiniteSet(T)
    BY <1>2
  <2> QED
    BY <1>3, <1>4, <2>1, FS_UNION
<1>6. IsFiniteSet(Reached(c))
  BY <1>5, FS_Subset DEF Reached
<1> DEFINE H == [q \in Reached(c) |-> At(c, q).prefix]
<1>7. H = [q \in Reached(c) |-> H[q]]
  OBVIOUS
<1>8. PrefixesOf(c) = {H[q] : q \in Reached(c)}
  BY DEF PrefixesOf
<1> HIDE DEF H
<1> QED
  BY <1>6, <1>7, <1>8, ImageFinite

-----------------------------------------------------------------------------
(* Types, and where the loader is *)

\* The next line of the configuration, and what is left after it.
LEMMA HeadFacts ==
  ASSUME TypeOK, LoaderOK, todo # <<>>
  PROVE  /\ config \in Configs /\ Len(config) \in Nat /\ Done \in Nat
         /\ Done + 1 \in 1 .. Len(config)
         /\ Head(todo) = config[Done + 1]
         /\ Head(todo).no \in Nat \ {0}
         /\ Head(todo).kind \in {"server", "extra", "range"}
         /\ Head(todo).kind = "range" => Head(todo).lines \in Seq(Line)
         /\ Head(todo).kind # "range" => Head(todo).ip \in {NoValue, NoColon} \cup Text
         /\ Tail(todo) \in Seq(ConfigLine)
         /\ Len(config) - Len(Tail(todo)) = Done + 1
         /\ Len(Tail(todo)) <= Len(config)
         /\ \A k \in 1 .. Len(Tail(todo)) : Tail(todo)[k] = config[Done + 1 + k]
<1>1. config \in Configs /\ config \in Seq(ConfigLine) /\ Len(todo) <= Len(config)
  BY ConfigAssumption DEF TypeOK
<1>2. todo \in Seq(ConfigLine) /\ \A k \in 1 .. Len(todo) : todo[k] = config[Done + k]
  BY DEF LoaderOK
<1>3. Len(config) \in Nat /\ Len(todo) \in Nat /\ Len(todo) >= 1
  BY <1>1, <1>2
<1>4. Done \in Nat /\ Done + 1 \in 1 .. Len(config)
  BY <1>1, <1>3 DEF Done
<1>5. Head(todo) = config[Done + 1]
  BY <1>2, <1>3
<1>6. Tail(todo) \in Seq(ConfigLine) /\ Len(Tail(todo)) = Len(todo) - 1
  BY <1>2
<1>7. \A k \in 1 .. Len(Tail(todo)) : Tail(todo)[k] = todo[k + 1]
  BY <1>2
<1>8. \A k \in 1 .. Len(Tail(todo)) : Tail(todo)[k] = config[Done + 1 + k]
  <2> SUFFICES ASSUME NEW k \in 1 .. Len(Tail(todo))
               PROVE  Tail(todo)[k] = config[Done + 1 + k]
    OBVIOUS
  <2>1. k + 1 \in 1 .. Len(todo) /\ Done + (k + 1) = Done + 1 + k
    BY <1>3, <1>4, <1>6
  <2> QED
    BY <1>2, <1>7, <2>1
<1>9. Len(config) - Len(Tail(todo)) = Done + 1 /\ Len(Tail(todo)) <= Len(config)
  BY <1>1, <1>3, <1>6 DEF Done
<1> QED
  BY <1>1, <1>3, <1>4, <1>5, <1>6, <1>8, <1>9, LineFacts

\* The next line of the range file, and what is left after it.
LEMMA HereFacts ==
  ASSUME TypeOK, LoaderOK, InFile, lines # <<>>
  PROVE  /\ todo # <<>> /\ Head(todo).kind = "range" /\ RangeFile = Head(todo).lines
         /\ Done \in Nat /\ LDone \in Nat /\ Len(RangeFile) \in Nat
         /\ Here \in Positions(config)
         /\ Here[1] = Done + 1 /\ Here[2] = LDone + 1
         /\ At(config, Here) = Head(lines)
         /\ Head(lines) \in Line
         /\ Tail(lines) \in Seq(Line)
         /\ Len(RangeFile) - Len(Tail(lines)) = LDone + 1
         /\ Len(Tail(lines)) <= Len(RangeFile)
         /\ \A k \in 1 .. Len(Tail(lines)) : Tail(lines)[k] = RangeFile[LDone + 1 + k]
<1>1. todo # <<>> /\ Head(todo).kind = "range" /\ Len(lines) <= Len(RangeFile)
      /\ \A k \in 1 .. Len(lines) : lines[k] = RangeFile[LDone + k]
  BY DEF LoaderOK
<1>2. Done \in Nat /\ Done + 1 \in 1 .. Len(config) /\ Head(todo) = config[Done + 1]
      /\ Head(todo).lines \in Seq(Line)
  BY <1>1, HeadFacts
<1>3. RangeFile = Head(todo).lines /\ RangeFile \in Seq(Line) /\ Len(RangeFile) \in Nat
  BY <1>2 DEF RangeFile
<1>4. lines \in Seq(Line) /\ Len(lines) \in Nat /\ Len(lines) >= 1
  BY DEF TypeOK
<1>5. LDone \in Nat /\ LDone + 1 \in 1 .. Len(RangeFile)
  BY <1>1, <1>3, <1>4 DEF LDone
<1>6. Here[1] = Done + 1 /\ Here[2] = LDone + 1
  BY DEF Here
<1>7. Here \in Positions(config)
  <2>1. config[Done + 1].kind = "range" /\ LDone + 1 \in 1 .. Len(config[Done + 1].lines)
    BY <1>1, <1>2, <1>5 DEF RangeFile
  <2> QED
    BY <1>2, <2>1, PositionMade DEF Here
<1>8. Head(lines) = RangeFile[LDone + 1] /\ Head(lines) \in Line
  BY <1>1, <1>4
<1>9. At(config, Here) = Head(lines)
  BY <1>6, <1>8 DEF At, RangeFile
<1>10. Tail(lines) \in Seq(Line) /\ Len(Tail(lines)) = Len(lines) - 1
       /\ \A k \in 1 .. Len(Tail(lines)) : Tail(lines)[k] = lines[k + 1]
  BY <1>4
<1>11. \A k \in 1 .. Len(Tail(lines)) : Tail(lines)[k] = RangeFile[LDone + 1 + k]
  <2> SUFFICES ASSUME NEW k \in 1 .. Len(Tail(lines))
               PROVE  Tail(lines)[k] = RangeFile[LDone + 1 + k]
    OBVIOUS
  <2>1. k + 1 \in 1 .. Len(lines) /\ LDone + (k + 1) = LDone + 1 + k
    BY <1>4, <1>5, <1>10
  <2> QED
    BY <1>1, <1>10, <2>1
<1>12. Len(RangeFile) - Len(Tail(lines)) = LDone + 1 /\ Len(Tail(lines)) <= Len(RangeFile)
  BY <1>1, <1>3, <1>4, <1>10 DEF LDone
<1> QED
  BY <1>1, <1>2, <1>3, <1>5, <1>6, <1>7, <1>8, <1>9, <1>10, <1>11, <1>12

\* The slot after the last one is the first one again.
LEMMA SlotAfter ==
  ASSUME NEW s \in Slots
  PROVE  /\ (s + 1) % MAX_IP_01 \in Slots
         /\ s + 1 = MAX_IP_01 => (s + 1) % MAX_IP_01 = 0
         /\ s + 1 # MAX_IP_01 => (s + 1) % MAX_IP_01 = s + 1
<1>1. MAX_IP_01 \in Nat \ {0} /\ s \in Nat /\ s + 1 <= MAX_IP_01
  BY SlotAssumption DEF Slots
<1>2. \A a \in Nat, b \in Nat \ {0} : a < b => a % b = a
  OBVIOUS
<1>3. \A b \in Nat \ {0} : b % b = 0
  OBVIOUS
<1> QED
  BY <1>1, <1>2, <1>3 DEF Slots

\* The text that GetIpPort leaves behind: the new one, if no rest of a longer one
\* remains.
LEMMA TextFacts ==
  ASSUME NEW t \in Text, NEW old \in Text
  PROVE  /\ GetIpPort(t, old) \in Text
         /\ Len(old) <= Len(t) => GetIpPort(t, old) = t
         /\ Len(GetIpPort(t, old)) = IF Len(old) <= Len(t) THEN Len(t) ELSE Len(old)
<1>1. t \in Seq({"d", "."}) /\ old \in Seq({"d", "."}) /\ Len(t) \in Nat /\ Len(old) \in Nat
  BY DEF Text
<1>2. SubSeq(old, Len(t) + 1, Len(old)) \in Seq({"d", "."})
  BY <1>1
<1>3. Len(SubSeq(old, Len(t) + 1, Len(old))) =
        IF Len(old) <= Len(t) THEN 0 ELSE Len(old) - Len(t)
  BY <1>1
<1>4. Len(old) <= Len(t) => SubSeq(old, Len(t) + 1, Len(old)) = <<>>
  BY <1>2, <1>3
<1>5. Len(old) <= Len(t) => GetIpPort(t, old) = t
  BY <1>1, <1>4 DEF GetIpPort
<1>6. GetIpPort(t, old) \in Seq({"d", "."})
      /\ Len(GetIpPort(t, old)) = Len(t) + Len(SubSeq(old, Len(t) + 1, Len(old)))
  BY <1>1, <1>2 DEF GetIpPort
<1> QED
  BY <1>1, <1>3, <1>5, <1>6 DEF Text

\* A set of slots has a smallest one.
LEMMA SmallestSlot ==
  ASSUME NEW S \in SUBSET Slots, S # {}
  PROVE  Min(S) \in S /\ \A s \in S : Min(S) <= s
<1> DEFINE R == OpToRel(<, Nat)
<1>1. S \subseteq Nat
  BY SlotAssumption DEF Slots
<1>2. PICK s \in S : \A t \in S : ~ (<<t, s>> \in R)
  <2>1. IsWellFoundedOn(R, Nat)
    BY NatLessThanWellFounded
  <2> HIDE DEF R
  <2> QED
    BY <1>1, <2>1, WFMin
<1>3. ASSUME NEW t \in S
      PROVE  s <= t
  <2>1. s \in Nat /\ t \in Nat
    BY <1>1
  <2>2. <<t, s>> \in Nat \X Nat /\ <<t, s>>[1] = t /\ <<t, s>>[2] = s
    BY <2>1
  <2>3. ~ (t < s)
    BY <1>2, <2>2 DEF OpToRel
  <2> QED
    BY <2>1, <2>3
<1> QED
  BY <1>3 DEF Min

\* At the start.
LEMMA CfgTypesInit == Init => TypeOK /\ LoaderOK
<1> SUFFICES ASSUME Init
             PROVE  TypeOK /\ LoaderOK
  OBVIOUS
<1> USE SlotAssumption DEF Init
<1>1. TypeOK
  <2>1. g_vas_ip_01 \in [Slots -> Prefixes \cup {-1}]
        /\ g_vas_range \in [Slots -> [Suffixes -> Nat \cup {-1}]]
    BY Zenon
  <2>2. szVasServerIp \in [0 .. MAX_VAS_SERVER_COUNT -> Text]
    <3>1. <<>> \in Text
      BY DEF Text
    <3> QED
      BY <3>1
  <2>3. nVasServerCount \in Nat /\ slot \in Slots /\ i \in Slots /\ nReload \in 0 .. MaxReload
    BY DEF Slots
  <2>4. usVasServerPortExtra \in BOOLEAN /\ started \in BOOLEAN
    BY Zenon
  <2>5. config \in Configs /\ before \in Configs /\ seen \in SUBSET Configs
    BY Zenon
  <2>6. Len(todo) <= Len(config)
    BY ConfigAssumption
  <2>7. lines \in Seq(Line) /\ ask \in Address \cup {NoAddress} /\ vasno \in Nat \cup {-1}
    OBVIOUS
  <2> QED
    BY <2>1, <2>2, <2>3, <2>4, <2>5, <2>6, <2>7 DEF TypeOK
<1>2. LoaderOK
  <2>1. todo = config /\ config \in Seq(ConfigLine) /\ Done = 0
    BY ConfigAssumption DEF Done
  <2> QED
    BY <2>1 DEF LoaderOK, InFile
<1> QED
  BY <1>1, <1>2

\* Steps that leave the loader and what it reads alone.
LEMMA LoaderStays ==
  ASSUME TypeOK, LoaderOK, UNCHANGED loader, UNCHANGED g_vas_ip_01
  PROVE  LoaderOK'
  BY DEF LoaderOK, loader, InFile, Done, RangeFile, LDone, Good, At

\* Every step keeps the types.
LEMMA CfgTypesStep ==
  ASSUME TypeOK, LoaderOK, LookupOK, [Next]_vars
  PROVE  TypeOK'
<1> USE DEF table, servers, loader, lookup
<1>1. ASSUME NEW c \in Configs, read_config(c)
      PROVE  TypeOK'
  <2>1. Len(c) \in Nat
    BY ConfigAssumption
  <2>2. seen' \in SUBSET Configs
    BY <1>1, Zenon DEF TypeOK, read_config
  <2>3. nReload' \in 0 .. MaxReload /\ slot' \in Slots
    BY <1>1, SlotAssumption DEF TypeOK, read_config, Slots
  <2> QED
    BY <1>1, <2>1, <2>2, <2>3 DEF TypeOK, read_config
<1>2. CASE clear_ip
  BY <1>2, SlotAfter DEF TypeOK, clear_ip
<1>3. CASE clear_range
  BY <1>3, SlotAfter DEF TypeOK, clear_range
<1>4. CASE server_reset
  BY <1>4 DEF TypeOK, server_reset
<1>5. CASE server_skip
  <2>1. todo # <<>>
    BY <1>5 DEF server_skip, ServerLine, Entry, LoaderOK
  <2>2. Len(todo') <= Len(config')
    BY <1>5, <2>1, HeadFacts DEF server_skip
  <2> QED
    BY <1>5, <2>2 DEF TypeOK, server_skip
<1>6. CASE server_store
  <2>1. PICK index \in 0 .. MAX_VAS_SERVER_COUNT :
          /\ ServerLine(index)
          /\ Head(todo).ip \notin {NoValue, NoColon}
          /\ szVasServerIp' = [szVasServerIp EXCEPT ![index] =
                                 GetIpPort(Head(todo).ip, szVasServerIp[index])]
          /\ usVasServerPortExtra' = (usVasServerPortExtra \/ Entry("extra"))
          /\ \/ pc' = "exited" /\ UNCHANGED <<nVasServerCount, todo>>
             \/ /\ nVasServerCount' = IF Entry("extra") THEN nVasServerCount
                                                        ELSE nVasServerCount + 1
                /\ todo' = Tail(todo)
                /\ pc' = "entries"
          /\ UNCHANGED <<g_vas_ip_01, g_vas_range, config, lines, slot, started, nReload, before,
                         lookup, seen>>
    BY <1>6 DEF server_store
  <2>2. todo # <<>> /\ Head(todo).kind # "range"
    BY <2>1 DEF ServerLine, Entry, LoaderOK
  <2>3. Head(todo).ip \in Text /\ Len(Tail(todo)) <= Len(config)
    BY <2>1, <2>2, HeadFacts
  <2>4. GetIpPort(Head(todo).ip, szVasServerIp[index]) \in Text
    BY <2>3, TextFacts DEF TypeOK
  <2>5. szVasServerIp' \in [0 .. MAX_VAS_SERVER_COUNT -> Text]
    BY <2>1, <2>4 DEF TypeOK
  <2>6. usVasServerPortExtra' \in BOOLEAN
    BY <2>1, Zenon DEF TypeOK
  <2>7. nVasServerCount' \in Nat
    <3>1. nVasServerCount' \in {nVasServerCount, nVasServerCount + 1}
      BY <2>1, Zenon
    <3> QED
      BY <3>1 DEF TypeOK
  <2>8. Len(todo') <= Len(config') /\ pc' \in {"entries", "exited"}
    <3>1. (todo' = todo \/ todo' = Tail(todo)) /\ config' = config /\ pc' \in {"entries", "exited"}
      BY <2>1, Zenon
    <3> QED
      BY <2>3, <3>1 DEF TypeOK
  <2> QED
    BY <2>1, <2>5, <2>6, <2>7, <2>8 DEF TypeOK
<1>7. CASE server_exit
  BY <1>7 DEF TypeOK, server_exit
<1>8. CASE SetRange
  <2>1. todo # <<>> /\ Head(todo).kind = "range"
    BY <1>8 DEF SetRange, Entry
  <2>2. lines' \in Seq(Line)
    BY <1>8, <2>1, HeadFacts DEF SetRange
  <2> QED
    BY <1>8, <2>2 DEF TypeOK, SetRange
<1>9. CASE setRange_end
  <2>1. todo # <<>>
    BY <1>9 DEF setRange_end, InFile, LoaderOK
  <2>2. Len(todo') <= Len(config')
    BY <1>9, <2>1, HeadFacts DEF setRange_end
  <2> QED
    BY <1>9, <2>2 DEF TypeOK, setRange_end
<1>10. CASE setRange_slot
  <2>1. InFile /\ lines # <<>> /\ Head(lines).prefix # BadPrefix
    BY <1>10 DEF setRange_slot, InFile, Readable
  <2>2. Head(lines).prefix \in Prefixes
    BY <2>1, HereFacts DEF Line
  <2>3. Min(Candidates) \in Slots
    BY <1>10, SmallestSlot DEF setRange_slot, Readable, Candidates
  <2> QED
    BY <1>10, <2>2, <2>3 DEF TypeOK, setRange_slot
<1>11. CASE setRange_put
  <2>1. InFile /\ lines # <<>>
    BY <1>11 DEF setRange_put, InFile, LoaderOK
  <2>2. Head(lines).suffix \in Suffixes /\ Tail(lines) \in Seq(Line) /\ todo # <<>>
    BY <1>11, <2>1, HereFacts DEF Line, setRange_put
  <2>3. Head(todo).no \in Nat
    BY <2>2, HeadFacts
  <2> QED
    BY <1>11, <2>2, <2>3 DEF TypeOK, setRange_put
<1>12. CASE setRange_bad
  <2>1. todo # <<>>
    BY <1>12 DEF setRange_bad, InFile, LoaderOK
  <2>2. Len(todo') <= Len(config')
    BY <1>12, <2>1, HeadFacts DEF setRange_bad
  <2> QED
    BY <1>12, <2>2 DEF TypeOK, setRange_bad
<1>13. CASE loaded
  BY <1>13 DEF TypeOK, loaded
<1>14. ASSUME NEW a \in Address, GetVasNo(a)
       PROVE  TypeOK'
  <2>1. seen' \in SUBSET Configs
    BY <1>14 DEF TypeOK, GetVasNo
  <2>2. i' \in Slots
    BY <1>14, SlotAssumption DEF GetVasNo, Slots
  <2> QED
    BY <1>14, <2>1, <2>2 DEF TypeOK, GetVasNo
<1>15. CASE getVasNo_scan
  <2>1. i' \in Slots
    BY <1>15, SlotAssumption DEF TypeOK, getVasNo_scan, Slots
  <2> QED
    BY <1>15, <2>1 DEF TypeOK, getVasNo_scan
<1>16. CASE getVasNo_read
  <2>1. ask \in Address
    BY <1>16 DEF LookupOK, getVasNo_read
  <2>2. vasno' \in Nat \cup {-1}
    BY <1>16, <2>1 DEF TypeOK, getVasNo_read, Address
  <2> QED
    BY <1>16, <2>2 DEF TypeOK, getVasNo_read
<1>17. CASE getVasNo_forget
  <2>1. i' \in Slots
    BY <1>17, SlotAssumption DEF getVasNo_forget, Slots
  <2> QED
    BY <1>17, <2>1 DEF TypeOK, getVasNo_forget
<1>18. CASE UNCHANGED vars
  BY <1>18 DEF TypeOK, vars
<1> QED
  BY <1>1, <1>2, <1>3, <1>4, <1>5, <1>6, <1>7, <1>8, <1>9, <1>10, <1>11, <1>12, <1>13, <1>14,
     <1>15, <1>16, <1>17, <1>18 DEF Next, LoadParameters

\* The loader goes on to the next line of the configuration.
LEMMA NextLine ==
  ASSUME TypeOK, LoaderOK, todo # <<>>, todo' = Tail(todo), config' = config, pc' = "entries"
  PROVE  LoaderOK' /\ Done' = Done + 1
<1>1. Done' = Done + 1
  BY HeadFacts DEF Done
<1>2. todo' \in Seq(ConfigLine) /\ \A k \in 1 .. Len(todo') : todo'[k] = config'[Done' + k]
  BY <1>1, HeadFacts
<1> QED
  BY <1>1, <1>2 DEF LoaderOK, InFile

\* Every line that is done leads to the next one.
LEMMA LineEnds ==
  ASSUME TypeOK, LoaderOK,
         server_skip \/ (server_store /\ pc' # "exited") \/ setRange_end \/ setRange_bad
  PROVE  /\ todo # <<>> /\ todo' = Tail(todo) /\ config' = config /\ pc' = "entries"
         /\ LoaderOK' /\ Done' = Done + 1
<1>1. todo # <<>>
  <2>1. CASE server_skip
    BY <2>1 DEF LoaderOK, server_skip, ServerLine, Entry
  <2>2. CASE server_store
    BY <2>2 DEF LoaderOK, server_store, ServerLine, Entry
  <2>3. CASE setRange_end \/ setRange_bad
    BY <2>3 DEF LoaderOK, setRange_end, setRange_bad, InFile
  <2> QED
    BY <2>1, <2>2, <2>3
<1>2. todo' = Tail(todo) /\ config' = config /\ pc' = "entries"
  <2>1. CASE server_skip
    BY <2>1, Zenon DEF server_skip
  <2>2. CASE server_store /\ pc' # "exited"
    BY <2>2, Zenon DEF server_store
  <2>3. CASE setRange_end \/ setRange_bad
    BY <2>3, Zenon DEF setRange_end, setRange_bad
  <2> QED
    BY <2>1, <2>2, <2>3
<1> QED
  BY <1>1, <1>2, NextLine

\* Every step keeps the loader where the unread lines say.
LEMMA LoaderStep ==
  ASSUME TypeOK, LoaderOK, [Next]_vars
  PROVE  LoaderOK'
<1>1. ASSUME NEW c \in Configs, read_config(c)
      PROVE  LoaderOK'
  <2>1. todo' = c /\ config' = c /\ pc' = "clearIp" /\ c \in Seq(ConfigLine)
    BY <1>1, ConfigAssumption DEF read_config
  <2>2. Done' = 0
    BY <2>1 DEF Done
  <2> QED
    BY <2>1, <2>2 DEF LoaderOK, InFile
<1>2. ASSUME UNCHANGED <<config, todo>>, pc' \notin {"lines", "put"},
             pc' \in {"clearIp", "clearRange"} => pc \in {"clearIp", "clearRange"},
             pc' = "idle" => todo = <<>>,
             pc' = "count" => todo # <<>> /\ Head(todo).kind = "server"
      PROVE  LoaderOK'
  <2>1. Done' = Done
    BY <1>2 DEF Done
  <2> QED
    BY <1>2, <2>1 DEF LoaderOK, InFile
<1>3. CASE clear_ip \/ clear_range
  <2>1. UNCHANGED <<config, todo>> /\ pc \in {"clearIp", "clearRange"}
        /\ pc' \in {"clearIp", "clearRange", "entries"}
    BY <1>3 DEF clear_ip, clear_range
  <2> QED
    BY <1>2, <2>1
<1>4. CASE server_reset
  BY <1>2, <1>4 DEF server_reset, Entry
<1>5. CASE server_skip \/ (server_store /\ pc' # "exited") \/ setRange_end \/ setRange_bad
  BY <1>5, LineEnds
<1>6. CASE server_store /\ pc' = "exited"
  <2>1. UNCHANGED <<config, todo>>
    BY <1>6, Zenon DEF server_store
  <2> QED
    BY <1>2, <1>6, <2>1
<1>7. CASE server_exit
  BY <1>2, <1>7 DEF server_exit
<1>8. CASE SetRange
  <2>1. todo # <<>> /\ Head(todo).kind = "range" /\ UNCHANGED <<config, todo, slot, g_vas_ip_01>>
    BY <1>8 DEF SetRange, Entry, table
  <2>2. CASE Head(todo).exists
    <3>1. pc' = "lines" /\ lines' = Head(todo).lines
      BY <1>8, <2>2 DEF SetRange
    <3>2. Done' = Done /\ RangeFile' = RangeFile /\ RangeFile = lines' /\ lines' \in Seq(Line)
      BY <2>1, <3>1, HeadFacts DEF Done, RangeFile
    <3>3. LDone' = 0
      BY <3>2 DEF LDone
    <3>4. \A k \in 1 .. Len(lines') : lines'[k] = RangeFile'[LDone' + k]
      BY <3>2, <3>3
    <3>5. /\ todo' \in Seq(ConfigLine)
          /\ \A k \in 1 .. Len(todo') : todo'[k] = config'[Done' + k]
      BY <2>1, <3>2 DEF LoaderOK
    <3>6. Len(lines') <= Len(RangeFile')
      BY <3>2
    <3> QED
      BY <2>1, <3>1, <3>3, <3>4, <3>5, <3>6 DEF LoaderOK
  <2>3. CASE ~Head(todo).exists
    <3>1. pc' = "exited"
      BY <1>8, <2>3 DEF SetRange
    <3> QED
      BY <1>2, <2>1, <3>1
  <2> QED
    BY <2>2, <2>3
<1>9. CASE setRange_slot
  <2>1. InFile /\ lines # <<>> /\ Head(lines).prefix # BadPrefix /\ pc' = "put"
        /\ UNCHANGED <<config, todo, lines>>
    BY <1>9 DEF setRange_slot, InFile, Readable
  <2>2. Done' = Done /\ RangeFile' = RangeFile
    BY <2>1 DEF Done, RangeFile
  <2>3. LDone' = LDone
    BY <2>1, <2>2 DEF LDone
  <2>4. Min(Candidates) \in Slots
    BY <1>9, SmallestSlot DEF setRange_slot, Readable, Candidates
  <2>5. g_vas_ip_01'[slot'] = Head(lines).prefix
    BY <1>9, <2>4 DEF TypeOK, setRange_slot
  <2> QED
    BY <2>1, <2>2, <2>3, <2>5 DEF LoaderOK, Good, At
<1>10. CASE setRange_put
  <2>1. InFile /\ pc' = "lines" /\ UNCHANGED <<config, todo>> /\ lines' = Tail(lines)
        /\ lines # <<>> /\ Head(lines).prefix # BadPrefix /\ Head(lines).suffix # BadSuffix
    BY <1>10 DEF setRange_put, InFile, LoaderOK
  <2>2. Done' = Done /\ RangeFile' = RangeFile
    BY <2>1 DEF Done, RangeFile
  <2>3. LDone' = LDone + 1
    BY <2>1, <2>2, HereFacts DEF LDone
  <2>4. Good(config, <<Done + 1, LDone + 1>>)
    BY <2>1, HereFacts DEF Good, Here
  <2>5. \A l \in 1 .. LDone' : Good(config, <<Done + 1, l>>)
    <3>1. LDone \in Nat /\ \A l \in 1 .. LDone : Good(config, <<Done + 1, l>>)
      BY <2>1, HereFacts DEF LoaderOK
    <3> QED
      BY <2>3, <2>4, <3>1
  <2>6. /\ Len(lines') <= Len(RangeFile')
        /\ \A k \in 1 .. Len(lines') : lines'[k] = RangeFile'[LDone' + k]
    BY <2>1, <2>2, <2>3, HereFacts
  <2>7. \A l \in 1 .. LDone' : Good(config', <<Done' + 1, l>>)
    BY <2>1, <2>2, <2>5
  <2> QED
    BY <2>1, <2>2, <2>6, <2>7 DEF LoaderOK
<1>11. CASE loaded
  BY <1>2, <1>11 DEF loaded
<1>12. CASE (\E a \in Address : GetVasNo(a)) \/ getVasNo_scan \/ getVasNo_read \/ getVasNo_forget
            \/ UNCHANGED vars
  <2>1. UNCHANGED loader /\ UNCHANGED g_vas_ip_01
    BY <1>12 DEF GetVasNo, getVasNo_scan, getVasNo_read, getVasNo_forget, vars, table
  <2> QED
    BY <2>1, LoaderStays
<1> QED
  BY <1>1, <1>3, <1>4, <1>5, <1>6, <1>7, <1>8, <1>9, <1>10, <1>11, <1>12 DEF Next, LoadParameters

-----------------------------------------------------------------------------
(* Positions that the loader has passed *)

\* The line that is next in the range file comes after all that have been passed,
\* and what comes before it has been.
LEMMA HereNext ==
  ASSUME TypeOK, LoaderOK, InFile, lines # <<>>, Head(lines).prefix # BadPrefix
  PROVE  /\ Here \in Reached(config) \ Passed
         /\ \A q \in Passed : Before(q, Here)
         /\ \A q \in Reached(config) : Before(q, Here) => q \in Passed
<1>1. Done \in Nat /\ LDone \in Nat /\ Here \in Positions(config)
      /\ Here[1] = Done + 1 /\ Here[2] = LDone + 1 /\ At(config, Here) = Head(lines)
      /\ todo # <<>>
  BY HereFacts
<1>2. \A l \in 1 .. Here[2] - 1 : Good(config, <<Here[1], l>>)
  BY <1>1 DEF LoaderOK
<1>3. Here \in Reached(config)
  BY <1>1, <1>2 DEF Reached
<1>4. Here \notin Passed
  BY <1>1 DEF Passed
<1>5. ASSUME NEW q \in Reached(config)
      PROVE  q[1] \in Nat /\ q[2] \in Nat
  <2>1. q \in Positions(config) /\ config \in Configs
    BY DEF Reached, TypeOK
  <2> QED
    BY <2>1, AtFacts
<1>6. ASSUME NEW q \in Passed
      PROVE  Before(q, Here)
  <2>1. q \in Reached(config)
    BY DEF Passed
  <2> QED
    BY <1>1, <1>5, <2>1 DEF Passed, Before
<1>7. ASSUME NEW q \in Reached(config), Before(q, Here)
      PROVE  q \in Passed
  BY <1>1, <1>5, <1>7 DEF Passed, Before
<1> QED
  BY <1>3, <1>4, <1>6, <1>7

\* What has been passed comes before what has not.
LEMMA PassedFirst ==
  ASSUME TypeOK, LoaderOK, NEW q \in Passed, NEW r \in Reached(config), r \notin Passed
  PROVE  Before(q, r)
<1>1. q \in Reached(config)
  BY DEF Passed
<1>2. q \in Positions(config) /\ r \in Positions(config) /\ config \in Configs
  BY <1>1 DEF Reached, TypeOK
<1>3. q[1] \in Nat /\ q[2] \in Nat /\ r[1] \in Nat /\ r[2] \in Nat
  BY <1>2, AtFacts
<1>4. Done \in Int
  BY ConfigAssumption DEF Done, TypeOK, LoaderOK
<1>5. InFile => LDone \in Int
  <2> SUFFICES ASSUME InFile
               PROVE  LDone \in Int
    OBVIOUS
  <2>1. todo # <<>> /\ Head(todo).kind = "range"
    BY DEF LoaderOK
  <2>2. RangeFile \in Seq(Line)
    BY <2>1, HeadFacts DEF RangeFile
  <2>3. lines \in Seq(Line)
    BY DEF TypeOK
  <2> QED
    BY <2>2, <2>3 DEF LDone
<1> QED
  BY <1>1, <1>3, <1>4, <1>5 DEF Passed, Before

\* A line of the configuration that is no range file has no positions.
LEMMA NoPositions ==
  ASSUME TypeOK, LoaderOK, todo # <<>>, Head(todo).kind # "range",
         NEW q \in Reached(config)
  PROVE  q[1] # Done + 1
<1>1. q \in Positions(config)
  BY DEF Reached
<1>2. config[q[1]].kind = "range"
  BY <1>1, PositionFacts
<1> QED
  BY <1>2, HeadFacts

\* Passing such a line passes no position.
LEMMA PassedOther ==
  ASSUME TypeOK, LoaderOK, todo # <<>>, Head(todo).kind # "range", ~InFile,
         pc' = "entries", config' = config, Done' = Done + 1
  PROVE  Passed' = Passed /\ Claimed' = Claimed
<1>1. ASSUME NEW q \in Reached(config)
      PROVE  q[1] \in Nat /\ q[1] # Done + 1
  <2>1. q \in Positions(config) /\ config \in Configs
    BY DEF Reached, TypeOK
  <2> QED
    BY <2>1, AtFacts, NoPositions
<1>2. Done \in Nat
  BY HeadFacts
<1>3. Reached(config') = Reached(config)
  OBVIOUS
<1>4. Passed' = {q \in Reached(config) : q[1] <= Done + 1}
  BY <1>3 DEF Passed, InFile
<1>5. Passed = {q \in Reached(config) : q[1] <= Done}
  BY DEF Passed
<1>6. Passed' = Passed
  BY <1>1, <1>2, <1>4, <1>5
<1> QED
  BY <1>6 DEF Claimed, InFile

\* What passing a range file passes beside the lines that have been read: nothing,
\* or the line at which reading it ended, if all slots are not taken.
LEMMA PassedFile ==
  ASSUME TypeOK, LoaderOK, InFile, pc' = "entries", config' = config, Done' = Done + 1
  PROVE  /\ Passed \subseteq Passed'
         /\ lines = <<>> => Passed' = Passed
         /\ lines # <<>> /\ ~Good(config, Here) =>
              Passed' = Passed \cup {q \in {Here} : At(config, q).prefix # BadPrefix}
<1>1. todo # <<>> /\ Head(todo).kind = "range"
  BY DEF LoaderOK
<1>2. Done \in Nat /\ RangeFile \in Seq(Line) /\ lines \in Seq(Line)
  BY <1>1, HeadFacts DEF RangeFile, TypeOK
<1>3. LDone \in Int
  BY <1>2 DEF LDone
<1>4. Reached(config') = Reached(config)
  OBVIOUS
<1>5. Passed' = {q \in Reached(config) : q[1] <= Done + 1}
  BY <1>4 DEF Passed, InFile
<1>6. ASSUME NEW q \in Reached(config)
      PROVE  /\ q \in Positions(config) /\ q[1] \in Nat /\ q[2] \in Nat
             /\ q = <<q[1], q[2]>>
             /\ q[1] = Done + 1 => q[2] \in 1 .. Len(RangeFile)
  <2>1. q \in Positions(config) /\ config \in Configs
    BY DEF Reached, TypeOK
  <2> QED
    BY <2>1, AtFacts, PositionFacts DEF RangeFile
<1>7. Passed \subseteq Passed'
  BY <1>2, <1>5, <1>6 DEF Passed
<1>8. ASSUME lines = <<>>
      PROVE  Passed' = Passed
  <2>1. LDone = Len(RangeFile)
    BY <1>2, <1>8 DEF LDone
  <2> QED
    BY <1>2, <1>5, <1>6, <1>7, <2>1 DEF Passed
<1>9. ASSUME lines # <<>>, ~Good(config, Here)
      PROVE  Passed' = Passed \cup {q \in {Here} : At(config, q).prefix # BadPrefix}
  <2>1. LDone \in Nat /\ Here = <<Done + 1, LDone + 1>> /\ Here[1] = Done + 1
        /\ Here[2] = LDone + 1 /\ Here \in Positions(config) /\ At(config, Here) = Head(lines)
    BY <1>9, HereFacts DEF Here
  <2>2. ASSUME NEW q \in Passed', q \notin Passed
        PROVE  q = Here /\ At(config, q).prefix # BadPrefix
    <3>1. q \in Reached(config) /\ q[1] = Done + 1 /\ q[2] > LDone
      BY <1>2, <1>3, <1>5, <1>6, <2>2 DEF Passed
    <3>2. \A l \in 1 .. q[2] - 1 : Good(config, <<Done + 1, l>>)
      BY <3>1 DEF Reached
    <3>3. q[2] = LDone + 1
      BY <1>6, <1>9, <2>1, <3>1, <3>2
    <3>4. q = Here
      BY <1>6, <2>1, <3>1, <3>3
    <3> QED
      BY <3>1, <3>4 DEF Reached
  <2>3. At(config, Here).prefix # BadPrefix => Here \in Passed'
    BY <1>2, <1>5, <1>9, <2>1, HereNext
  <2> QED
    BY <1>7, <2>2, <2>3
<1> QED
  BY <1>7, <1>8, <1>9

-----------------------------------------------------------------------------
(* The table *)

\* Its parts stay true when neither the table nor what has been passed changes.
LEMMA TableStays ==
  ASSUME Filling, TableOK, UNCHANGED <<g_vas_ip_01, g_vas_range, config>>,
         Passed' = Passed, Claimed' = Claimed
  PROVE  TableOK'
<1>1. Taken' /\ InOrder' /\ Complete' /\ OwnNumbers'
  BY DEF TableOK, Taken, InOrder, Complete, OwnNumbers
<1>2. LastWins'
  <2>1. \A a : PassedAt(a)' = PassedAt(a)
    BY DEF PassedAt
  <2>2. Fits' = Fits
    BY DEF Fits
  <2> QED
    BY <2>1, <2>2 DEF TableOK, LastWins, Says, LastOf
<1> QED
  BY <1>1, <1>2 DEF TableOK

\* No two slots have the same prefix.
LEMMA SlotUnique ==
  ASSUME NEW c, Slotted(c), NEW s \in Slots, NEW t \in Slots,
         g_vas_ip_01[s] = g_vas_ip_01[t], g_vas_ip_01[s] # -1
  PROVE  s = t
<1>1. Rank(c, g_vas_ip_01[s]) = s /\ Rank(c, g_vas_ip_01[t]) = t
  BY DEF Slotted
<1> QED
  BY <1>1

\* If all prefixes fit, a prefix has a slot or there is a free one.
LEMMA FitsFree ==
  ASSUME TypeOK, Slotted(config), Fits, NEW x \in PrefixesOf(config),
         \A s \in Slots : g_vas_ip_01[s] # -1 /\ g_vas_ip_01[s] # x
  PROVE  FALSE
<1> DEFINE P == PrefixesOf(config)
           Q == P \ {x}
           f == [s \in Slots |-> g_vas_ip_01[s]]
<1>1. IsFiniteSet(P) /\ Cardinality(P) \in Nat
  BY PrefixesFinite, FS_CardinalityType DEF TypeOK
<1>2. IsFiniteSet(Q) /\ Cardinality(Q) = Cardinality(P) - 1
  BY <1>1, FS_RemoveElement
<1>3. f \in Injection(Slots, Q)
  <2>1. \A s \in Slots : f[s] \in Q
    BY DEF Slotted
  <2>2. \A s, t \in Slots : f[s] = f[t] => s = t
    BY SlotUnique
  <2>3. f \in [Slots -> Q]
    BY <2>1
  <2> HIDE DEF f, Q
  <2> QED
    BY <2>2, <2>3 DEF Injection, IsInjective
<1>4. Cardinality(Slots) <= Cardinality(Q)
  <2> HIDE DEF f, Q
  <2> QED
    BY <1>2, <1>3, FS_Injection
<1>5. Cardinality(Slots) = MAX_IP_01
  <2>1. 0 \in Int /\ MAX_IP_01 - 1 \in Int /\ MAX_IP_01 \in Nat \ {0}
    BY SlotAssumption
  <2>2. Cardinality(0 .. MAX_IP_01 - 1) = (MAX_IP_01 - 1) - 0 + 1
    BY <2>1, FS_Interval
  <2> QED
    BY <2>1, <2>2 DEF Slots
<1> HIDE DEF P, Q
<1>6. Cardinality(P) <= MAX_IP_01 /\ MAX_IP_01 \in Nat
  BY SlotAssumption DEF Fits, P
<1> QED
  BY <1>1, <1>2, <1>4, <1>5, <1>6

\* The first free slot, when a prefix that has none is next: the number of prefixes
\* that come before it in the configuration.
LEMMA RankOfNew ==
  ASSUME TypeOK, LoaderOK, Slotted(config), TableOK, pc = "lines",
         lines # <<>>, Head(lines).prefix # BadPrefix,
         \A s \in Slots : g_vas_ip_01[s] # Head(lines).prefix,
         NEW t \in Slots, g_vas_ip_01[t] = -1, \A s \in Slots : s < t => g_vas_ip_01[s] # -1
  PROVE  /\ Head(lines).prefix \in PrefixesOf(config)
         /\ Rank(config, Head(lines).prefix) = t
         /\ \A q \in Passed : At(config, q).prefix # Head(lines).prefix
<1> DEFINE x == Head(lines).prefix
           Y == {y \in PrefixesOf(config) \ {x} :
                  \E q \in Reached(config) :
                    /\ At(config, q).prefix = y
                    /\ \A r \in Reached(config) : At(config, r).prefix = x => Before(q, r)}
           D == 0 .. t - 1
           f == [s \in D |-> g_vas_ip_01[s]]
<1>1. InFile /\ Filling /\ Claimed = Passed
  BY DEF InFile, Filling, Claimed
<1>2. Here \in Reached(config) /\ At(config, Here).prefix = x
      /\ \A q \in Reached(config) : Before(q, Here) => q \in Passed
  BY <1>1, HereNext, HereFacts
<1>3. x \in PrefixesOf(config)
  BY <1>2 DEF PrefixesOf
<1>4. \A q \in Passed : \E s \in Slots : g_vas_ip_01[s] = At(config, q).prefix
  BY <1>1 DEF TableOK, Complete
<1>5. \A q \in Passed : At(config, q).prefix # x
  BY <1>4
<1>6. D \subseteq Slots /\ t \in Nat
  BY SlotAssumption DEF Slots
<1>7. ASSUME NEW s \in D
      PROVE  f[s] \in Y
  <2>1. s \in Slots /\ g_vas_ip_01[s] # -1 /\ f[s] = g_vas_ip_01[s]
    BY <1>6
  <2>2. PICK q \in Passed : At(config, q).prefix = g_vas_ip_01[s]
    BY <1>1, <2>1 DEF TableOK, Taken
  <2>3. g_vas_ip_01[s] \in PrefixesOf(config) \ {x}
    BY <2>1 DEF Slotted
  <2>4. q \in Reached(config)
    BY DEF Passed
  <2>5. \A r \in Reached(config) : At(config, r).prefix = x => Before(q, r)
    BY <1>5, PassedFirst
  <2> HIDE DEF f, x
  <2> QED
    BY <2>1, <2>2, <2>3, <2>4, <2>5
<1>8. ASSUME NEW y \in Y
      PROVE  \E s \in D : f[s] = y
  <2>1. PICK q \in Reached(config) : At(config, q).prefix = y /\ Before(q, Here)
    BY <1>2
  <2>2. PICK s \in Slots : g_vas_ip_01[s] = y
    BY <1>2, <1>4, <2>1
  <2>3. y # -1
    BY PrefixFacts DEF TypeOK
  <2>4. ~ (t < s) /\ s # t
    BY <1>1, <2>2, <2>3 DEF TableOK, InOrder
  <2>5. s \in D
    BY <1>6, <2>4 DEF Slots
  <2> QED
    BY <2>2, <2>5
<1>9. \A r, s \in D : f[r] = f[s] => r = s
  BY <1>6, SlotUnique
<1>10. f \in Bijection(D, Y)
  <2>1. f \in [D -> Y]
    BY <1>7
  <2> HIDE DEF f, D, Y
  <2> QED
    BY <1>8, <1>9, <2>1 DEF Bijection, Injection, Surjection, IsInjective
<1>11. IsFiniteSet(D) /\ Cardinality(D) = t
  <2>1. 0 \in Int /\ t - 1 \in Int /\ t \in Nat
    BY <1>6
  <2>2. IsFiniteSet(0 .. t - 1)
        /\ Cardinality(0 .. t - 1) = IF 0 > t - 1 THEN 0 ELSE t - 1 - 0 + 1
    BY <2>1, FS_Interval
  <2> QED
    BY <2>1, <2>2
<1>12. Cardinality(Y) = t
  <2> HIDE DEF f, D, Y
  <2>1. ExistsBijection(D, Y)
    BY <1>10 DEF ExistsBijection
  <2> QED
    BY <1>11, <2>1, FS_Bijection
<1>13. Rank(config, x) = Cardinality(Y)
  BY DEF Rank
<1> QED
  BY <1>3, <1>5, <1>12, <1>13

\* Giving a prefix its slot.
LEMMA SlotStep ==
  ASSUME TypeOK, LoaderOK, Slotted(config), TableOK, setRange_slot
  PROVE  TableOK' /\ Slotted(config)'
<1> DEFINE x == Head(lines).prefix
           t == Min(Candidates)
<1>1. pc = "lines" /\ pc' = "put" /\ lines # <<>> /\ x # BadPrefix /\ Candidates # {}
      /\ UNCHANGED <<config, todo, lines, g_vas_range>>
      /\ g_vas_ip_01' = [g_vas_ip_01 EXCEPT ![t] = x]
  BY DEF setRange_slot, Readable
<1>2. InFile /\ InFile' /\ Filling /\ Filling' /\ Claimed = Passed
  BY <1>1 DEF InFile, Filling, Claimed
<1>3. Done' = Done /\ LDone' = LDone /\ Here' = Here
  BY <1>1 DEF Done, LDone, RangeFile, Here
<1>4. Passed' = Passed
  <2>1. Reached(config') = Reached(config)
    BY <1>1
  <2> QED
    BY <1>2, <1>3, <2>1 DEF Passed
<1>5. Claimed' = Passed \cup {Here}
  BY <1>1, <1>3, <1>4 DEF Claimed
<1>6. Here \in Reached(config) /\ At(config, Here).prefix = x
  BY <1>1, <1>2, HereNext, HereFacts
<1>7. t \in Candidates /\ \A s \in Candidates : t <= s
  BY <1>1, SmallestSlot DEF Candidates
<1>8. t \in Slots /\ g_vas_ip_01[t] \in {-1, x} /\ g_vas_ip_01 \in [Slots -> Prefixes \cup {-1}]
  BY <1>7 DEF Candidates, TypeOK
<1> HIDE DEF t
<1>9. x \in Prefixes /\ x # -1
  BY <1>1, <1>2, HereFacts, BadAssumption DEF Line
<1>10. \A s \in Slots : s \in Int
  BY SlotAssumption DEF Slots
<1>11. Taken /\ InOrder /\ Complete /\ OwnNumbers /\ LastWins
  BY <1>2 DEF TableOK
<1>12. CASE \E s \in Slots : g_vas_ip_01[s] = x
  <2>1. PICK s \in Slots : g_vas_ip_01[s] = x
    BY <1>12
  <2>2. t <= s
    BY <1>7, <2>1 DEF Candidates
  <2>3. g_vas_ip_01[t] = x
    <3>1. CASE t = s
      BY <2>1, <3>1
    <3>2. CASE t < s
      BY <1>8, <1>9, <1>11, <2>1, <3>2 DEF InOrder
    <3> QED
      BY <1>8, <1>10, <2>2, <3>1, <3>2
  <2>4. g_vas_ip_01' = g_vas_ip_01
    BY <1>1, <1>8, <2>3
  <2>5. Slotted(config)'
    BY <1>1, <2>4 DEF Slotted
  <2>6. Taken' /\ InOrder' /\ OwnNumbers'
    BY <1>1, <1>2, <1>5, <1>11, <2>4 DEF Taken, InOrder, OwnNumbers
  <2>7. Complete'
    BY <1>1, <1>2, <1>5, <1>6, <1>11, <2>1, <2>4 DEF Complete
  <2>8. LastWins'
    <3>1. \A a : PassedAt(a)' = PassedAt(a)
      BY <1>1, <1>4 DEF PassedAt
    <3>2. Fits' = Fits
      BY <1>1 DEF Fits
    <3> QED
      BY <1>1, <1>11, <2>4, <3>1, <3>2 DEF LastWins, Says, LastOf
  <2> QED
    BY <2>5, <2>6, <2>7, <2>8 DEF TableOK
<1>13. CASE \A s \in Slots : g_vas_ip_01[s] # x
  <2>1. g_vas_ip_01[t] = -1
    BY <1>8, <1>13
  <2>2. \A s \in Slots : s < t => g_vas_ip_01[s] # -1
    BY <1>7, <1>8, <1>10 DEF Candidates
  <2>3. \A s \in Slots : s > t => g_vas_ip_01[s] = -1
    BY <1>8, <1>10, <1>11, <2>1 DEF InOrder
  <2>4. x \in PrefixesOf(config) /\ Rank(config, x) = t
        /\ \A q \in Passed : At(config, q).prefix # x
    BY <1>1, <1>8, <1>13, <2>1, <2>2, RankOfNew
  <2> HIDE DEF x
  <2>5. \A s \in Slots : g_vas_ip_01'[s] = IF s = t THEN x ELSE g_vas_ip_01[s]
    BY <1>1, <1>8
  <2>6. Slotted(config)'
    <3>1. \A s \in Slots : g_vas_ip_01'[s] # -1 =>
            g_vas_ip_01'[s] \in PrefixesOf(config) /\ Rank(config, g_vas_ip_01'[s]) = s
      BY <2>4, <2>5 DEF Slotted
    <3> QED
      BY <1>1, <3>1 DEF Slotted
  <2>7. Taken'
    BY <1>1, <1>2, <1>5, <1>6, <1>11, <2>5 DEF Taken
  <2>8. InOrder'
    BY <1>8, <1>9, <1>10, <1>11, <2>2, <2>3, <2>5 DEF InOrder
  <2>9. Complete'
    <3>1. ASSUME NEW q \in Passed
          PROVE  \E s \in Slots : g_vas_ip_01'[s] = At(config, q).prefix
      <4>1. PICK s \in Slots : g_vas_ip_01[s] = At(config, q).prefix
        BY <1>2, <1>8, <1>11, <2>1 DEF Complete
      <4>2. At(config, q).prefix # -1
        <5>1. At(config, q).prefix \in PrefixesOf(config)
          BY DEF Passed, PrefixesOf
        <5> QED
          BY <5>1, PrefixFacts DEF TypeOK
      <4> QED
        BY <2>1, <2>5, <4>1, <4>2
    <3>2. g_vas_ip_01'[t] = At(config, Here).prefix
      BY <1>6, <1>8, <2>5
    <3> QED
      BY <1>1, <1>5, <1>8, <3>1, <3>2 DEF Complete
  <2>10. OwnNumbers'
    BY <1>1, <1>8, <1>11, <2>1, <2>5 DEF OwnNumbers
  <2>11. LastWins'
    <3> SUFFICES ASSUME Fits, NEW s \in Slots, NEW z \in Suffixes, g_vas_ip_01'[s] # -1
                 PROVE  Says(PassedAt([prefix |-> g_vas_ip_01[s], suffix |-> z]),
                             g_vas_range[s][z])'
      BY <1>1 DEF LastWins, Fits
    <3>1. \A a : PassedAt(a)' = PassedAt(a)
      BY <1>1, <1>4 DEF PassedAt
    <3>2. CASE s # t
      BY <1>1, <1>11, <2>5, <3>1, <3>2 DEF LastWins, Says, LastOf
    <3>3. CASE s = t
      <4>1. g_vas_range[t][z] = -1
        BY <1>8, <1>11, <2>1 DEF OwnNumbers
      <4>2. PassedAt([prefix |-> x, suffix |-> z]) = {}
        BY <2>4 DEF PassedAt
      <4>3. g_vas_ip_01'[s] = x /\ g_vas_range'[s][z] = -1
        BY <1>1, <1>8, <2>5, <3>3, <4>1
      <4> QED
        BY <3>1, <4>2, <4>3 DEF Says
    <3> QED
      BY <3>2, <3>3
  <2> QED
    BY <2>6, <2>7, <2>8, <2>9, <2>10, <2>11 DEF TableOK
<1> QED
  BY <1>12, <1>13

\* Before is a strict order on the positions of a configuration.
LEMMA BeforeOrder ==
  ASSUME NEW c \in Configs, NEW q \in Positions(c), NEW r \in Positions(c), Before(q, r)
  PROVE  ~Before(r, q) /\ q # r
<1>1. q[1] \in Nat /\ q[2] \in Nat /\ r[1] \in Nat /\ r[2] \in Nat
  BY AtFacts
<1> QED
  BY <1>1 DEF Before

\* Entering the number of an address.
LEMMA PutStep ==
  ASSUME TypeOK, LoaderOK, Slotted(config), TableOK, setRange_put
  PROVE  TableOK' /\ Slotted(config)'
<1> DEFINE x == Head(lines).prefix
           y == Head(lines).suffix
           n == Head(todo).no
<1>1. pc = "put" /\ pc' = "lines" /\ y # BadSuffix
      /\ UNCHANGED <<config, todo, g_vas_ip_01>> /\ lines' = Tail(lines)
      /\ g_vas_range' = [g_vas_range EXCEPT ![slot][y] = n]
  BY DEF setRange_put
<1>2. lines # <<>> /\ x # BadPrefix /\ g_vas_ip_01[slot] = x
  BY <1>1 DEF LoaderOK
<1>3. InFile /\ InFile' /\ Filling /\ Filling' /\ Claimed = Passed \cup {Here}
  BY <1>1 DEF InFile, Filling, Claimed
<1>4. Done \in Nat /\ LDone \in Nat /\ Here \in Positions(config) /\ Here[1] = Done + 1
      /\ Here[2] = LDone + 1 /\ At(config, Here) = Head(lines) /\ Head(lines) \in Line
      /\ Len(RangeFile) - Len(Tail(lines)) = LDone + 1 /\ todo # <<>>
  BY <1>2, <1>3, HereFacts
<1>5. Done' = Done /\ LDone' = LDone + 1
  BY <1>1, <1>4 DEF Done, LDone, RangeFile
<1>6. Here \in Reached(config) \ Passed /\ \A q \in Passed : Before(q, Here)
  BY <1>2, <1>3, HereNext
<1>7. n = config[Here[1]].no /\ n \in Nat \ {0}
  BY <1>4, HeadFacts
<1>8. Passed' = Passed \cup {Here}
  <2>1. Reached(config') = Reached(config)
    BY <1>1
  <2>2. \A q \in Reached(config) : /\ q = <<q[1], q[2]>>
                                   /\ q[1] \in Nat /\ q[2] \in Nat
    <3> TAKE q \in Reached(config)
    <3>1. q \in Positions(config) /\ config \in Configs
      BY DEF Reached, TypeOK
    <3> QED
      BY <3>1, PositionFacts, AtFacts
  <2>3. Passed' = {q \in Reached(config) : q[1] <= Done \/ (q[1] = Done + 1 /\ q[2] <= LDone + 1)}
    BY <1>3, <1>5, <2>1 DEF Passed
  <2>4. Passed = {q \in Reached(config) : q[1] <= Done \/ (q[1] = Done + 1 /\ q[2] <= LDone)}
    BY <1>3 DEF Passed
  <2>5. ASSUME NEW q \in Reached(config), q[1] = Done + 1, q[2] = LDone + 1
        PROVE  q = Here
    BY <2>2, <2>5 DEF Here
  <2>6. ASSUME NEW q \in Passed'
        PROVE  q \in Passed \cup {Here}
    BY <1>4, <2>2, <2>3, <2>4, <2>5
  <2>7. Here \in Passed'
    BY <1>4, <1>6, <2>3
  <2>8. Passed \subseteq Passed'
    BY <1>4, <2>2, <2>3, <2>4
  <2> QED
    BY <2>6, <2>7, <2>8
<1>9. Claimed' = Claimed
  BY <1>1, <1>3, <1>8 DEF Claimed
<1>10. x \in Prefixes /\ x # -1 /\ y \in Suffixes /\ slot \in Slots
       /\ g_vas_range \in [Slots -> [Suffixes -> Nat \cup {-1}]]
       /\ Head(lines) = [prefix |-> x, suffix |-> y]
  BY <1>1, <1>2, <1>4, BadAssumption DEF Line, TypeOK
<1> HIDE DEF x, y, n
<1>11. \A s \in Slots, z \in Suffixes :
         g_vas_range'[s][z] = IF s = slot /\ z = y THEN n ELSE g_vas_range[s][z]
  BY <1>1, <1>10
<1>12. n \in Numbers(config, [prefix |-> x, suffix |-> y])
  BY <1>4, <1>7, <1>10 DEF Numbers
<1>13. Taken /\ InOrder /\ Complete /\ OwnNumbers /\ LastWins
  BY <1>3 DEF TableOK
<1>14. OwnNumbers'
  BY <1>1, <1>2, <1>10, <1>11, <1>12, <1>13 DEF OwnNumbers
<1>15. Slotted(config)'
  <2>1. \A s \in Slots : g_vas_ip_01'[s] # -1 =>
          g_vas_ip_01'[s] \in PrefixesOf(config') /\ Rank(config', g_vas_ip_01'[s]) = s
    BY <1>1 DEF Slotted
  <2> QED
    BY <1>14, <2>1 DEF Slotted, OwnNumbers
<1>16. Taken' /\ InOrder' /\ Complete'
  BY <1>1, <1>9, <1>13 DEF Taken, InOrder, Complete
<1>17. LastWins'
  <2> SUFFICES ASSUME Fits, NEW s \in Slots, NEW z \in Suffixes, g_vas_ip_01[s] # -1
               PROVE  Says(PassedAt([prefix |-> g_vas_ip_01[s], suffix |-> z]),
                           g_vas_range[s][z])'
    BY <1>1 DEF LastWins, Fits
  <2> DEFINE a == [prefix |-> g_vas_ip_01[s], suffix |-> z]
  <2>1. Says(PassedAt(a), g_vas_range[s][z])
    BY <1>13 DEF LastWins
  <2>2. CASE s = slot /\ z = y
    <3>1. a = Head(lines) /\ g_vas_range'[s][z] = n
      BY <1>2, <1>10, <1>11, <2>2 DEF x
    <3>2. PassedAt(a)' = PassedAt(a) \cup {Here}
      BY <1>1, <1>4, <1>8, <3>1 DEF PassedAt
    <3>3. LastOf(PassedAt(a)', Here)
      BY <1>6, <3>2 DEF LastOf, PassedAt
    <3> QED
      BY <1>1, <1>7, <3>1, <3>2, <3>3 DEF Says, LastOf
  <2>3. CASE ~ (s = slot /\ z = y)
    <3>1. a # Head(lines)
      <4>1. CASE z # y
        BY <1>10, <4>1
      <4>2. CASE z = y
        BY <1>2, <1>10, <2>3, <4>2, SlotUnique DEF x
      <4> QED
        BY <4>1, <4>2
    <3>2. PassedAt(a)' = PassedAt(a)
      BY <1>1, <1>4, <1>8, <3>1 DEF PassedAt
    <3>3. g_vas_range'[s][z] = g_vas_range[s][z]
      BY <1>11, <2>3
    <3> QED
      BY <1>1, <2>1, <3>2, <3>3 DEF Says, LastOf
  <2> QED
    BY <2>2, <2>3
<1> QED
  BY <1>14, <1>15, <1>16, <1>17 DEF TableOK

\* Leaving a range file: at its end, at a line that is no address, or because there
\* is no slot left.
LEMMA FileStep ==
  ASSUME TypeOK, LoaderOK, Slotted(config), TableOK, setRange_end \/ setRange_bad
  PROVE  TableOK' /\ Slotted(config)'
<1>1. InFile /\ Filling /\ Filling' /\ pc' = "entries"
      /\ UNCHANGED <<g_vas_ip_01, g_vas_range, config>> /\ Done' = Done + 1
  <2>1. Done' = Done + 1
    BY LineEnds
  <2> QED
    BY <2>1 DEF setRange_end, setRange_bad, table, InFile, Filling
<1>2. Slotted(config)'
  BY <1>1 DEF Slotted
<1>3. Claimed' = Passed'
  BY <1>1 DEF Claimed
<1>4. Taken /\ InOrder /\ Complete /\ OwnNumbers /\ LastWins
  BY <1>1 DEF TableOK
<1>5. Passed \subseteq Passed'
  BY <1>1, PassedFile
<1>6. InOrder' /\ OwnNumbers'
  BY <1>1, <1>4 DEF InOrder, OwnNumbers
<1>7. CASE setRange_bad
  <2>1. pc = "put" /\ Head(lines).suffix = BadSuffix
    BY <1>7 DEF setRange_bad
  <2>2. lines # <<>> /\ Head(lines).prefix # BadPrefix
    BY <2>1 DEF LoaderOK
  <2>3. At(config, Here) = Head(lines)
    BY <1>1, <2>2, HereFacts
  <2>4. Passed' = Passed \cup {Here}
    BY <1>1, <2>1, <2>2, <2>3, PassedFile DEF Good
  <2>5. Claimed' = Claimed
    BY <1>3, <2>1, <2>4 DEF Claimed
  <2>6. Taken' /\ Complete'
    BY <1>1, <1>4, <2>5 DEF Taken, Complete
  <2>7. LastWins'
    <3>1. ASSUME NEW s \in Slots, NEW z \in Suffixes
          PROVE  PassedAt([prefix |-> g_vas_ip_01[s], suffix |-> z])' =
                 PassedAt([prefix |-> g_vas_ip_01[s], suffix |-> z])
      <4>1. At(config, Here) # [prefix |-> g_vas_ip_01[s], suffix |-> z]
        BY <2>1, <2>3, BadAssumption
      <4> QED
        BY <1>1, <2>4, <4>1 DEF PassedAt
    <3>2. Fits' = Fits
      BY <1>1 DEF Fits
    <3> QED
      BY <1>1, <1>4, <3>1, <3>2 DEF LastWins, Says, LastOf
  <2> QED
    BY <1>2, <1>6, <2>6, <2>7 DEF TableOK
<1>8. CASE setRange_end
  <2>1. pc = "lines" /\ ~Readable
    BY <1>8 DEF setRange_end
  <2>2. Claimed = Passed
    BY <2>1 DEF Claimed
  <2>3. CASE lines = <<>> \/ Head(lines).prefix = BadPrefix
    <3>1. Passed' = Passed
      <4>1. CASE lines = <<>>
        BY <1>1, <4>1, PassedFile
      <4>2. CASE lines # <<>> /\ Head(lines).prefix = BadPrefix
        <5>1. At(config, Here) = Head(lines)
          BY <1>1, <4>2, HereFacts
        <5>2. ~Good(config, Here)
          BY <4>2, <5>1 DEF Good
        <5> QED
          BY <1>1, <4>2, <5>1, <5>2, PassedFile
      <4> QED
        BY <2>3, <4>1, <4>2
    <3> QED
      BY <1>1, <1>2, <1>3, <2>2, <3>1, TableStays
  <2>4. CASE lines # <<>> /\ Head(lines).prefix # BadPrefix /\ Candidates = {}
    <3>1. \A s \in Slots : g_vas_ip_01[s] # -1 /\ g_vas_ip_01[s] # Head(lines).prefix
      BY <2>4 DEF Candidates
    <3>2. Taken'
      BY <1>1, <1>3, <1>4, <1>5, <2>2 DEF Taken
    <3>3. Complete'
      BY <1>1, <3>1 DEF Complete
    <3>4. Here \in Reached(config) /\ At(config, Here) = Head(lines)
      BY <1>1, <2>4, HereNext, HereFacts
    <3>5. Head(lines).prefix \in PrefixesOf(config)
      BY <3>4 DEF PrefixesOf
    <3>6. ~Fits
      BY <3>1, <3>5, FitsFree
    <3>7. LastWins'
      BY <1>1, <3>6 DEF LastWins, Fits
    <3> QED
      BY <1>2, <1>6, <3>2, <3>3, <3>7 DEF TableOK
  <2> QED
    BY <2>1, <2>3, <2>4 DEF Readable
<1> QED
  BY <1>7, <1>8

\* While nothing has been passed, an empty table is right.
LEMMA EmptyTable ==
  ASSUME TypeOK, LoaderOK, pc = "clearRange", clear_range, Cleared, pc' = "entries"
  PROVE  TableOK' /\ Slotted(config)'
<1>1. \A s \in Slots : g_vas_ip_01[s] = -1
  BY DEF Cleared
<1>2. UNCHANGED <<g_vas_ip_01, config, todo>> /\ slot + 1 = MAX_IP_01
      /\ g_vas_range' = [g_vas_range EXCEPT ![slot] = [z \in Suffixes |-> -1]]
  BY DEF clear_range
<1>3. \A s \in Slots, z \in Suffixes : g_vas_range'[s][z] = -1
  <2> TAKE s \in Slots, z \in Suffixes
  <2>1. slot \in Slots /\ g_vas_range \in [Slots -> [Suffixes -> Nat \cup {-1}]]
    BY DEF TypeOK
  <2>2. s = slot \/ s < slot
    BY <1>2, <2>1, SlotAssumption DEF Slots
  <2> QED
    BY <1>2, <2>1, <2>2 DEF Cleared
<1>4. Passed' = {} /\ Claimed' = {}
  <2>1. Done' = 0
    BY <1>2, ConfigAssumption DEF Done, LoaderOK, TypeOK
  <2>2. \A q \in Reached(config') : q[1] \in Nat \ {0}
    <3> TAKE q \in Reached(config')
    <3>1. q \in Positions(config) /\ config \in Configs
      BY <1>2 DEF Reached, TypeOK
    <3> QED
      BY <3>1, AtFacts
  <2> QED
    BY <2>1, <2>2 DEF Passed, InFile, Claimed
<1> QED
  BY <1>1, <1>2, <1>3, <1>4 DEF TableOK, Taken, InOrder, Complete, OwnNumbers, LastWins, Slotted

\* Every step keeps the table what the lines that have been read make it.
LEMMA TableStep ==
  ASSUME TypeOK, LoaderOK, Slotted(Source), Cleared, TableOK, [Next]_vars
  PROVE  Slotted(Source)' /\ Cleared' /\ TableOK'
<1>1. ASSUME Filling, Filling', UNCHANGED <<g_vas_ip_01, g_vas_range, config>>,
             Passed' = Passed, Claimed' = Claimed
      PROVE  Slotted(Source)' /\ Cleared' /\ TableOK'
  <2>1. Slotted(Source)'
    BY <1>1 DEF Filling, Source, Slotted
  <2>2. Cleared'
    BY <1>1 DEF Filling, Cleared
  <2> QED
    BY <1>1, <2>1, <2>2, TableStays
<1>2. ASSUME pc' = "exited", pc \notin {"clearIp", "clearRange"},
             UNCHANGED <<g_vas_ip_01, g_vas_range, config>>
      PROVE  Slotted(Source)' /\ Cleared' /\ TableOK'
  BY <1>2 DEF Filling, Source, Slotted, Cleared, TableOK
<1>3. ASSUME UNCHANGED <<loader, g_vas_ip_01, g_vas_range>>
      PROVE  Slotted(Source)' /\ Cleared' /\ TableOK'
  <2>1. Slotted(Source)' /\ Cleared'
    BY <1>3 DEF loader, Source, Slotted, Cleared
  <2>2. Done' = Done /\ LDone' = LDone /\ Here' = Here
    BY <1>3 DEF loader, Done, LDone, RangeFile, Here
  <2>3. Passed' = Passed /\ Claimed' = Claimed
    BY <1>3, <2>2 DEF loader, Passed, Claimed, InFile
  <2>4. CASE Filling
    BY <1>3, <2>1, <2>3, <2>4, TableStays DEF loader
  <2>5. CASE ~Filling
    BY <1>3, <2>1, <2>5 DEF TableOK, Filling, loader
  <2> QED
    BY <2>4, <2>5
<1>4. ASSUME NEW c \in Configs, read_config(c)
      PROVE  Slotted(Source)' /\ Cleared' /\ TableOK'
  <2>1. pc = "idle" /\ pc' = "clearIp" /\ slot' = 0 /\ before' = config
        /\ UNCHANGED <<g_vas_ip_01, g_vas_range>>
    BY <1>4 DEF read_config, table
  <2>2. Slotted(Source)'
    BY <2>1 DEF Source, Slotted
  <2>3. Cleared'
    BY <2>1, SlotAssumption DEF Cleared, Slots
  <2> QED
    BY <2>1, <2>2, <2>3 DEF TableOK, Filling
<1>5. CASE clear_ip
  <2>1. pc = "clearIp" /\ UNCHANGED <<before, g_vas_range>> /\ slot' = (slot + 1) % MAX_IP_01
        /\ g_vas_ip_01' = [g_vas_ip_01 EXCEPT ![slot] = -1]
        /\ pc' = IF slot + 1 = MAX_IP_01 THEN "clearRange" ELSE "clearIp"
    BY <1>5 DEF clear_ip
  <2>2. slot \in Slots /\ \A s \in Slots : g_vas_ip_01'[s] = IF s = slot THEN -1 ELSE g_vas_ip_01[s]
    BY <2>1 DEF TypeOK
  <2>3. pc' \in {"clearIp", "clearRange"}
    BY <2>1
  <2>4. Slotted(Source)'
    BY <2>1, <2>2, <2>3 DEF Source, Slotted
  <2>5. \A s \in Slots : s <= slot => g_vas_ip_01'[s] = -1
    BY <2>1, <2>2, SlotAssumption DEF Cleared, Slots
  <2>6. Cleared'
    <3>1. CASE slot + 1 = MAX_IP_01
      BY <2>1, <2>2, <2>5, <3>1, SlotAfter, SlotAssumption DEF Cleared, Slots
    <3>2. CASE slot + 1 # MAX_IP_01
      BY <2>1, <2>2, <2>5, <3>2, SlotAfter, SlotAssumption DEF Cleared, Slots
    <3> QED
      BY <3>1, <3>2
  <2> QED
    BY <2>3, <2>4, <2>6 DEF TableOK, Filling
<1>6. CASE clear_range
  <2>1. pc = "clearRange" /\ UNCHANGED <<before, g_vas_ip_01>> /\ slot' = (slot + 1) % MAX_IP_01
        /\ g_vas_range' = [g_vas_range EXCEPT ![slot] = [z \in Suffixes |-> -1]]
        /\ pc' = IF slot + 1 = MAX_IP_01 THEN "entries" ELSE "clearRange"
    BY <1>6 DEF clear_range
  <2>2. CASE slot + 1 = MAX_IP_01
    BY <1>6, <2>1, <2>2, EmptyTable DEF Cleared, Source
  <2>3. CASE slot + 1 # MAX_IP_01
    <3>1. slot \in Slots /\ \A s \in Slots, z \in Suffixes :
            g_vas_range'[s][z] = IF s = slot THEN -1 ELSE g_vas_range[s][z]
      BY <2>1 DEF TypeOK
    <3>2. Slotted(Source)'
      <4>1. Source' = before /\ Source = before
        BY <2>1, <2>3 DEF Source
      <4>2. \A s \in Slots, z \in Suffixes :
              g_vas_range'[s][z] # -1 => g_vas_range'[s][z] = g_vas_range[s][z]
        BY <3>1
      <4> QED
        BY <2>1, <4>1, <4>2 DEF Slotted
    <3>3. Cleared'
      BY <2>1, <2>3, <3>1, SlotAfter, SlotAssumption DEF Cleared, Slots
    <3> QED
      BY <2>1, <2>3, <3>2, <3>3 DEF TableOK, Filling
  <2> QED
    BY <2>2, <2>3
<1>7. CASE server_reset \/ loaded
  <2>1. pc \in {"entries"} /\ pc' \in {"count", "idle"}
        /\ UNCHANGED <<g_vas_ip_01, g_vas_range, config, todo, lines>>
    BY <1>7 DEF server_reset, loaded, Entry, table
  <2>2. Done' = Done
    BY <2>1 DEF Done
  <2>3. Passed' = Passed /\ Claimed' = Claimed
    BY <2>1, <2>2 DEF Passed, Claimed, InFile
  <2> QED
    BY <1>1, <2>1, <2>3 DEF Filling
<1>8. CASE server_skip \/ (server_store /\ pc' # "exited")
  <2>1. todo # <<>> /\ config' = config /\ pc' = "entries" /\ Done' = Done + 1
    BY <1>8, LineEnds
  <2>2. Head(todo).kind # "range" /\ pc \in {"entries", "count"}
    BY <1>8 DEF server_skip, server_store, ServerLine, Entry, LoaderOK
  <2>3. UNCHANGED <<g_vas_ip_01, g_vas_range>>
    BY <1>8, Zenon DEF server_skip, server_store, table
  <2>4. Passed' = Passed /\ Claimed' = Claimed
    BY <2>1, <2>2, PassedOther DEF InFile
  <2> QED
    BY <1>1, <2>1, <2>2, <2>3, <2>4 DEF Filling
<1>9. CASE server_exit \/ (server_store /\ pc' = "exited")
  <2>1. pc' = "exited" /\ UNCHANGED <<g_vas_ip_01, g_vas_range, config>>
    BY <1>9, Zenon DEF server_exit, server_store, table
  <2>2. pc \in {"entries", "count"}
    BY <1>9 DEF server_exit, server_store, ServerLine, Entry
  <2> QED
    BY <1>2, <2>1, <2>2
<1>10. CASE SetRange
  <2>1. pc = "entries" /\ todo # <<>> /\ Head(todo).kind = "range"
        /\ UNCHANGED <<g_vas_ip_01, g_vas_range, config, todo>>
    BY <1>10 DEF SetRange, Entry, table
  <2>2. CASE pc' = "exited"
    BY <1>2, <2>1, <2>2
  <2>3. CASE pc' # "exited"
    <3>1. pc' = "lines" /\ lines' = Head(todo).lines
      BY <1>10, <2>3 DEF SetRange
    <3>2. Done' = Done /\ RangeFile' = lines' /\ lines' \in Seq(Line)
      BY <2>1, <3>1, HeadFacts DEF Done, RangeFile
    <3>3. LDone' = 0
      BY <3>2 DEF LDone
    <3>4. \A q \in Reached(config) : q[2] \in Nat \ {0}
      <4> TAKE q \in Reached(config)
      <4>1. q \in Positions(config) /\ config \in Configs
        BY DEF Reached, TypeOK
      <4> QED
        BY <4>1, AtFacts
    <3>5. Passed' = Passed
      <4>1. Passed' = {q \in Reached(config) : q[1] <= Done \/ (q[1] = Done + 1 /\ q[2] <= 0)}
        BY <2>1, <3>1, <3>2, <3>3 DEF Passed, InFile
      <4>2. Passed = {q \in Reached(config) : q[1] <= Done}
        BY <2>1 DEF Passed, InFile
      <4> QED
        BY <3>4, <4>1, <4>2
    <3>6. Claimed' = Claimed
      BY <2>1, <3>1, <3>5 DEF Claimed
    <3> QED
      BY <1>1, <2>1, <3>1, <3>5, <3>6 DEF Filling
  <2> QED
    BY <2>2, <2>3
<1>11. ASSUME pc \in {"lines", "put"}, pc' \in {"lines", "put", "entries"}, config' = config,
              TableOK', Slotted(config)'
       PROVE  Slotted(Source)' /\ Cleared' /\ TableOK'
  <2>1. Source' = config' /\ Source = config
    BY <1>11 DEF Source
  <2>2. Slotted(Source)'
    BY <1>11, <2>1 DEF Slotted
  <2> QED
    BY <1>11, <2>2 DEF Cleared
<1>12. CASE setRange_end \/ setRange_bad
  <2>1. pc \in {"lines", "put"} /\ pc' = "entries" /\ config' = config
    BY <1>12 DEF setRange_end, setRange_bad
  <2>2. Slotted(config)
    BY <2>1 DEF Source
  <2> QED
    BY <1>11, <1>12, <2>1, <2>2, FileStep
<1>13. CASE setRange_slot
  <2>1. pc = "lines" /\ pc' = "put" /\ config' = config
    BY <1>13 DEF setRange_slot
  <2>2. Slotted(config)
    BY <2>1 DEF Source
  <2> QED
    BY <1>11, <1>13, <2>1, <2>2, SlotStep
<1>14. CASE setRange_put
  <2>1. pc = "put" /\ pc' = "lines" /\ config' = config
    BY <1>14 DEF setRange_put
  <2>2. Slotted(config)
    BY <2>1 DEF Source
  <2> QED
    BY <1>11, <1>14, <2>1, <2>2, PutStep
<1>15. CASE (\E a \in Address : GetVasNo(a)) \/ getVasNo_scan \/ getVasNo_read \/ getVasNo_forget
            \/ UNCHANGED vars
  <2>1. UNCHANGED <<loader, g_vas_ip_01, g_vas_range>>
    BY <1>15 DEF GetVasNo, getVasNo_scan, getVasNo_read, getVasNo_forget, vars, table
  <2> QED
    BY <1>3, <2>1
<1> QED
  BY <1>4, <1>5, <1>6, <1>7, <1>8, <1>9, <1>10, <1>12, <1>13, <1>14, <1>15 DEF Next, LoadParameters

-----------------------------------------------------------------------------
(* Lookups *)

\* What loading leaves alone.
LEMMA LoadLeaves ==
  ASSUME LoadParameters
  PROVE  UNCHANGED <<config, before, lookup, seen>>
  BY Zenon DEF LoadParameters, clear_ip, clear_range, server_reset, server_skip, server_store,
       server_exit, SetRange, setRange_end, setRange_slot, setRange_put, setRange_bad, loaded

\* Every step keeps what is known of a lookup.
LEMMA LookupStep ==
  ASSUME TypeOK, LoaderOK, Slotted(Source), LookupOK, NoMisroute, [Next]_vars
  PROVE  LookupOK' /\ NoMisroute'
<1>1. ASSUME NEW c \in Configs, read_config(c)
      PROVE  LookupOK' /\ NoMisroute'
  <2>1. config' = c /\ before' = config /\ UNCHANGED <<lpc, ask, i, vasno>>
        /\ seen' = IF lpc = "idle" THEN seen ELSE seen \cup {c}
    BY <1>1 DEF read_config, lookup
  <2>2. LookupOK'
    BY <2>1 DEF LookupOK
  <2>3. NoMisroute'
    <3> SUFFICES ASSUME lpc = "done", SlotKept(seen', ask.prefix)
                 PROVE  vasno \in (UNION {Numbers(d, ask) : d \in seen'}) \cup {-1}
      BY <2>1 DEF NoMisroute
    <3>1. seen \subseteq seen'
      BY <2>1
    <3>2. SlotKept(seen, ask.prefix)
      BY <3>1 DEF SlotKept
    <3>3. vasno \in (UNION {Numbers(d, ask) : d \in seen}) \cup {-1}
      BY <3>2 DEF NoMisroute
    <3> QED
      BY <3>1, <3>3
  <2> QED
    BY <2>2, <2>3
<1>2. ASSUME UNCHANGED <<config, before, lookup, seen>>, pc = "idle" => pc' = "idle"
      PROVE  LookupOK' /\ NoMisroute'
  BY <1>2 DEF LookupOK, NoMisroute, SlotKept, lookup
<1>3. CASE LoadParameters
  <2>1. pc # "idle"
    BY <1>3 DEF LoadParameters, clear_ip, clear_range, server_reset, server_skip, server_store,
           server_exit, SetRange, setRange_end, setRange_slot, setRange_put, setRange_bad, loaded,
           Entry, ServerLine
  <2>2. UNCHANGED <<config, before, lookup, seen>>
    BY <1>3, LoadLeaves
  <2> QED
    BY <1>2, <2>1, <2>2
<1>4. ASSUME NEW a \in Address, GetVasNo(a)
      PROVE  LookupOK' /\ NoMisroute'
  BY <1>4 DEF GetVasNo, loader, LookupOK, NoMisroute
<1>5. CASE getVasNo_scan
  <2>1. UNCHANGED <<config, before, pc, ask, vasno, seen>> /\ lpc = "scan"
    BY <1>5 DEF getVasNo_scan, loader
  <2>2. CASE g_vas_ip_01[i] = ask.prefix /\ lpc' = "read" /\ i' = i
    <3>1. ask.prefix # -1 /\ i \in Slots
      BY <2>1, BadAssumption DEF LookupOK, Address, TypeOK
    <3>2. ask.prefix \in PrefixesOf(Source) /\ Rank(Source, ask.prefix) = i
      BY <2>2, <3>1 DEF Slotted
    <3>3. Source \in seen
      BY <2>1 DEF Source, LookupOK
    <3> QED
      BY <2>1, <2>2, <3>2, <3>3 DEF LookupOK, NoMisroute
  <2>3. CASE lpc' = "scan"
    BY <2>1, <2>3 DEF LookupOK, NoMisroute
  <2>4. CASE lpc' = "done"
    <3>1. vasno = -1
      BY <2>1 DEF LookupOK
    <3>2. vasno' = -1
      BY <2>1, <3>1
    <3>3. vasno' \in (UNION {Numbers(c, ask') : c \in seen'}) \cup {-1}
      BY <3>2, Zenon
    <3> QED
      BY <2>1, <2>4, <3>3 DEF LookupOK, NoMisroute
  <2> QED
    BY <1>5, <2>1, <2>2, <2>3, <2>4 DEF getVasNo_scan
<1>6. CASE getVasNo_read
  <2>1. UNCHANGED <<config, before, pc, ask, i, seen>> /\ lpc = "read" /\ lpc' = "done"
        /\ vasno' = g_vas_range[i][ask.suffix]
    BY <1>6 DEF getVasNo_read, loader
  <2>2. LookupOK'
    BY <2>1 DEF LookupOK
  <2>3. PICK c \in seen : ask.prefix \in PrefixesOf(c) /\ Rank(c, ask.prefix) = i
    BY <2>1 DEF LookupOK
  <2>4. /\ ask = [prefix |-> ask.prefix, suffix |-> ask.suffix]
        /\ ask.suffix \in Suffixes /\ i \in Slots
    BY <2>1 DEF LookupOK, Address, TypeOK
  <2>5. Source \in seen
    BY <2>1 DEF Source, LookupOK
  <2>6. ASSUME SlotKept(seen, ask.prefix), vasno' # -1
        PROVE  vasno' \in Numbers(Source, ask)
    <3>1. PICK y \in PrefixesOf(Source) :
            Rank(Source, y) = i /\ vasno' \in Numbers(Source, [prefix |-> y, suffix |-> ask.suffix])
      BY <2>1, <2>4, <2>6 DEF Slotted
    <3>2. y = ask.prefix
      BY <2>3, <2>5, <2>6, <3>1 DEF SlotKept
    <3> QED
      BY <2>4, <3>1, <3>2
  <2>7. NoMisroute'
    <3> SUFFICES ASSUME SlotKept(seen', ask'.prefix)
                 PROVE  vasno' \in (UNION {Numbers(d, ask') : d \in seen'}) \cup {-1}
      BY DEF NoMisroute
    <3>1. SlotKept(seen, ask.prefix)
      BY <2>1
    <3>2. vasno' # -1 => vasno' \in UNION {Numbers(d, ask) : d \in seen}
      BY <2>5, <2>6, <3>1
    <3>3. ask' = ask /\ seen' = seen
      BY <2>1
    <3> QED
      BY <3>2, <3>3, Zenon
  <2> QED
    BY <2>2, <2>7
<1>7. CASE getVasNo_forget
  BY <1>7 DEF getVasNo_forget, LookupOK, NoMisroute
<1>8. CASE UNCHANGED vars
  BY <1>2, <1>8 DEF vars, loader
<1> QED
  BY <1>1, <1>3, <1>4, <1>5, <1>6, <1>7, <1>8 DEF Next

-----------------------------------------------------------------------------
(* What the configuration promises *)

\* When everything has been passed, the table says what the files say.
LEMMA TableRight ==
  ASSUME TypeOK, LoaderOK, Slotted(Source), TableOK
  PROVE  TableMatchesFiles
<1> SUFFICES ASSUME pc = "idle", NEW a \in Address
             PROVE  IF Cardinality(PrefixesOf(config)) <= MAX_IP_01
                      THEN Found(a) = Assigned(config, a)
                      ELSE Found(a) \in Numbers(config, a) \cup {-1}
  BY DEF TableMatchesFiles
<1> DEFINE S == {s \in Slots : g_vas_ip_01[s] = a.prefix}
<1>1. Taken /\ InOrder /\ Complete /\ OwnNumbers /\ LastWins /\ Slotted(config)
  BY DEF TableOK, Filling, Source
<1>2. a = [prefix |-> a.prefix, suffix |-> a.suffix] /\ a.prefix # -1 /\ a.suffix \in Suffixes
  BY BadAssumption DEF Address
<1>3. Passed = Reached(config) /\ Claimed = Reached(config)
  <2>1. Done = Len(config)
    BY ConfigAssumption DEF LoaderOK, Done, TypeOK
  <2>2. \A q \in Reached(config) : q[1] <= Len(config)
    <3> TAKE q \in Reached(config)
    <3>1. q[1] \in 1 .. Len(config)
      BY PositionFacts DEF Reached
    <3>2. Len(config) \in Nat
      BY ConfigAssumption DEF TypeOK
    <3> QED
      BY <3>1, <3>2
  <2> QED
    BY <2>1, <2>2 DEF Passed, Claimed
<1>4. CASE S = {}
  <2>1. Found(a) = -1
    BY <1>4 DEF Found
  <2>2. ASSUME Fits
        PROVE  \A q \in Reached(config) : At(config, q).prefix # a.prefix
    <3> SUFFICES ASSUME NEW q \in Reached(config), At(config, q).prefix = a.prefix
                 PROVE  FALSE
      OBVIOUS
    <3>1. a.prefix \in PrefixesOf(config)
      BY DEF PrefixesOf
    <3>2. \A s \in Slots : g_vas_ip_01[s] # -1
      BY <1>1, <1>3, <1>4 DEF Complete
    <3> QED
      BY <1>1, <1>4, <2>2, <3>1, <3>2, FitsFree
  <2>3. Fits => Assigned(config, a) = -1
    BY <2>2 DEF Assigned
  <2> QED
    BY <2>1, <2>3 DEF Fits
<1>5. CASE S # {}
  <2>1. PICK s \in Slots : g_vas_ip_01[s] = a.prefix
    BY <1>5
  <2>2. S = {s}
    BY <1>1, <1>2, <2>1, SlotUnique
  <2>3. Min(S) = s
    <3>1. Min(S) \in S
      BY <1>5, SmallestSlot
    <3> QED
      BY <2>2, <3>1
  <2>4. Found(a) = g_vas_range[s][a.suffix]
    BY <1>5, <2>3 DEF Found
  <2>5. Found(a) \in Numbers(config, a) \cup {-1}
    BY <1>1, <1>2, <2>1, <2>4 DEF OwnNumbers
  <2> DEFINE P == {q \in Reached(config) : At(config, q) = a}
  <2>6. PassedAt(a) = P
    BY <1>3 DEF PassedAt
  <2>7. ASSUME Fits
        PROVE  Found(a) = Assigned(config, a)
    <3>1. Says(P, Found(a))
      BY <1>1, <1>2, <2>1, <2>4, <2>6, <2>7 DEF LastWins
    <3>2. CASE P = {}
      BY <3>1, <3>2 DEF Says, Assigned
    <3>3. CASE P # {}
      <4>1. PICK q \in P : LastOf(P, q) /\ Found(a) = config[q[1]].no
        BY <3>1, <3>3 DEF Says
      <4>2. \A r \in P : LastOf(P, r) => r = q
        <5> SUFFICES ASSUME NEW r \in P, LastOf(P, r), r # q
                     PROVE  FALSE
          OBVIOUS
        <5>1. Before(r, q) /\ Before(q, r)
          BY <4>1 DEF LastOf
        <5>2. q \in Positions(config) /\ r \in Positions(config) /\ config \in Configs
          BY DEF Reached, TypeOK
        <5> QED
          BY <5>1, <5>2, BeforeOrder
      <4> HIDE DEF P
      <4>3. (CHOOSE r \in P : \A w \in P : w = r \/ Before(w, r)) = q
        BY <4>1, <4>2 DEF LastOf
      <4> QED
        BY <3>3, <4>1, <4>3 DEF Assigned, P
    <3> QED
      BY <3>2, <3>3
  <2> QED
    BY <2>5, <2>7 DEF Fits
<1> QED
  BY <1>4, <1>5

\* The invariant of the configuration and of the lookups holds of every behaviour.
LEMMA CfgInvariance == Spec => []CfgInv
<1>1. Init => CfgInv
  <2> SUFFICES ASSUME Init
               PROVE  CfgInv
    OBVIOUS
  <2>1. TypeOK /\ LoaderOK
    BY CfgTypesInit
  <2>2. Slotted(Source)
    BY DEF Init, Slotted
  <2>3. Cleared /\ TableOK
    BY SlotAssumption DEF Init, Cleared, TableOK, Filling, Slots
  <2>4. LookupOK /\ NoMisroute
    BY DEF Init, LookupOK, NoMisroute
  <2> QED
    BY <2>1, <2>2, <2>3, <2>4 DEF CfgInv
<1>2. CfgInv /\ [Next]_vars => CfgInv'
  BY CfgTypesStep, LoaderStep, TableStep, LookupStep DEF CfgInv
<1> QED
  BY <1>1, <1>2, PTL DEF Spec

\* The variables of the configuration, of the loader and of a lookup keep their types.
THEOREM ConfigTypes == Spec => []TypeOK
  BY CfgInvariance, PTL DEF CfgInv

\* The start-up is an implementation of VasConfig: whatever main and the threads do
\* with the handlers, loading and looking up go on as if they were alone.
THEOREM StartRefines == StartSpec => Spec
<1>1. StartInit => Init
  BY DEF StartInit
<1>2. [StartNext]_startVars => [Next]_vars
  <2> SUFFICES ASSUME [StartNext]_startVars
               PROVE  [Next]_vars
    OBVIOUS
  <2>1. CASE main
    BY <2>1 DEF main, main_loaded, main_return, main_exit, main_start, main_vas, main_new,
                main_queue, main_extra, main_extraQueue
  <2>2. CASE load
    BY <2>2 DEF load, Next
  <2>3. CASE \E c \in Configs : admin_reload(c)
    BY <2>3 DEF admin_reload, Next
  <2>4. CASE cti_lookup
    BY <2>4 DEF cti_lookup, Next
  <2>5. CASE cti_send
    BY <2>5 DEF cti_send, Next
  <2>6. CASE vas_send \/ pfs_lost \/ pfs_loop \/ pfs_extra
             \/ \E no \in 1 .. MAX_VAS_SERVER_COUNT : switch_back(no)
    BY <2>6 DEF vas_send, pfs_lost, pfs_loop, pfs_extra, switch_back
  <2>7. CASE UNCHANGED startVars
    BY <2>7 DEF startVars
  <2> QED
    BY <2>1, <2>2, <2>3, <2>4, <2>5, <2>6, <2>7 DEF StartNext
<1> QED
  BY <1>1, <1>2, PTL DEF StartSpec, Spec

\* When it has been loaded, the table says of every address what the last of its
\* lines says, whatever was loaded before, for every set of configurations and every
\* number of slots.
THEOREM TableAlwaysRight == StartSpec => []TableMatchesFiles
<1>1. CfgInv => TableMatchesFiles
  BY TableRight DEF CfgInv
<1> QED
  BY <1>1, CfgInvariance, StartRefines, PTL

\* A lookup that overlaps any number of reloads returns a number that one of the
\* configurations gives to the address, if prefixes keep their slots.
THEOREM NeverMisrouted == StartSpec => []NoMisroute
  BY CfgInvariance, StartRefines, PTL DEF CfgInv

-----------------------------------------------------------------------------
(* Why the gateway ends *)

\* The server lines that are done.
LEMMA ServersFinite ==
  ASSUME TypeOK
  PROVE  /\ IsFiniteSet(ServerLines(config)) /\ Cardinality(ServerLines(config)) \in Nat
         /\ IsFiniteSet(ServersDone) /\ Cardinality(ServersDone) \in Nat
         /\ IsFiniteSet(ValuedDone) /\ Cardinality(ValuedDone) \in Nat
<1>1. Len(config) \in Nat
  BY ConfigAssumption DEF TypeOK
<1>2. IsFiniteSet(1 .. Len(config))
  BY <1>1, FS_Interval
<1>3. ServerLines(config) \subseteq 1 .. Len(config)
  BY DEF ServerLines
<1>4. ServersDone \subseteq 1 .. Len(config) /\ ValuedDone \subseteq 1 .. Len(config)
  BY <1>3 DEF ServersDone, ValuedDone
<1> QED
  BY <1>2, <1>3, <1>4, FS_Subset, FS_CardinalityType

\* One more line is done.
LEMMA ServersNext ==
  ASSUME TypeOK, LoaderOK, todo # <<>>, config' = config, Done' = Done + 1
  PROVE  /\ Done + 1 \notin ServersDone
         /\ Head(todo).kind # "server" => ServersDone' = ServersDone /\ ValuedDone' = ValuedDone
         /\ Head(todo).kind = "server" =>
              /\ Done + 1 \in ServerLines(config)
              /\ ServersDone' = ServersDone \cup {Done + 1}
              /\ Head(todo).ip = NoValue => ValuedDone' = ValuedDone
              /\ Head(todo).ip # NoValue => ValuedDone' = ValuedDone \cup {Done + 1}
<1>1. Done \in Nat /\ Done + 1 \in 1 .. Len(config) /\ Head(todo) = config[Done + 1]
      /\ Len(config) \in Nat
  BY HeadFacts
<1>2. \A e \in ServerLines(config) : e \in Nat
  BY <1>1 DEF ServerLines
<1>3. Done + 1 \in ServerLines(config) <=> Head(todo).kind = "server"
  BY <1>1 DEF ServerLines
<1>4. Done + 1 \notin ServersDone
  BY <1>1 DEF ServersDone
<1>5. ServersDone' = {e \in ServerLines(config) : e <= Done + 1}
  BY DEF ServersDone
<1>6. ServersDone' = ServersDone \cup {e \in {Done + 1} : e \in ServerLines(config)}
  BY <1>1, <1>2, <1>5 DEF ServersDone
<1>7. ValuedDone' = {e \in ServersDone' : config[e].ip # NoValue}
  BY DEF ValuedDone
<1>8. ValuedDone' = ValuedDone \cup {e \in {Done + 1} : e \in ServerLines(config)
                                                       /\ config[e].ip # NoValue}
  BY <1>6, <1>7 DEF ValuedDone
<1> QED
  BY <1>1, <1>3, <1>4, <1>6, <1>8

\* VAS_SERVER_1 comes first: another server line finds it done.
LEMMA FirstServer ==
  ASSUME TypeOK, LoaderOK, Entry("server"), Head(todo).no # 1
  PROVE  Met
<1>1. todo # <<>> /\ Head(todo).kind = "server" /\ pc = "entries"
  BY DEF Entry
<1>2. Done \in Nat /\ Done + 1 \in 1 .. Len(config) /\ Head(todo) = config[Done + 1]
      /\ Len(config) \in Nat /\ config \in Configs
  BY <1>1, HeadFacts
<1>3. Done + 1 \in ServerLines(config)
  BY <1>1, <1>2 DEF ServerLines
<1>4. PICK d \in ServerLines(config) : d < Done + 1
  BY <1>2, <1>3, ConfigAssumption
<1>5. d \in Nat
  BY <1>2 DEF ServerLines
<1>6. d \in ServersDone
  BY <1>2, <1>4, <1>5 DEF ServersDone
<1> QED
  BY <1>1, <1>6 DEF Met, Filling

\* A server that is stored has a place in the arrays, and EXTRA has the last one.
LEMMA ServerPlace ==
  ASSUME TypeOK, LoaderOK, CountBounded, NEW index \in 0 .. MAX_VAS_SERVER_COUNT,
         ServerLine(index)
  PROVE  /\ todo # <<>>
         /\ \/ /\ Head(todo).kind = "server" /\ Met /\ index = nVasServerCount
               /\ index < MAX_VAS_SERVER_COUNT /\ ~Entry("extra")
            \/ Head(todo).kind = "extra" /\ Entry("extra") /\ index = MAX_VAS_SERVER_COUNT
<1>1. CASE Entry("extra") /\ index = MAX_VAS_SERVER_COUNT
  BY <1>1 DEF Entry
<1>2. CASE /\ pc = "count" \/ (Entry("server") /\ Head(todo).no # 1)
           /\ index = nVasServerCount
  <2>1. todo # <<>> /\ Head(todo).kind = "server"
    BY <1>2 DEF Entry, LoaderOK
  <2>2. Met
    BY <1>2, FirstServer DEF Met, Filling
  <2>3. nVasServerCount <= Cardinality(ServersDone)
    BY <2>2 DEF CountBounded
  <2> DEFINE S == ServersDone \cup {Done + 1}
  <2>4. Done + 1 \notin ServersDone /\ S \subseteq ServerLines(config)
    <3>1. Done \in Nat /\ Done + 1 \in 1 .. Len(config) /\ Head(todo) = config[Done + 1]
      BY <2>1, HeadFacts
    <3> QED
      BY <2>1, <3>1 DEF ServersDone, ServerLines
  <2>5. Cardinality(S) = Cardinality(ServersDone) + 1 /\ Cardinality(ServersDone) \in Nat
    BY <2>4, ServersFinite, FS_AddElement
  <2>6. /\ Cardinality(S) <= Cardinality(ServerLines(config))
        /\ Cardinality(ServerLines(config)) \in Nat
    <3> HIDE DEF S
    <3> QED
      BY <2>4, ServersFinite, FS_Subset
  <2>7. Cardinality(ServerLines(config)) <= MAX_VAS_SERVER_COUNT
    BY ConfigAssumption DEF TypeOK
  <2>8. nVasServerCount \in Nat /\ MAX_VAS_SERVER_COUNT \in Nat
    BY SlotAssumption DEF TypeOK
  <2>9. nVasServerCount < MAX_VAS_SERVER_COUNT
    BY <2>3, <2>5, <2>6, <2>7, <2>8
  <2>10. ~Entry("extra")
    BY <2>1 DEF Entry
  <2> QED
    BY <1>2, <2>1, <2>2, <2>9, <2>10
<1> QED
  BY <1>1, <1>2 DEF ServerLine

\* A step loads, starts a reload or leaves the configuration alone.
LEMMA StartCases ==
  ASSUME [StartNext]_startVars
  PROVE  \/ load
         \/ \E c \in Configs : admin_reload(c)
         \/ UNCHANGED <<table, loader, loads>>
<1>1. CASE main
  BY <1>1 DEF main, main_loaded, main_return, main_exit, main_start, main_vas, main_new, main_queue,
              main_extra, main_extraQueue, vars
<1>2. CASE cti_lookup
  BY <1>2 DEF cti_lookup, GetVasNo, getVasNo_scan, getVasNo_read
<1>3. CASE cti_send
  BY <1>3 DEF cti_send, getVasNo_forget
<1>4. CASE vas_send \/ pfs_lost \/ pfs_loop \/ pfs_extra
           \/ \E no \in 1 .. MAX_VAS_SERVER_COUNT : switch_back(no)
  BY <1>4 DEF vas_send, pfs_lost, pfs_loop, pfs_extra, switch_back, vars
<1>5. CASE UNCHANGED startVars
  BY <1>5 DEF startVars, vars
<1> QED
  BY <1>1, <1>2, <1>3, <1>4, <1>5 DEF StartNext

\* What is not about a line of a server leaves the servers alone.
LEMMA OtherLines ==
  ASSUME TypeOK, LoaderOK, LoadParameters, ~server_reset, ~server_skip, ~server_store, ~server_exit
  PROVE  /\ UNCHANGED servers
         /\ Met' => Met
         /\ Met' => ServersDone' = ServersDone /\ ValuedDone' = ValuedDone
         /\ pc' = "exited" => SetRange
<1>1. CASE clear_ip
  BY <1>1 DEF clear_ip, Met, Filling
<1>2. CASE clear_range
  <2>1. /\ UNCHANGED <<servers, config, todo>>
        /\ pc = "clearRange" /\ pc' \in {"clearRange", "entries"}
    BY <1>2 DEF clear_range
  <2>2. Done' = 0
    BY <2>1, ConfigAssumption DEF Done, LoaderOK, TypeOK
  <2>3. ServersDone' = {}
    BY <2>1, <2>2, ConfigAssumption DEF ServersDone, ServerLines, TypeOK
  <2>4. ~Met'
    BY <2>1, <2>3 DEF Met
  <2> QED
    BY <2>1, <2>4
<1>3. CASE setRange_end \/ setRange_bad
  <2>1. UNCHANGED servers /\ pc \in {"lines", "put"}
    BY <1>3 DEF setRange_end, setRange_bad, table
  <2>2. todo # <<>> /\ config' = config /\ Done' = Done + 1 /\ pc' = "entries"
    BY <1>3, LineEnds
  <2>3. Head(todo).kind = "range"
    BY <2>1 DEF LoaderOK, InFile
  <2>4. ServersDone' = ServersDone /\ ValuedDone' = ValuedDone
    BY <2>2, <2>3, ServersNext
  <2> QED
    BY <2>1, <2>2, <2>4 DEF Met, Filling
<1>4. CASE SetRange \/ setRange_slot \/ setRange_put \/ loaded
  <2>1. UNCHANGED <<servers, config, todo>> /\ pc \in {"entries", "lines", "put"} /\ pc' # "count"
        /\ (pc' = "exited" => SetRange)
    BY <1>4 DEF SetRange, setRange_slot, setRange_put, loaded, Entry, table
  <2>2. ServersDone' = ServersDone /\ ValuedDone' = ValuedDone
    BY <2>1 DEF ServersDone, ValuedDone, Done
  <2> QED
    BY <2>1, <2>2 DEF Met, Filling
<1> QED
  BY <1>1, <1>2, <1>3, <1>4 DEF LoadParameters

\* Storing the address of a server.
LEMMA ExitStore ==
  ASSUME TypeOK, LoaderOK, ExitInv, server_store, loads' = loads
  PROVE  TextsKnown' /\ CountBounded' /\ ExitNeedsReason'
<1>1. PICK index \in 0 .. MAX_VAS_SERVER_COUNT :
        /\ ServerLine(index)
        /\ Head(todo).ip \notin {NoValue, NoColon}
        /\ szVasServerIp' = [szVasServerIp EXCEPT ![index] =
                               GetIpPort(Head(todo).ip, szVasServerIp[index])]
        /\ \/ /\ ~check_ip(GetIpPort(Head(todo).ip, szVasServerIp[index]))
              /\ pc' = "exited" /\ UNCHANGED <<nVasServerCount, todo>>
           \/ /\ nVasServerCount' = IF Entry("extra") THEN nVasServerCount ELSE nVasServerCount + 1
              /\ todo' = Tail(todo)
              /\ pc' = "entries"
        /\ config' = config
  BY DEF server_store
<1>2. /\ todo # <<>>
      /\ \/ /\ Head(todo).kind = "server" /\ Met /\ index = nVasServerCount
            /\ index < MAX_VAS_SERVER_COUNT /\ ~Entry("extra")
         \/ Head(todo).kind = "extra" /\ Entry("extra") /\ index = MAX_VAS_SERVER_COUNT
  BY <1>1, ServerPlace DEF ExitInv
<1> DEFINE t == Head(todo).ip
           old == szVasServerIp[index]
           new == GetIpPort(t, old)
           kind == IF index < MAX_VAS_SERVER_COUNT THEN "server" ELSE "extra"
<1>3. t \in Text /\ old \in Text
  BY <1>1, <1>2, HeadFacts DEF TypeOK
<1>4. Len(t) \in Nat /\ Len(old) \in Nat
  BY <1>3 DEF Text
<1>5. Head(todo).kind = kind
  BY <1>2, SlotAssumption
<1>6. config \in loads /\ Done + 1 \in 1 .. Len(config) /\ Head(todo) = config[Done + 1]
  BY <1>2, HeadFacts DEF ExitInv, Origins
<1>7. (Len(old) <= Len(t) => new = t)
      /\ Len(new) = IF Len(old) <= Len(t) THEN Len(t) ELSE Len(old)
  BY <1>3, TextFacts
<1>8. ASSUME Len(old) > Len(t)
      PROVE  \E c \in loads : \E k \in 1 .. Len(c) :
               c[k].kind = kind /\ c[k].ip \notin {NoValue, NoColon} /\ Len(c[k].ip) = Len(old)
  <2>1. old # <<>>
    BY <1>4, <1>8
  <2> QED
    BY <2>1 DEF ExitInv, TextsKnown
<1> HIDE DEF new
<1>9. \E c \in loads : \E k \in 1 .. Len(c) :
        c[k].kind = kind /\ c[k].ip \notin {NoValue, NoColon} /\ Len(c[k].ip) = Len(new)
  <2>1. CASE Len(old) <= Len(t)
    BY <1>1, <1>5, <1>6, <1>7, <2>1
  <2>2. CASE Len(old) > Len(t)
    <3>1. Len(new) = Len(old)
      BY <1>4, <1>7, <2>2
    <3> QED
      BY <1>8, <2>2, <3>1
  <2> QED
    BY <1>4, <2>1, <2>2
<1>10. TextsKnown'
  <2> SUFFICES ASSUME NEW j \in 0 .. MAX_VAS_SERVER_COUNT
               PROVE  \/ szVasServerIp'[j] = <<>>
                      \/ \E c \in loads : \E k \in 1 .. Len(c) :
                           /\ c[k].kind = IF j < MAX_VAS_SERVER_COUNT THEN "server" ELSE "extra"
                           /\ c[k].ip \notin {NoValue, NoColon}
                           /\ Len(c[k].ip) = Len(szVasServerIp'[j])
    BY DEF TextsKnown
  <2>1. CASE j = index
    <3>1. szVasServerIp'[j] = new
      BY <1>1, <2>1 DEF new, TypeOK
    <3> QED
      BY <1>9, <2>1, <3>1
  <2>2. CASE j # index
    <3>1. szVasServerIp'[j] = szVasServerIp[j]
      BY <1>1, <2>2 DEF TypeOK
    <3> QED
      BY <3>1 DEF ExitInv, TextsKnown
  <2> QED
    BY <2>1, <2>2
<1>11. CASE pc' = "exited"
  <2>1. ~check_ip(new) /\ todo' = todo
    BY <1>1, <1>11 DEF new
  <2>2. CASE Len(old) <= Len(t)
    <3>1. ~IsAddress(t)
      <4>1. new = t
        BY <1>7, <2>2
      <4>2. ~check_ip(t)
        BY <2>1, <4>1
      <4> HIDE DEF t
      <4> QED
        BY <4>2 DEF check_ip, IsAddress
    <3> QED
      BY <1>2, <1>10, <1>11, <2>1, <3>1 DEF ExitNeedsReason, CountBounded, Met, Filling
  <2>3. CASE Len(old) > Len(t)
    <3>1. \E c \in loads : \E k \in 1 .. Len(c) :
            /\ c[k].kind = Head(todo).kind
            /\ c[k].ip \notin {NoValue, NoColon}
            /\ Len(c[k].ip) > Len(t)
      BY <1>5, <1>8, <2>3
    <3>2. ExitNeedsReason'
      BY <1>2, <2>1, <3>1 DEF ExitNeedsReason
    <3> QED
      BY <1>10, <1>11, <3>2 DEF CountBounded, Met, Filling
  <2> QED
    BY <1>4, <2>2, <2>3
<1>12. CASE pc' # "exited"
  <2>1. config' = config /\ pc' = "entries" /\ Done' = Done + 1
    BY <1>12, LineEnds
  <2>2. nVasServerCount' = IF Entry("extra") THEN nVasServerCount ELSE nVasServerCount + 1
    BY <1>1, <1>12
  <2>3. CASE Head(todo).kind = "server"
    <3>1. ServersDone' = ServersDone \cup {Done + 1} /\ Done + 1 \notin ServersDone
      BY <1>2, <2>1, <2>3, ServersNext
    <3>2. /\ Cardinality(ServersDone') = Cardinality(ServersDone) + 1
          /\ Cardinality(ServersDone) \in Nat
      BY <3>1, ServersFinite, FS_AddElement
    <3>3. nVasServerCount' = nVasServerCount + 1 /\ nVasServerCount \in Nat
          /\ nVasServerCount <= Cardinality(ServersDone)
      BY <1>2, <2>2, <2>3 DEF ExitInv, CountBounded, TypeOK
    <3> QED
      BY <1>10, <1>12, <3>2, <3>3 DEF CountBounded, ExitNeedsReason
  <2>4. CASE Head(todo).kind # "server"
    <3>1. ServersDone' = ServersDone
      BY <1>2, <2>1, <2>4, ServersNext
    <3>2. nVasServerCount' = nVasServerCount /\ pc = "entries"
      BY <1>2, <2>2, <2>4 DEF Entry
    <3>3. CountBounded'
      BY <2>1, <3>1, <3>2 DEF ExitInv, CountBounded, Met, Filling
    <3> QED
      BY <1>10, <1>12, <3>3 DEF ExitNeedsReason
  <2> QED
    BY <2>3, <2>4
<1> QED
  BY <1>11, <1>12

\* Every step keeps the reasons for an exit.
LEMMA ExitStep ==
  ASSUME TypeOK, LoaderOK, ExitInv, [StartNext]_startVars
  PROVE  ExitInv'
<1>1. CASE load
  <2>1. loads' = loads /\ LoadParameters
    BY <1>1 DEF load
  <2>2. config' = config /\ before' = before
    BY <2>1, LoadLeaves
  <2>3. Origins'
    BY <2>1, <2>2 DEF ExitInv, Origins
  <2>4. CASE server_store
    BY <2>1, <2>3, <2>4, ExitStore DEF ExitInv
  <2>5. CASE server_reset
    <3>1. UNCHANGED <<szVasServerIp, config, todo>> /\ nVasServerCount' = 0 /\ pc' = "count"
      BY <2>5 DEF server_reset
    <3>2. ServersDone' = ServersDone
      BY <3>1 DEF ServersDone, Done
    <3>3. CountBounded'
      BY <3>1, <3>2, ServersFinite DEF CountBounded
    <3> QED
      BY <2>1, <2>3, <3>1, <3>3 DEF ExitInv, TextsKnown, ExitNeedsReason
  <2>6. CASE server_skip
    <3>1. UNCHANGED <<szVasServerIp, nVasServerCount>>
      BY <2>6 DEF server_skip, table, servers
    <3>2. config' = config /\ pc' = "entries" /\ Done' = Done + 1 /\ todo # <<>>
      BY <2>6, LineEnds
    <3>3. PICK index \in 0 .. MAX_VAS_SERVER_COUNT : ServerLine(index)
      BY <2>6 DEF server_skip
    <3>4. /\ \/ Head(todo).kind = "server" /\ Met
             \/ Head(todo).kind = "extra" /\ Entry("extra")
      BY <3>3, ServerPlace DEF ExitInv
    <3>5. CASE Head(todo).kind = "server"
      <4>1. ServersDone' = ServersDone \cup {Done + 1} /\ Done + 1 \notin ServersDone
        BY <3>2, <3>5, ServersNext
      <4>2. Cardinality(ServersDone') = Cardinality(ServersDone) + 1
            /\ Cardinality(ServersDone) \in Nat
        BY <4>1, ServersFinite, FS_AddElement
      <4>3. nVasServerCount \in Nat /\ nVasServerCount <= Cardinality(ServersDone)
        BY <3>4, <3>5 DEF ExitInv, CountBounded, TypeOK
      <4> QED
        BY <2>1, <2>3, <3>1, <3>2, <4>2, <4>3 DEF ExitInv, CountBounded, TextsKnown, ExitNeedsReason
    <3>6. CASE Head(todo).kind = "extra"
      <4>1. ServersDone' = ServersDone
        BY <3>2, <3>6, ServersNext
      <4>2. pc = "entries"
        BY <3>4, <3>6 DEF Entry
      <4>3. CountBounded'
        BY <3>1, <3>2, <4>1, <4>2 DEF ExitInv, CountBounded, Met, Filling
      <4> QED
        BY <2>1, <2>3, <3>1, <3>2, <4>3 DEF ExitInv, TextsKnown, ExitNeedsReason
    <3> QED
      BY <3>4, <3>5, <3>6
  <2>7. CASE server_exit
    <3>1. UNCHANGED <<szVasServerIp, todo>> /\ pc' = "exited" /\ Head(todo).ip = NoColon
      BY <2>7 DEF server_exit, table, servers
    <3>2. PICK index \in 0 .. MAX_VAS_SERVER_COUNT : ServerLine(index)
      BY <2>7 DEF server_exit
    <3>3. Head(todo).kind # "range"
      BY <3>2, ServerPlace DEF ExitInv
    <3> QED
      BY <2>1, <2>3, <3>1, <3>3
      DEF ExitInv, TextsKnown, ExitNeedsReason, CountBounded, Met, Filling
  <2>8. CASE ~server_reset /\ ~server_skip /\ ~server_store /\ ~server_exit
    <3>1. UNCHANGED servers /\ (Met' => Met /\ ServersDone' = ServersDone)
          /\ (pc' = "exited" => SetRange)
      BY <2>1, <2>8, OtherLines
    <3>2. CountBounded' /\ TextsKnown'
      BY <2>1, <3>1 DEF ExitInv, CountBounded, TextsKnown, servers
    <3>3. ExitNeedsReason'
      <4> SUFFICES ASSUME pc' = "exited"
                   PROVE  ExitNeedsReason'
        BY DEF ExitNeedsReason
      <4>1. SetRange
        BY <3>1
      <4>2. todo' = todo /\ Head(todo).kind = "range" /\ ~Head(todo).exists
        BY <4>1 DEF SetRange, Entry
      <4> QED
        BY <4>2 DEF ExitNeedsReason
    <3> QED
      BY <2>3, <3>2, <3>3 DEF ExitInv
  <2> QED
    BY <2>4, <2>5, <2>6, <2>7, <2>8
<1>2. ASSUME NEW c \in Configs, admin_reload(c)
      PROVE  ExitInv'
  <2>1. config' = c /\ before' = config /\ loads' = loads \cup {c} /\ pc' = "clearIp"
        /\ UNCHANGED szVasServerIp
    BY <1>2 DEF admin_reload, read_config, table, servers
  <2>2. Origins'
    BY <2>1 DEF ExitInv, Origins
  <2>3. TextsKnown'
    BY <2>1 DEF ExitInv, TextsKnown
  <2> QED
    BY <2>1, <2>2, <2>3 DEF ExitInv, CountBounded, Met, Filling, ExitNeedsReason
<1>3. CASE UNCHANGED <<table, loader, loads>>
  <2>1. Met' = Met /\ ServersDone' = ServersDone
    BY <1>3 DEF loader, Met, Filling, ServersDone, Done
  <2> QED
    BY <1>3, <2>1 DEF ExitInv, Origins, TextsKnown, CountBounded, ExitNeedsReason, table, servers,
                      loader
<1> QED
  BY <1>1, <1>2, <1>3, StartCases

\* At the start.
LEMMA ExitInit == StartInit => ExitInv
<1> SUFFICES ASSUME StartInit
             PROVE  ExitInv
  OBVIOUS
<1>1. Origins
  BY DEF StartInit, Init, Origins
<1>2. TextsKnown
  BY DEF StartInit, Init, TextsKnown
<1> QED
  BY <1>1, <1>2 DEF StartInit, Init, ExitInv, CountBounded, Met, Filling, ExitNeedsReason

\* The lines of VAS servers and range files end the gateway only for a reason,
\* whatever has been loaded before and whatever the threads do meanwhile.
THEOREM ExitAlwaysForAReason == StartSpec => []ExitNeedsReason
<1>1. (CfgInv /\ ExitInv) /\ [StartNext]_startVars => ExitInv'
  BY ExitStep DEF CfgInv
<1>2. ExitInv => ExitNeedsReason
  BY DEF ExitInv
<1> QED
  BY <1>1, <1>2, ExitInit, CfgInvariance, StartRefines, PTL DEF StartSpec

-----------------------------------------------------------------------------
(* Handlers *)

\* Configurations that are regular together are so with fewer others.
LEMMA RegularFewer ==
  ASSUME NEW S, NEW T, S \subseteq T, Regular(T)
  PROVE  Regular(S)
  BY DEF Regular

\* The number of servers of a configuration is a size, and fits.
LEMMA ServersCount ==
  ASSUME NEW c \in Configs
  PROVE  /\ Servers(c) \in Nat
         /\ Servers(c) <= MAX_VAS_SERVER_COUNT
         /\ IsFiniteSet({e \in ServerLines(c) : c[e].ip # NoValue})
<1> DEFINE V == {e \in ServerLines(c) : c[e].ip # NoValue}
<1>1. Len(c) \in Nat
  BY ConfigAssumption
<1>2. IsFiniteSet(1 .. Len(c))
  BY <1>1, FS_Interval
<1>3. IsFiniteSet(ServerLines(c))
  BY <1>2, FS_Subset DEF ServerLines
<1>4. IsFiniteSet(V) /\ Cardinality(V) <= Cardinality(ServerLines(c))
  BY <1>3, FS_Subset
<1>5. Cardinality(V) \in Nat /\ Cardinality(ServerLines(c)) \in Nat
  BY <1>3, <1>4, FS_CardinalityType
<1>6. Cardinality(ServerLines(c)) <= MAX_VAS_SERVER_COUNT /\ MAX_VAS_SERVER_COUNT \in Nat
  BY ConfigAssumption, SlotAssumption
<1> QED
  BY <1>4, <1>5, <1>6 DEF Servers

\* The servers with a value that are done are some of those.
LEMMA ValuedSome ==
  ASSUME TypeOK
  PROVE  Cardinality(ValuedDone) <= Servers(config)
<1> DEFINE V == {e \in ServerLines(config) : config[e].ip # NoValue}
<1>1. ValuedDone \subseteq V
  BY DEF ValuedDone, ServersDone
<1>2. IsFiniteSet(V)
  BY ServersCount DEF TypeOK
<1> QED
  BY <1>1, <1>2, FS_Subset DEF Servers

\* If VAS_SERVER_1 is named once, no server line is done when it comes.
LEMMA ResetFirst ==
  ASSUME TypeOK, LoaderOK, Origins, Regular(loads), Entry("server"), Head(todo).no = 1
  PROVE  ServersDone = {}
<1> SUFFICES ASSUME NEW e \in ServersDone
             PROVE  FALSE
  OBVIOUS
<1>1. todo # <<>> /\ Head(todo).kind = "server"
  BY DEF Entry
<1>2. Done \in Nat /\ Done + 1 \in 1 .. Len(config) /\ Head(todo) = config[Done + 1]
      /\ Len(config) \in Nat /\ config \in Configs
  BY <1>1, HeadFacts
<1>3. Done + 1 \in ServerLines(config)
  BY <1>1, <1>2 DEF ServerLines
<1>4. e \in ServerLines(config) /\ e \in Nat /\ e <= Done
  BY <1>2 DEF ServersDone, ServerLines
<1>5. PICK d \in ServerLines(config) : d <= e /\ config[d].no = 1
  <2>1. config[e].no = 1 \/ \E d \in ServerLines(config) : d < e /\ config[d].no = 1
    BY <1>2, <1>4, ConfigAssumption
  <2>2. \A d \in ServerLines(config) : d \in Nat
    BY <1>2 DEF ServerLines
  <2> QED
    BY <1>4, <2>1, <2>2
<1>6. d \in Nat /\ d <= Done
  BY <1>2, <1>4, <1>5 DEF ServerLines
<1>7. \A f, g \in ServerLines(config) : config[f].no = 1 /\ config[g].no = 1 => f = g
  BY DEF Regular, Origins
<1> QED
  BY <1>2, <1>3, <1>5, <1>6, <1>7

\* Between reloads the counter is the number of servers.
LEMMA CountIdle ==
  ASSUME TypeOK, LoaderOK, Origins, CountExact, Regular(loads), pc = "idle"
  PROVE  nVasServerCount = Servers(config)
<1>1. config \in Configs /\ Len(config) \in Nat /\ nVasServerCount \in Nat
  BY ConfigAssumption DEF TypeOK
<1>2. Done = Len(config)
  BY <1>1 DEF LoaderOK, Done
<1>3. ServersDone = ServerLines(config)
  BY <1>1, <1>2 DEF ServersDone, ServerLines
<1>4. ValuedDone = {e \in ServerLines(config) : config[e].ip # NoValue}
  BY <1>3 DEF ValuedDone
<1>5. Cardinality(ValuedDone) = Servers(config)
  BY <1>4 DEF Servers
<1>6. CASE ServersDone # {}
  BY <1>5, <1>6 DEF CountExact, Met, Filling
<1>7. CASE ServersDone = {}
  <2>1. ValuedDone = {}
    BY <1>7 DEF ValuedDone
  <2>2. Servers(config) = 0
    BY <1>5, <2>1, FS_EmptySet
  <2> QED
    BY <1>1, <2>2 DEF CountExact
<1> QED
  BY <1>6, <1>7

\* Every step keeps the counter exact, if the configurations are regular.
LEMMA CountStep ==
  ASSUME TypeOK, LoaderOK, ExitInv, CountExact, [StartNext]_startVars
  PROVE  CountExact'
<1>1. Origins /\ CountBounded /\ nVasServerCount \in Nat /\ Servers(config) \in Nat
  BY ServersCount DEF ExitInv, TypeOK
<1>2. CASE load
  <2>1. loads' = loads /\ LoadParameters
    BY <1>2 DEF load
  <2>2. config' = config
    BY <2>1, LoadLeaves
  <2> SUFFICES ASSUME Regular(loads)
               PROVE  /\ nVasServerCount' <= Servers(config)
                      /\ Met' => nVasServerCount' = Cardinality(ValuedDone')
    BY <2>1, <2>2 DEF CountExact
  <2>3. nVasServerCount <= Servers(config) /\ (Met => nVasServerCount = Cardinality(ValuedDone))
    BY DEF CountExact
  <2>4. CASE server_reset
    <3>1. UNCHANGED <<config, todo>> /\ nVasServerCount' = 0 /\ Entry("server") /\ Head(todo).no = 1
      BY <2>4 DEF server_reset
    <3>2. ServersDone = {}
      BY <1>1, <3>1, ResetFirst
    <3>3. ValuedDone' = {}
      BY <3>1, <3>2 DEF ValuedDone, ServersDone, Done
    <3> QED
      BY <1>1, <3>1, <3>3, FS_EmptySet
  <2>5. CASE server_skip
    <3>1. nVasServerCount' = nVasServerCount /\ Head(todo).ip = NoValue
      BY <2>5 DEF server_skip, table, servers
    <3>2. pc' = "entries" /\ Done' = Done + 1 /\ todo # <<>>
      BY <2>5, LineEnds
    <3>3. PICK index \in 0 .. MAX_VAS_SERVER_COUNT : ServerLine(index)
      BY <2>5 DEF server_skip
    <3>4. \/ Head(todo).kind = "server" /\ Met
          \/ Head(todo).kind = "extra" /\ Entry("extra")
      BY <1>1, <3>3, ServerPlace
    <3>5. ValuedDone' = ValuedDone
          /\ (Head(todo).kind # "server" => ServersDone' = ServersDone)
      BY <2>2, <3>1, <3>2, ServersNext
    <3>6. Met' => Met
      BY <3>2, <3>4, <3>5 DEF Met, Filling, Entry
    <3> QED
      BY <2>3, <3>1, <3>5, <3>6
  <2>6. CASE server_store
    <3>1. PICK index \in 0 .. MAX_VAS_SERVER_COUNT :
            /\ ServerLine(index)
            /\ Head(todo).ip \notin {NoValue, NoColon}
            /\ \/ pc' = "exited" /\ UNCHANGED <<nVasServerCount, todo>>
               \/ nVasServerCount' = IF Entry("extra") THEN nVasServerCount
                                                       ELSE nVasServerCount + 1
      BY <2>6 DEF server_store
    <3>2. todo # <<>> /\ \/ Head(todo).kind = "server" /\ Met /\ ~Entry("extra")
                         \/ Head(todo).kind = "extra" /\ Entry("extra")
      BY <1>1, <3>1, ServerPlace
    <3>3. CASE pc' = "exited"
      <4>1. nVasServerCount' = nVasServerCount
        BY <2>6, <3>3, Zenon DEF server_store
      <4> QED
        BY <2>3, <3>3, <4>1 DEF Met, Filling
    <3>4. CASE pc' # "exited"
      <4>1. pc' = "entries" /\ Done' = Done + 1
        BY <2>6, <3>4, LineEnds
      <4>2. CASE Head(todo).kind = "server"
        <5>1. ValuedDone' = ValuedDone \cup {Done + 1} /\ Done + 1 \notin ServersDone
          BY <2>2, <3>1, <3>2, <4>1, <4>2, ServersNext
        <5>2. Done + 1 \notin ValuedDone
          BY <5>1 DEF ValuedDone
        <5>3. Cardinality(ValuedDone') = Cardinality(ValuedDone) + 1
          BY <5>1, <5>2, ServersFinite, FS_AddElement
        <5>4. nVasServerCount' = nVasServerCount + 1 /\ nVasServerCount = Cardinality(ValuedDone)
          BY <2>3, <3>1, <3>2, <3>4, <4>2
        <5>5. ValuedDone' \subseteq {e \in ServerLines(config) : config[e].ip # NoValue}
          BY <2>2 DEF ValuedDone, ServersDone
        <5>6. Cardinality(ValuedDone') <= Servers(config)
          BY <5>5, ServersCount, FS_Subset DEF Servers, TypeOK
        <5> QED
          BY <5>3, <5>4, <5>6
      <4>3. CASE Head(todo).kind = "extra"
        <5>1. ValuedDone' = ValuedDone /\ ServersDone' = ServersDone
          BY <2>2, <3>2, <4>1, <4>3, ServersNext
        <5>2. nVasServerCount' = nVasServerCount /\ pc = "entries"
          BY <3>1, <3>2, <3>4, <4>3 DEF Entry
        <5>3. Met' => Met
          BY <4>1, <5>1, <5>2 DEF Met, Filling
        <5> QED
          BY <2>3, <5>1, <5>2, <5>3
      <4> QED
        BY <3>2, <4>2, <4>3
    <3> QED
      BY <3>3, <3>4
  <2>7. CASE server_exit
    BY <2>3, <2>7 DEF server_exit, table, servers, Met, Filling
  <2>8. CASE ~server_reset /\ ~server_skip /\ ~server_store /\ ~server_exit
    BY <2>1, <2>3, <2>8, OtherLines DEF servers
  <2> QED
    BY <2>4, <2>5, <2>6, <2>7, <2>8
<1>3. ASSUME NEW c \in Configs, admin_reload(c)
      PROVE  CountExact'
  <2>1. config' = c /\ loads' = loads \cup {c} /\ pc' = "clearIp" /\ UNCHANGED nVasServerCount
    BY <1>3 DEF admin_reload, read_config, table, servers
  <2> SUFFICES ASSUME Regular(loads')
               PROVE  nVasServerCount <= Servers(c)
    BY <2>1 DEF CountExact, Met, Filling
  <2>2. Regular(loads)
    BY <2>1, RegularFewer
  <2>3. Servers(c) = Servers(config)
    BY <1>1, <2>1 DEF Regular, Origins
  <2> QED
    BY <2>2, <2>3 DEF CountExact
<1>4. CASE UNCHANGED <<table, loader, loads>>
  <2>1. Met' = Met /\ ValuedDone' = ValuedDone
    BY <1>4 DEF loader, Met, Filling, ValuedDone, ServersDone, Done
  <2> QED
    BY <1>4, <2>1 DEF CountExact, table, servers, loader
<1> QED
  BY <1>2, <1>3, <1>4, StartCases

\* Every step keeps track of the EXTRA server.
LEMMA ExtraStep ==
  ASSUME TypeOK, LoaderOK, ExitInv, ExtraKnown, [StartNext]_startVars
  PROVE  ExtraKnown'
<1>1. CASE load
  <2>1. loads' = loads /\ LoadParameters
    BY <1>1 DEF load
  <2>2. config' = config
    BY <2>1, LoadLeaves
  <2>3. usVasServerPortExtra => usVasServerPortExtra'
    BY <2>1, Zenon DEF LoadParameters, clear_ip, clear_range, server_reset, server_skip,
           server_store, server_exit, SetRange, setRange_end, setRange_slot, setRange_put,
           setRange_bad, loaded, table, servers
  <2>4. ExtraNamed(Done)' <=> ExtraNamed(Done')
    BY <2>2 DEF ExtraNamed
  <2>5. Filling' /\ ExtraNamed(Done') => usVasServerPortExtra'
    <3>1. CASE Filling /\ Done' = Done
      BY <2>3, <3>1 DEF ExtraKnown
    <3>2. CASE clear_ip
      BY <3>2 DEF clear_ip, Filling
    <3>3. CASE clear_range
      <4>1. UNCHANGED <<config, todo>> /\ pc = "clearRange"
        BY <3>3 DEF clear_range
      <4>2. Done' = 0
        BY <4>1, ConfigAssumption DEF Done, LoaderOK, TypeOK
      <4> QED
        BY <4>2 DEF ExtraNamed
    <3>4. CASE Filling /\ todo # <<>> /\ Done' = Done + 1
               /\ (Head(todo).kind = "extra" /\ Head(todo).ip # NoValue => usVasServerPortExtra')
      <4>1. Done \in Nat /\ Head(todo) = config[Done + 1]
        BY <3>4, HeadFacts
      <4>2. ExtraNamed(Done + 1) => ExtraNamed(Done)
                                    \/ (Head(todo).kind = "extra" /\ Head(todo).ip # NoValue)
        BY <4>1 DEF ExtraNamed
      <4> QED
        BY <2>3, <3>4, <4>2 DEF ExtraKnown
    <3>5. CASE server_reset \/ SetRange \/ setRange_slot \/ setRange_put \/ loaded
      <4>1. UNCHANGED <<config, todo>> /\ pc \in {"entries", "lines", "put"}
        BY <3>5 DEF server_reset, SetRange, setRange_slot, setRange_put, loaded, Entry
      <4>2. Done' = Done
        BY <4>1 DEF Done
      <4> QED
        BY <3>1, <4>1, <4>2 DEF Filling
    <3>6. CASE server_exit
      BY <3>6 DEF server_exit, Filling
    <3>7. CASE server_skip
      <4>1. todo # <<>> /\ Done' = Done + 1
        BY <3>7, LineEnds
      <4>2. Head(todo).ip = NoValue /\ pc \in {"entries", "count"}
        BY <3>7 DEF server_skip, ServerLine, Entry
      <4> QED
        BY <3>4, <4>1, <4>2 DEF Filling
    <3>8. CASE server_store /\ pc' = "exited"
      BY <3>8 DEF Filling
    <3>9. CASE server_store /\ pc' # "exited"
      <4>1. todo # <<>> /\ Done' = Done + 1
        BY <3>9, LineEnds
      <4>2. pc \in {"entries", "count"}
        BY <3>9 DEF server_store, ServerLine, Entry
      <4>3. Entry("extra") => usVasServerPortExtra'
        BY <3>9, Zenon DEF server_store
      <4>4. Head(todo).kind = "extra" => Entry("extra")
        BY <4>1, <4>2 DEF Entry, LoaderOK
      <4> QED
        BY <3>4, <4>1, <4>2, <4>3, <4>4 DEF Filling
    <3>10. CASE setRange_end \/ setRange_bad
      <4>1. todo # <<>> /\ Done' = Done + 1
        BY <3>10, LineEnds
      <4>2. pc \in {"lines", "put"}
        BY <3>10 DEF setRange_end, setRange_bad
      <4>3. Head(todo).kind = "range"
        BY <4>2 DEF LoaderOK, InFile
      <4> QED
        BY <3>4, <4>1, <4>2, <4>3 DEF Filling
    <3> QED
      BY <2>1, <3>2, <3>3, <3>5, <3>6, <3>7, <3>8, <3>9, <3>10 DEF LoadParameters
  <2>6. Regular(loads) /\ started' => usVasServerPortExtra'
    <3>1. CASE started
      BY <2>3, <3>1 DEF ExtraKnown
    <3>2. CASE loaded
      <4> SUFFICES ASSUME Regular(loads)
                   PROVE  usVasServerPortExtra'
        OBVIOUS
      <4>1. pc = "entries" /\ todo = <<>>
        BY <3>2 DEF loaded
      <4>2. Done = Len(config)
        BY <4>1, ConfigAssumption DEF Done, TypeOK
      <4>3. ExtraNamed(Done)
        BY <4>2 DEF ExtraNamed, Regular, ExitInv, Origins
      <4> QED
        BY <2>3, <4>1, <4>3 DEF ExtraKnown, Filling
    <3>3. CASE ~loaded
      <4>1. started' = started
        BY <2>1, <3>3, Zenon DEF LoadParameters, clear_ip, clear_range, server_reset, server_skip,
               server_store, server_exit, SetRange, setRange_end, setRange_slot, setRange_put,
               setRange_bad
      <4> QED
        BY <3>1, <4>1
    <3> QED
      BY <3>2, <3>3
  <2> QED
    BY <2>1, <2>4, <2>5, <2>6 DEF ExtraKnown
<1>2. ASSUME NEW c \in Configs, admin_reload(c)
      PROVE  ExtraKnown'
  <2>1. loads' = loads \cup {c} /\ pc' = "clearIp" /\ started' = started
    BY <1>2 DEF admin_reload, read_config
  <2>2. usVasServerPortExtra' = usVasServerPortExtra
    BY <1>2 DEF admin_reload, read_config, table, servers
  <2>3. Regular(loads') => Regular(loads)
    BY <2>1, RegularFewer
  <2> QED
    BY <2>1, <2>2, <2>3 DEF ExtraKnown, Filling
<1>3. CASE UNCHANGED <<table, loader, loads>>
  <2>1. Done' = Done /\ config' = config /\ pc' = pc /\ started' = started /\ loads' = loads
        /\ usVasServerPortExtra' = usVasServerPortExtra
    BY <1>3 DEF loader, Done, table, servers
  <2> QED
    BY <2>1 DEF ExtraKnown, ExtraNamed, Filling
<1> QED
  BY <1>1, <1>2, <1>3, StartCases

\* Every number that a lookup has read is that of a range file.
LEMMA NumberStep ==
  ASSUME TypeOK, LookupOK, Slotted(Source), Origins, NumberGiven, [StartNext]_startVars
  PROVE  NumberGiven'
<1>1. ASSUME UNCHANGED vasno, loads \subseteq loads'
      PROVE  NumberGiven'
  BY <1>1 DEF NumberGiven
<1>2. CASE main \/ vas_send \/ pfs_lost \/ pfs_loop \/ pfs_extra \/ UNCHANGED startVars
           \/ \E no \in 1 .. MAX_VAS_SERVER_COUNT : switch_back(no)
  <2>1. UNCHANGED <<vasno, loads>>
    BY <1>2 DEF main, main_loaded, main_return, main_exit, main_start, main_vas, main_new,
           main_queue, main_extra, main_extraQueue, vas_send, pfs_lost, pfs_loop, pfs_extra,
           switch_back, startVars, vars, lookup
  <2> QED
    BY <1>1, <2>1
<1>3. CASE load
  <2>1. UNCHANGED <<lookup, loads>>
    BY <1>3, LoadLeaves DEF load
  <2> QED
    BY <1>1, <2>1 DEF lookup
<1>4. CASE \E c \in Configs : admin_reload(c)
  BY <1>1, <1>4 DEF admin_reload, read_config, lookup
<1>5. CASE cti_send
  BY <1>5 DEF cti_send, getVasNo_forget, NumberGiven
<1>6. CASE cti_lookup
  <2>1. CASE \E a \in Address : GetVasNo(a)
    BY <2>1 DEF GetVasNo, NumberGiven
  <2>2. CASE getVasNo_scan
    BY <1>1, <1>6, <2>2 DEF cti_lookup, getVasNo_scan
  <2>3. CASE getVasNo_read
    <3> SUFFICES ASSUME vasno' # -1
                 PROVE  \E c \in loads : \E e \in 1 .. Len(c) :
                          c[e].kind = "range" /\ c[e].no = vasno'
      BY <1>6 DEF cti_lookup, NumberGiven
    <3>1. vasno' = g_vas_range[i][ask.suffix] /\ i \in Slots /\ ask.suffix \in Suffixes
      BY <2>3 DEF getVasNo_read, LookupOK, Address, TypeOK
    <3>2. PICK y \in PrefixesOf(Source) :
            vasno' \in Numbers(Source, [prefix |-> y, suffix |-> ask.suffix])
      BY <3>1 DEF Slotted
    <3>3. PICK q \in Positions(Source) : vasno' = Source[q[1]].no
      BY <3>2 DEF Numbers
    <3>4. q[1] \in 1 .. Len(Source) /\ Source[q[1]].kind = "range"
      BY PositionFacts
    <3>5. Source \in loads
      BY DEF Source, Origins
    <3> QED
      BY <3>3, <3>4, <3>5
  <2> QED
    BY <1>6, <2>1, <2>2, <2>3 DEF cti_lookup
<1> QED
  BY <1>2, <1>3, <1>4, <1>5, <1>6 DEF StartNext

\* Every step of main keeps count of the handlers that it has created.
LEMMA MainStep ==
  ASSUME TypeOK, LoaderOK, ExitInv, CountExact, ExtraKnown, MainTypes, Created,
         [StartNext]_startVars
  PROVE  MainTypes' /\ Created'
<1>1. config \in Configs /\ Origins /\ nVasServerCount \in Nat
      /\ Servers(config) \in Nat /\ Servers(config) <= MAX_VAS_SERVER_COUNT
      /\ MAX_VAS_SERVER_COUNT \in Nat
  BY ServersCount, SlotAssumption DEF ExitInv, TypeOK
<1>2. \A h \in Handlers : h \in Nat
  BY <1>1 DEF Handlers
<1>3. ASSUME UNCHANGED <<config, loads, started>>, UNCHANGED <<g_vasIfHandler, m, overlap>>,
             p' \in Nat,
             mpc' # mpc => mpc' \in {"admin", "exit", "mode", "pfs", "cti", "vas"} /\ started,
             g_vasExtra' = g_vasExtra
      PROVE  MainTypes' /\ Created'
  <2>1. MainTypes'
    BY <1>3, Zenon DEF MainTypes
  <2>2. Created'
    BY <1>3 DEF Created
  <2> QED
    BY <2>1, <2>2
<1>4. CASE main_loaded \/ main_return \/ main_exit \/ main_start
  <2>1. UNCHANGED <<config, loads, started, g_vasIfHandler, m, overlap, g_vasExtra, p>>
    BY <1>4 DEF main_loaded, main_return, main_exit, main_start, vars, loader
  <2>2. mpc' \in {"admin", "exit", "mode", "pfs", "cti", "vas"}
    BY <1>4 DEF main_loaded, main_return, main_exit, main_start, Go
  <2>3. started
    BY <1>4 DEF main_loaded, main_return, main_exit, main_start, Go, MainTypes
  <2>4. p' \in Nat
    BY <2>1 DEF MainTypes
  <2> QED
    BY <1>3, <2>1, <2>2, <2>3, <2>4
<1>5. CASE main_vas
  <2>1. UNCHANGED <<config, loads, started, g_vasIfHandler, m, g_vasExtra, p>> /\ mpc = "vas"
        /\ mpc' = IF m < nVasServerCount THEN "new" ELSE "extra"
    BY <1>5 DEF main_vas, vars, loader
  <2>2. MainTypes'
    BY <2>1 DEF MainTypes
  <2>3. ~overlap' => pc = "idle"
    BY <1>5, Zenon DEF main_vas
  <2>4. Created'
    <3> SUFFICES ASSUME Regular(loads)
                 PROVE  Created'
      BY <2>1 DEF Created
    <3>1. nVasServerCount <= Servers(config)
      BY DEF CountExact
    <3>2. m < nVasServerCount => m < Servers(config)
      BY <1>1, <3>1 DEF MainTypes
    <3>3. ~ (m < nVasServerCount) /\ ~overlap' => m >= Servers(config)
      BY <1>1, <2>3, CountIdle DEF MainTypes
    <3> QED
      BY <2>1, <3>2, <3>3 DEF Created
  <2> QED
    BY <2>2, <2>4
<1>6. CASE main_new
  <2>1. UNCHANGED <<config, loads, started, m, g_vasExtra, p, overlap>> /\ mpc = "new"
        /\ mpc' = "queue" /\ g_vasIfHandler' = [g_vasIfHandler EXCEPT ![m] = "bare"]
    BY <1>6 DEF main_new, vars, loader, Go
  <2>2. MainTypes'
    BY <2>1 DEF MainTypes
  <2>3. Created'
    BY <1>2, <2>1 DEF MainTypes, Created
  <2> QED
    BY <2>2, <2>3
<1>7. CASE main_queue
  <2>1. UNCHANGED <<config, loads, started, g_vasExtra, p, overlap>> /\ mpc = "queue"
        /\ mpc' = "vas" /\ g_vasIfHandler' = [g_vasIfHandler EXCEPT ![m] = "ready"] /\ m' = m + 1
    BY <1>7 DEF main_queue, vars, loader, Go
  <2>2. MainTypes'
    <3>1. g_vasIfHandler' \in [Handlers -> {"none", "bare", "ready"}]
      BY <2>1 DEF MainTypes
    <3>2. m' \in Nat /\ p' \in Nat
      BY <2>1 DEF MainTypes
    <3>3. started'
      BY <2>1 DEF MainTypes
    <3> QED
      BY <3>1, <3>2, <3>3 DEF MainTypes
  <2>3. Created'
    <3> SUFFICES ASSUME Regular(loads), NEW h \in Handlers, h < m + 1
                 PROVE  g_vasIfHandler'[h] = "ready"
      BY <2>1 DEF Created
    <3>1. h < m \/ h = m
      BY <1>2 DEF MainTypes
    <3> QED
      BY <2>1, <3>1 DEF Created, MainTypes
  <2> QED
    BY <2>2, <2>3
<1>8. CASE main_extra
  <2>1. UNCHANGED <<config, loads, started, g_vasIfHandler, m, p, overlap>> /\ mpc = "extra"
        /\ mpc' = "extraQueue"
    BY <1>8 DEF main_extra, vars, loader, Go
  <2> QED
    BY <2>1 DEF MainTypes, Created
<1>9. CASE main_extraQueue
  <2>1. UNCHANGED <<config, loads, started, g_vasIfHandler, m, p, overlap>> /\ mpc = "extraQueue"
        /\ mpc' = "run"
    BY <1>9 DEF main_extraQueue, vars, loader, Go
  <2>2. Regular(loads) => g_vasExtra' = "ready"
    <3>1. Regular(loads) => usVasServerPortExtra
      BY <2>1 DEF MainTypes, ExtraKnown
    <3> QED
      BY <1>9, <3>1, Zenon DEF main_extraQueue
  <2> QED
    BY <2>1, <2>2 DEF MainTypes, Created
<1>10. CASE load
  <2>1. UNCHANGED <<mpc, m, g_vasIfHandler, g_vasExtra, p, loads, overlap>> /\ LoadParameters
    BY <1>10 DEF load, mainVars
  <2>2. config' = config
    BY <2>1, LoadLeaves
  <2>3. started' = started \/ started' = TRUE
    BY <2>1, Zenon DEF LoadParameters, clear_ip, clear_range, server_reset, server_skip,
           server_store, server_exit, SetRange, setRange_end, setRange_slot, setRange_put,
           setRange_bad, loaded
  <2> QED
    BY <2>1, <2>2, <2>3 DEF MainTypes, Created
<1>11. ASSUME NEW c \in Configs, admin_reload(c)
       PROVE  MainTypes' /\ Created'
  <2>1. UNCHANGED <<mpc, m, g_vasIfHandler, g_vasExtra, p, started, overlap>>
        /\ loads' = loads \cup {c} /\ config' = c
    BY <1>11 DEF admin_reload, read_config, mainVars
  <2>2. MainTypes'
    BY <2>1 DEF MainTypes
  <2>3. Created'
    <3> SUFFICES ASSUME Regular(loads')
                 PROVE  Created'
      BY DEF Created
    <3>1. Regular(loads)
      BY <2>1, RegularFewer
    <3>2. Servers(config') = Servers(config)
      BY <1>1, <2>1 DEF Regular, Origins
    <3> QED
      BY <2>1, <3>1, <3>2 DEF Created
  <2> QED
    BY <2>2, <2>3
<1>12. CASE cti_lookup \/ cti_send \/ vas_send
            \/ (\E no \in 1 .. MAX_VAS_SERVER_COUNT : switch_back(no)) \/ UNCHANGED startVars
  <2>1. UNCHANGED <<mpc, m, g_vasIfHandler, g_vasExtra, p, loads, overlap, config, started>>
    BY <1>12 DEF cti_lookup, GetVasNo, getVasNo_scan, getVasNo_read, cti_send, getVasNo_forget,
           vas_send, switch_back, startVars, mainVars, vars, loader
  <2> QED
    BY <1>3, <2>1 DEF MainTypes
<1>13. CASE pfs_lost \/ pfs_loop \/ pfs_extra
  <2>1. UNCHANGED <<mpc, m, g_vasIfHandler, g_vasExtra, loads, overlap, config, started>>
        /\ p' \in {0, p, p + 1}
    BY <1>13 DEF pfs_lost, pfs_loop, pfs_extra, vars, loader
  <2>2. p' \in Nat
    BY <2>1 DEF MainTypes
  <2> QED
    BY <1>3, <2>1, <2>2
<1> QED
  BY <1>4, <1>5, <1>6, <1>7, <1>8, <1>9, <1>10, <1>11, <1>12, <1>13 DEF StartNext, main

\* When main has finished, the handlers that the configurations name are ready.
LEMMA HandlerThere ==
  ASSUME config \in Configs, MainTypes, Created, Regular(loads), ~overlap, mpc = "run",
         NEW n \in Nat, n < Servers(config)
  PROVE  g_vasIfHandler[n] = "ready"
<1>1. Servers(config) \in Nat /\ Servers(config) <= MAX_VAS_SERVER_COUNT
      /\ MAX_VAS_SERVER_COUNT \in Nat
  BY ServersCount, SlotAssumption
<1>2. n \in Handlers
  BY <1>1 DEF Handlers
<1>3. m \in Nat /\ m >= Servers(config)
  BY DEF MainTypes, Created
<1>4. n < m
  BY <1>1, <1>3
<1> QED
  BY <1>2, <1>4 DEF Created

\* Every use of a handler finds it, once main has finished.
LEMMA UseStep ==
  ASSUME TypeOK, ExitInv, CountExact, NumberGiven, MainTypes, Created, NoMissingHandler,
         [StartNext]_startVars
  PROVE  NoMissingHandler'
<1>1. config \in Configs /\ Origins /\ nVasServerCount \in Nat /\ Servers(config) \in Nat
      /\ \A c \in loads : c \in Configs
  BY ServersCount DEF ExitInv, Origins, TypeOK
<1>2. ASSUME fault' = None \/ fault'.at # "run"
      PROVE  NoMissingHandler'
  BY <1>2 DEF NoMissingHandler
<1>3. ASSUME UNCHANGED <<loads, overlap>>, fault' # None, fault'.at = "run",
             fault'.at = mpc,
             Regular(loads) /\ ~overlap /\ mpc = "run" =>
               fault'.by = "admin" /\ fault'.no > Servers(config)
      PROVE  NoMissingHandler'
  <2> SUFFICES ASSUME Regular(loads), ~overlap
               PROVE  fault'.by = "admin" /\ \A c \in loads : fault'.no > Servers(c)
    BY <1>3 DEF NoMissingHandler
  <2>1. \A c \in loads : Servers(c) = Servers(config)
    BY <1>1 DEF Regular, Origins
  <2> QED
    BY <1>3, <2>1
<1>4. ASSUME UNCHANGED <<loads, overlap>>, NEW by, NEW no, NEW state, NEW enough,
             Use(by, no, state, enough),
             Regular(loads) /\ ~overlap /\ mpc = "run" =>
               state \in enough \/ (by = "admin" /\ no > Servers(config))
      PROVE  NoMissingHandler'
  <2>1. fault' = None \/ (fault' = [by |-> by, no |-> no, at |-> mpc] /\ state \notin enough)
    BY <1>4 DEF Use
  <2>2. CASE fault' = [by |-> by, no |-> no, at |-> mpc] /\ state \notin enough
    <3>1. fault'.by = by /\ fault'.no = no /\ fault'.at = mpc
      BY <2>2
    <3> QED
      BY <1>2, <1>3, <1>4, <2>2, <3>1
  <2> QED
    BY <1>2, <2>1, <2>2
<1>5. CASE UNCHANGED startVars
  BY <1>5 DEF startVars, NoMissingHandler
<1> SUFFICES ASSUME StartNext, fault = None
             PROVE  NoMissingHandler'
  BY <1>5 DEF StartNext
<1>6. CASE main
  <2>1. CASE main_exit
    <3>1. mpc \in {"admin", "mode"}
          /\ fault' = IF nVasServerCount > 0 THEN [by |-> "main", no |-> 0, at |-> mpc] ELSE None
      BY <2>1 DEF main_exit
    <3>2. fault' = None \/ fault'.at = mpc
      BY <3>1
    <3> QED
      BY <1>2, <3>1, <3>2
  <2>2. CASE ~main_exit
    <3>1. fault' = fault
      BY <1>6, <2>2 DEF main, main_loaded, main_return, main_start, main_vas, main_new, main_queue,
             main_extra, main_extraQueue
    <3> QED
      BY <1>2, <3>1
  <2> QED
    BY <2>1, <2>2
<1>7. CASE load \/ (\E c \in Configs : admin_reload(c)) \/ cti_lookup \/ pfs_lost
  BY <1>2, <1>7 DEF load, admin_reload, cti_lookup, pfs_lost
<1>8. CASE cti_send
  <2>1. UNCHANGED <<loads, overlap>>
    BY <1>8 DEF cti_send
  <2>2. CASE vasno = -1 /\ UNCHANGED fault
    BY <1>2, <2>2
  <2>3. CASE vasno # -1 /\ Use("cti", vasno, g_vasIfHandler[vasno - 1], {"ready"})
    <3>1. ASSUME Regular(loads), ~overlap, mpc = "run"
          PROVE  g_vasIfHandler[vasno - 1] = "ready"
      <4>1. PICK c \in loads : \E e \in 1 .. Len(c) : c[e].kind = "range" /\ c[e].no = vasno
        BY <2>3 DEF NumberGiven
      <4>2. PICK e \in 1 .. Len(c) : c[e].kind = "range" /\ c[e].no = vasno
        BY <4>1
      <4>3. vasno <= Servers(c) /\ Servers(c) = Servers(config)
        BY <1>1, <3>1, <4>2 DEF Regular, Origins
      <4>4. vasno \in Nat \ {0}
        BY <1>1, <4>2, LineFacts
      <4>5. vasno - 1 \in Nat /\ vasno - 1 < Servers(config)
        BY <1>1, <4>3, <4>4
      <4> QED
        BY <1>1, <3>1, <4>5, HandlerThere
    <3> QED
      BY <1>4, <2>1, <2>3, <3>1
  <2> QED
    BY <1>8, <2>2, <2>3 DEF cti_send
<1>9. ASSUME UNCHANGED <<loads, overlap>>, NEW by, Use(by, 0, g_vasExtra, {"ready"})
      PROVE  NoMissingHandler'
  <2>1. Regular(loads) /\ mpc = "run" => g_vasExtra = "ready"
    BY DEF Created
  <2> QED
    BY <1>4, <1>9, <2>1
<1>10. CASE vas_send \/ pfs_extra
  BY <1>9, <1>10 DEF vas_send, pfs_extra
<1>11. CASE pfs_loop
  <2>1. UNCHANGED <<loads, overlap>>
    BY <1>11 DEF pfs_loop
  <2>2. CASE p < nVasServerCount /\ Use("pfs", p + 1, g_vasIfHandler[p], {"ready"})
    <3>1. ASSUME Regular(loads), ~overlap, mpc = "run"
          PROVE  g_vasIfHandler[p] = "ready"
      <4>1. p \in Nat /\ p < Servers(config)
        BY <1>1, <2>2, <3>1 DEF MainTypes, CountExact
      <4> QED
        BY <1>1, <3>1, <4>1, HandlerThere
    <3> QED
      BY <1>4, <2>1, <2>2, <3>1
  <2>3. CASE UNCHANGED fault
    BY <1>2, <2>3
  <2> QED
    BY <1>11, <2>2, <2>3 DEF pfs_loop
<1>12. ASSUME NEW no \in 1 .. MAX_VAS_SERVER_COUNT, switch_back(no)
       PROVE  NoMissingHandler'
  <2>1. UNCHANGED <<loads, overlap>> /\ Use("admin", no, g_vasIfHandler[no - 1], {"bare", "ready"})
    BY <1>12 DEF switch_back
  <2>2. ASSUME Regular(loads), ~overlap, mpc = "run", ~ (no > Servers(config))
        PROVE  g_vasIfHandler[no - 1] = "ready"
    <3>1. no - 1 \in Nat /\ no - 1 < Servers(config)
      BY <1>1, <2>2, SlotAssumption
    <3> QED
      BY <1>1, <2>2, <3>1, HandlerThere
  <2>3. Regular(loads) /\ ~overlap /\ mpc = "run" =>
          \/ g_vasIfHandler[no - 1] \in {"bare", "ready"}
          \/ "admin" = "admin" /\ no > Servers(config)
    BY <2>2
  <2> QED
    BY <1>4, <2>1, <2>3
<1> QED
  BY <1>6, <1>7, <1>8, <1>10, <1>11, <1>12 DEF StartNext

\* At the start.
LEMMA HandlerInit == StartInit => HandlerInv
<1> SUFFICES ASSUME StartInit
             PROVE  HandlerInv
  OBVIOUS
<1>1. CountExact
  <2>1. nVasServerCount = 0 /\ pc = "clearIp" /\ config \in Configs
    BY DEF StartInit, Init
  <2>2. Servers(config) \in Nat
    BY <2>1, ServersCount
  <2> QED
    BY <2>1, <2>2 DEF CountExact, Met, Filling
<1>2. ExtraKnown
  BY Zenon DEF StartInit, Init, ExtraKnown, Filling
<1>3. NumberGiven
  BY DEF StartInit, Init, NumberGiven
<1>4. MainTypes /\ Created
  <2>1. \A h \in Handlers : h >= 0
    BY SlotAssumption DEF Handlers
  <2> QED
    BY <2>1 DEF StartInit, MainTypes, Created, Handlers
<1>5. NoMissingHandler
  BY DEF StartInit, NoMissingHandler
<1> QED
  BY <1>1, <1>2, <1>3, <1>4, <1>5 DEF HandlerInv

\* Once main has finished, no thread reaches for a handler that is not there, for
\* every set of configurations and every number of reloads, under the conditions
\* that NoMissingHandler names.
THEOREM HandlersAlwaysThere == StartSpec => []NoMissingHandler
<1>1. (CfgInv /\ ExitInv) /\ [StartNext]_startVars => ExitInv'
  BY ExitStep DEF CfgInv
<1>2. (CfgInv /\ ExitInv /\ HandlerInv) /\ [StartNext]_startVars => HandlerInv'
  BY CountStep, ExtraStep, NumberStep, MainStep, UseStep DEF CfgInv, ExitInv, HandlerInv
<1>3. HandlerInv => NoMissingHandler
  BY DEF HandlerInv
<1> QED
  BY <1>1, <1>2, <1>3, ExitInit, HandlerInit, CfgInvariance, StartRefines, PTL DEF StartSpec
=============================================================================
