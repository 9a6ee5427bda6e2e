---------------------------- MODULE RelayProofs ----------------------------
(***************************************************************************)
(* Theorems about Relay, for any number of peers, rooms, senders and       *)
(* messages and every size of the replay buffer.                           *)
(***************************************************************************)
EXTENDS Relay, SequenceTheorems, WellFoundedInduction, TLAPS

-----------------------------------------------------------------------------
(* The inductive invariants.                                               *)

Entries == [seq : 1 .. MaxSeq, expired : BOOLEAN]
RelayRecords ==
    [pc : {"idle", "send"}, to : Keys \cup {None}, seq : 0 .. MaxSeq,
     todo : SUBSET Peers, keep : BOOLEAN]
RelayStates == {x \in RelayRecords : x.pc = "send" => x.to \in Keys}
SweepRecords == [pc : {"sleep", "evict", "drop"}, todo : SUBSET Keys, key : Keys \cup {None}]
SweepStates == {x \in SweepRecords : x.pc = "drop" => x.key \in Keys}

\* The types, in full; who has a channel is connected.
ConnShape ==
    /\ sender \in [Peers -> BOOLEAN]
    /\ conn \in [Peers -> {"off", "on", "ws", "http", "replay"}]
    /\ \A p \in Peers : sender[p] <=> conn[p] # "off"
    /\ wiping \subseteq Peers
    /\ chan \in [Peers -> Seq(0 .. MaxSeq)]
    /\ last \in [Peers -> 0 .. MaxSeq]
BufShape ==
    /\ seqCounter \in 0 .. MaxSeq
    /\ relay \in [Senders -> RelayStates]
    /\ sweep \in SweepStates
    /\ buf \in [Keys -> Seq(Entries) \cup {None}]
    /\ stored \in [Keys -> SUBSET (1 .. MaxSeq)]
    /\ gone \in [Keys -> SUBSET (1 .. MaxSeq)]
    /\ disorder \subseteq Keys
RelayShape == ConnShape /\ BufShape

\* Every message that is on its way has a number of its own, which is not
\* stored yet.
Flying(s) == relay[s].pc = "send"
FlightInv ==
    /\ \A s \in Senders : Flying(s) => relay[s].seq \in 1 .. seqCounter
    /\ \A s \in Senders, k \in Keys : Flying(s) => relay[s].seq \notin stored[k]
    /\ \A s, t \in Senders : Flying(s) /\ Flying(t) /\ relay[s].seq = relay[t].seq => s = t
    /\ \A k \in Keys : stored[k] \subseteq 1 .. seqCounter

\* What a buffer holds; a buffer that does not exist holds nothing.
Content(k) == IF buf[k] = None THEN << >> ELSE buf[k]

\* Of what was stored, a buffer holds everything that is not gone, once, and
\* not more than it may.
Holds(entries, all, left) ==
    /\ Len(entries) <= Max({MaxSize, 1})
    /\ SeqsOf(entries) = all \ left
    /\ left \subseteq all
    /\ \A i, j \in DOMAIN entries : i # j => entries[i].seq # entries[j].seq
BufferInv == \A k \in Keys : Holds(Content(k), stored[k], gone[k])

\* Where messages are stored in order, they leave in order.
InOrder(entries, left) ==
    /\ \A i, j \in DOMAIN entries : i < j => entries[i].seq < entries[j].seq
    /\ \A i \in DOMAIN entries : \A n \in left : n < entries[i].seq
OrderInv == \A k \in Keys \ disorder : InOrder(Content(k), gone[k])
-----------------------------------------------------------------------------
(* The operators.                                                          *)

\* A set of positive numbers up to a bound has a greatest one.
LEMMA Greatest ==
    ASSUME NEW n \in Nat, NEW S, S \subseteq 1 .. n
    PROVE  /\ Highest(S) \in 0 .. n
           /\ S # {} => Highest(S) \in S
           /\ \A j \in S : j <= Highest(S)
<1> DEFINE R == {p \in Nat \X Nat : p[1] < p[2]}
           T == {n - i : i \in S}
<1>0. CASE S = {}
  BY <1>0 DEF Highest
<1>1. CASE S # {}
  <2>1. \A x, y \in Nat : <<x, y>> \in R <=> x < y
    OBVIOUS
  <2>2. T \subseteq Nat /\ T # {}
    <3>1. \A i \in S : n - i \in Nat
      OBVIOUS
    <3>2. T # {}
      BY <1>1, Zenon
    <3> QED
      BY <3>1, <3>2
  <2>3. PICK x \in T : \A y \in T : ~(<<y, x>> \in R)
    <3>1. IsWellFoundedOn(R, Nat)
      BY NatLessThanWellFounded DEF OpToRel
    <3> HIDE DEF R, T
    <3> QED
      BY <2>2, <3>1, WFMin
  <2> HIDE DEF R
  <2>4. PICK m \in S : x = n - m
    OBVIOUS
  <2>5. ASSUME NEW j \in S PROVE m >= j
    <3>1. n - j \in T /\ n - j \in Nat /\ x \in Nat
      BY <2>2
    <3>2. ~(n - j < x)
      BY <2>1, <2>3, <3>1
    <3> QED
      BY <2>4, <3>2
  <2>6. Max(S) \in S /\ \A j \in S : Max(S) >= j
    BY <2>5 DEF Max
  <2>7. Highest(S) = Max(S)
    BY <1>1 DEF Highest
  <2>8. PICK g \in S : g = Max(S) /\ \A j \in S : g >= j
    BY <2>6, Zenon
  <2> HIDE DEF T
  <2>9. g \in 0 .. n /\ g \in Nat
    OBVIOUS
  <2>10. ASSUME NEW j \in S PROVE j <= g
    <3>1. j \in Nat /\ g >= j
      BY <2>8
    <3> QED
      BY <2>9, <3>1
  <2> QED
    BY <2>7, <2>8, <2>9, <2>10, Zenon
<1> QED
  BY <1>0, <1>1

\* The bound of a buffer is a positive number.
LEMMA Bound == Max({MaxSize, 1}) \in Nat /\ Max({MaxSize, 1}) >= 1 /\ Max({MaxSize, 1}) \in {MaxSize, 1}
               /\ Max({MaxSize, 1}) >= MaxSize
<1>0. MaxSize \in Nat
  BY RelayAssumption
<1>1. \E m \in {MaxSize, 1} : \A y \in {MaxSize, 1} : m >= y
  BY <1>0
<1>2. Max({MaxSize, 1}) \in {MaxSize, 1} /\ \A y \in {MaxSize, 1} : Max({MaxSize, 1}) >= y
  BY <1>1 DEF Max
<1> QED
  BY <1>0, <1>2

\* What is left of a buffer when it lost entries at the front.
IsTail(rest, entries) ==
    /\ rest \in Seq(Entries)
    /\ \E m \in 0 .. Len(entries) :
          /\ Len(rest) = Len(entries) - m
          /\ \A i \in 1 .. Len(rest) : rest[i] = entries[i + m]

\* The entries from some position on.
LEMMA FromPosition ==
    ASSUME NEW entries \in Seq(Entries), NEW m \in 1 .. Len(entries) + 2,
           m = Len(entries) + 2 => entries = << >>
    PROVE  /\ IsTail(SubSeq(entries, m, Len(entries)), entries)
           /\ m <= Len(entries) + 1 => Len(SubSeq(entries, m, Len(entries))) = Len(entries) - m + 1
<1> DEFINE n == Len(entries)
           rest == SubSeq(entries, m, n)
<1>0. n \in Nat /\ \A i \in 1 .. n : entries[i] \in Entries
  OBVIOUS
<1>1. \A i \in m .. n : entries[i] \in Entries
  BY <1>0
<1>2. /\ rest \in Seq(Entries)
      /\ Len(rest) = IF m <= n THEN n - m + 1 ELSE 0
      /\ \A i \in 1 .. n - m + 1 : rest[i] = entries[m + i - 1]
  BY <1>0, <1>1, SubSeqProperties
<1> HIDE DEF rest
<1>3. CASE m <= n + 1
  <2>1. Len(rest) = n - m + 1
    BY <1>0, <1>2, <1>3
  <2>2. PICK d \in 0 .. n : d = m - 1
    BY <1>0, <1>3
  <2>3. Len(rest) = n - d /\ \A i \in 1 .. Len(rest) : rest[i] = entries[i + d]
    BY <1>0, <1>2, <2>1, <2>2
  <2> QED
    BY <1>2, <2>1, <2>3 DEF IsTail, rest
<1>4. CASE m = n + 2
  <2>1. n = 0
    BY <1>4
  <2>2. Len(rest) = n - 0 /\ \A i \in 1 .. Len(rest) : rest[i] = entries[i + 0]
    BY <1>2, <1>4, <2>1
  <2>3. 0 \in 0 .. n /\ ~(m <= n + 1)
    BY <1>4, <2>1
  <2>4. IsTail(rest, entries)
    BY <1>2, <2>2, <2>3 DEF IsTail
  <2> QED
    BY <2>3, <2>4 DEF rest
<1> QED
  BY <1>0, <1>3, <1>4

\* Popping and making room drop entries at the front; after that there is room.
LEMMA PopIsTail == ASSUME NEW entries \in Seq(Entries) PROVE IsTail(PopExpired(entries), entries)
<1> DEFINE S == {i \in DOMAIN entries : \A j \in 1 .. i : entries[j].expired}
<1>1. Len(entries) \in Nat /\ S \subseteq 1 .. Len(entries)
  OBVIOUS
<1> HIDE DEF S
<1>2. PICK n \in 0 .. Len(entries) : n = Highest(S)
  BY <1>1, Greatest
<1>3. n + 1 \in 1 .. Len(entries) + 2 /\ n + 1 # Len(entries) + 2
  BY <1>1
<1>4. IsTail(SubSeq(entries, n + 1, Len(entries)), entries)
  BY <1>3, FromPosition
<1> QED
  BY <1>2, <1>4 DEF PopExpired, S

\* One entry at most makes room for another.
LEMMA RoomIsTail ==
    ASSUME NEW entries \in Seq(Entries)
    PROVE  /\ IsTail(MakeRoom(entries), entries)
           /\ Len(entries) <= Max({MaxSize, 1}) => Len(MakeRoom(entries)) + 1 <= Max({MaxSize, 1})
<1>0. Len(entries) \in Nat /\ MaxSize \in Nat /\ (Len(entries) = 0 => entries = << >>)
  BY RelayAssumption
<1>b. PICK b : b = Max({MaxSize, 1})
  OBVIOUS
<1>c. b \in Nat /\ b >= 1 /\ b \in {MaxSize, 1} /\ b >= MaxSize
  BY <1>b, Bound
<1>1. CASE Len(entries) >= MaxSize
  <2>1. MakeRoom(entries) = SubSeq(entries, 2, Len(entries))
    BY <1>1 DEF MakeRoom
  <2>2. CASE Len(entries) = 0
    <3>1. SubSeq(entries, 2, Len(entries)) = << >>
      BY <1>0, <2>2, SubSeqEmpty
    <3>0. 2 \in 1 .. Len(entries) + 2 /\ entries = << >>
      BY <1>0, <2>2
    <3>2. IsTail(SubSeq(entries, 2, Len(entries)), entries)
      BY <3>0, FromPosition
    <3> QED
      BY <1>b, <1>c, <2>1, <3>1, <3>2
  <2>3. CASE Len(entries) # 0
    <3>1. 2 \in 1 .. Len(entries) + 2 /\ 2 # Len(entries) + 2 /\ 2 <= Len(entries) + 1
      BY <1>0, <2>3
    <3>2. IsTail(SubSeq(entries, 2, Len(entries)), entries)
          /\ Len(SubSeq(entries, 2, Len(entries))) = Len(entries) - 2 + 1
      BY <3>1, FromPosition
    <3> QED
      BY <1>0, <1>b, <1>c, <2>1, <3>2
  <2> QED
    BY <2>2, <2>3
<1>2. CASE ~(Len(entries) >= MaxSize)
  <2>1. MakeRoom(entries) = SubSeq(entries, 1, Len(entries))
    BY <1>2 DEF MakeRoom
  <2>2. 1 \in 1 .. Len(entries) + 2 /\ 1 # Len(entries) + 2 /\ 1 <= Len(entries) + 1
    BY <1>0
  <2>3. IsTail(SubSeq(entries, 1, Len(entries)), entries)
        /\ Len(SubSeq(entries, 1, Len(entries))) = Len(entries) - 1 + 1
    BY <2>2, FromPosition
  <2> QED
    BY <1>0, <1>2, <1>b, <1>c, <2>1, <2>3
<1> QED
  BY <1>1, <1>2

\* Nothing is a tail of everything, and tails are taken one after the other.
LEMMA Tails ==
    ASSUME NEW entries \in Seq(Entries)
    PROVE  /\ IsTail(<< >>, entries)
           /\ \A rest : IsTail(rest, entries) => Len(rest) \in Nat /\ Len(rest) <= Len(entries)
           /\ \A rest, less : IsTail(rest, entries) /\ IsTail(less, rest) => IsTail(less, entries)
<1>0. Len(entries) \in Nat
  OBVIOUS
<1>1. IsTail(<< >>, entries)
  <2>1. Len(entries) \in 0 .. Len(entries) /\ Len(<< >>) = Len(entries) - Len(entries)
    BY <1>0
  <2>2. << >> \in Seq(Entries) /\ \A i \in 1 .. Len(<< >>) : << >>[i] = entries[i + Len(entries)]
    OBVIOUS
  <2> QED
    BY <2>1, <2>2 DEF IsTail
<1>2. ASSUME NEW rest, IsTail(rest, entries) PROVE Len(rest) \in Nat /\ Len(rest) <= Len(entries)
  BY <1>0, <1>2 DEF IsTail
<1>3. ASSUME NEW rest, NEW less, IsTail(rest, entries), IsTail(less, rest) PROVE IsTail(less, entries)
  <2>1. PICK m \in 0 .. Len(entries) : Len(rest) = Len(entries) - m /\ \A i \in 1 .. Len(rest) : rest[i] = entries[i + m]
    BY <1>3 DEF IsTail
  <2>2. PICK n \in 0 .. Len(rest) : Len(less) = Len(rest) - n /\ \A i \in 1 .. Len(less) : less[i] = rest[i + n]
    BY <1>3 DEF IsTail
  <2>3. less \in Seq(Entries)
    BY <1>3 DEF IsTail
  <2>4. PICK d \in 0 .. Len(entries) : d = n + m
    BY <1>0, <2>1, <2>2
  <2>5. Len(less) = Len(entries) - d
    BY <1>0, <2>1, <2>2, <2>4
  <2>6. ASSUME NEW i \in 1 .. Len(less) PROVE less[i] = entries[i + d]
    <3>1. i + n \in 1 .. Len(rest) /\ less[i] = rest[i + n]
      BY <1>0, <2>1, <2>2
    <3>2. rest[i + n] = entries[(i + n) + m]
      BY <2>1, <3>1
    <3>3. (i + n) + m = i + d
      BY <1>0, <2>1, <2>2, <2>4
    <3> QED
      BY <3>1, <3>2, <3>3
  <2> QED
    BY <2>3, <2>5, <2>6 DEF IsTail
<1> QED
  BY <1>1, <1>2, <1>3

\* What a buffer loses at the front is gone, and what it keeps is in order.
LEMMA CutKeeps ==
    ASSUME NEW entries \in Seq(Entries), NEW rest, IsTail(rest, entries), NEW all, NEW left,
           Holds(entries, all, left)
    PROVE  LET lost == SeqsOf(entries) \ SeqsOf(rest) IN
           /\ Holds(rest, all, left \cup lost)
           /\ InOrder(entries, left) => InOrder(rest, left \cup lost)
<1> DEFINE lost == SeqsOf(entries) \ SeqsOf(rest)
<1>1. PICK m \in 0 .. Len(entries) : Len(rest) = Len(entries) - m /\ \A i \in 1 .. Len(rest) : rest[i] = entries[i + m]
  BY DEF IsTail
<1>2. /\ rest \in Seq(Entries) /\ Len(entries) \in Nat /\ Len(rest) \in Nat
      /\ DOMAIN entries = 1 .. Len(entries) /\ DOMAIN rest = 1 .. Len(rest)
  BY DEF IsTail
<1>n. \A i \in DOMAIN entries : entries[i].seq \in Nat
  <2>1. \A i \in DOMAIN entries : entries[i] \in Entries
    OBVIOUS
  <2> QED
    BY <2>1, RelayAssumption DEF Entries
<1>3. \A i \in DOMAIN rest : i + m \in DOMAIN entries /\ rest[i] = entries[i + m]
  BY <1>1, <1>2
<1>4. ASSUME NEW i \in DOMAIN entries PROVE i <= m \/ \E j \in DOMAIN rest : entries[i] = rest[j] /\ i = j + m
  <2>1. CASE i > m
    <3>1. PICK j \in DOMAIN rest : i = j + m
      <4>1. i - m \in DOMAIN rest /\ i = (i - m) + m
        BY <1>1, <1>2, <2>1
      <4> QED
        BY <4>1
    <3> QED
      BY <1>3, <3>1
  <2> QED
    BY <1>2, <2>1
<1>5. SeqsOf(rest) \subseteq SeqsOf(entries)
  BY <1>3 DEF SeqsOf
<1>6. Len(rest) <= Max({MaxSize, 1})
  BY <1>1, <1>2, Bound DEF Holds
<1>7. \A i, j \in DOMAIN rest : i # j => rest[i].seq # rest[j].seq
  <2>1. ASSUME NEW i \in DOMAIN rest, NEW j \in DOMAIN rest, i # j PROVE rest[i].seq # rest[j].seq
    <3>1. i + m # j + m /\ i + m \in DOMAIN entries /\ j + m \in DOMAIN entries
      BY <1>1, <1>2, <1>3, <2>1
    <3>2. entries[i + m].seq # entries[j + m].seq
      BY <3>1 DEF Holds
    <3> QED
      BY <1>3, <3>2
  <2> QED
    BY <2>1
<1>8. Holds(rest, all, left \cup lost)
  BY <1>5, <1>6, <1>7 DEF Holds
<1>9. ASSUME InOrder(entries, left) PROVE InOrder(rest, left \cup lost)
  <2>1. \A i, j \in DOMAIN rest : i < j => rest[i].seq < rest[j].seq
    BY <1>1, <1>2, <1>3, <1>9 DEF InOrder
  <2>2. ASSUME NEW i \in DOMAIN rest, NEW n \in left PROVE n < rest[i].seq
    BY <1>3, <1>9 DEF InOrder
  <2>3. ASSUME NEW i \in DOMAIN rest, NEW n \in lost PROVE n < rest[i].seq
    <3>1. PICK j \in DOMAIN entries : n = entries[j].seq
      BY DEF SeqsOf
    <3>2. j <= m
      BY <1>4, <3>1 DEF SeqsOf
    <3>3. i + m \in DOMAIN entries /\ j < i + m
      BY <1>1, <1>2, <1>3, <3>2
    <3> QED
      BY <1>3, <1>9, <3>1, <3>3 DEF InOrder
  <2> QED
    BY <2>1, <2>2, <2>3 DEF InOrder
<1> QED
  BY <1>8, <1>9

\* A new message finds room.
LEMMA PushKeeps ==
    ASSUME NEW rest \in Seq(Entries), NEW all, NEW left, Holds(rest, all, left),
           Len(rest) + 1 <= Max({MaxSize, 1}), NEW n \in 1 .. MaxSeq, n \notin all
    PROVE  /\ Append(rest, Entry(n)) \in Seq(Entries)
           /\ Holds(Append(rest, Entry(n)), all \cup {n}, left)
           /\ InOrder(rest, left) /\ (\A a \in all : a < n) => InOrder(Append(rest, Entry(n)), left)
<1>e. PICK e \in Entries : e = Entry(n) /\ e.seq = n
  <2>1. [seq |-> n, expired |-> FALSE] \in Entries /\ [seq |-> n, expired |-> FALSE].seq = n
    BY DEF Entries
  <2> QED
    BY <2>1 DEF Entry
<1> DEFINE more == Append(rest, e)
<1>1. /\ more \in Seq(Entries) /\ Len(more) = Len(rest) + 1 /\ Len(rest) \in Nat
      /\ DOMAIN rest = 1 .. Len(rest) /\ DOMAIN more = 1 .. Len(rest) + 1
      /\ more[Len(rest) + 1] = e
      /\ \A i \in DOMAIN rest : more[i] = rest[i]
  OBVIOUS
<1> HIDE DEF more
<1>2. \A i \in DOMAIN more : i \in DOMAIN rest \/ i = Len(rest) + 1
  BY <1>1
<1>3. SeqsOf(more) = SeqsOf(rest) \cup {n}
  BY <1>e, <1>1, <1>2 DEF SeqsOf
<1>4. \A i \in DOMAIN rest : rest[i].seq \in all
  BY DEF Holds, SeqsOf
<1>5. ASSUME NEW i \in DOMAIN more, NEW j \in DOMAIN more, i # j PROVE more[i].seq # more[j].seq
  <2>1. CASE i \in DOMAIN rest /\ j \in DOMAIN rest
    BY <1>1, <1>5, <2>1 DEF Holds
  <2>2. CASE i = Len(rest) + 1 /\ j \in DOMAIN rest
    BY <1>e, <1>1, <1>4, <2>2
  <2>3. CASE j = Len(rest) + 1 /\ i \in DOMAIN rest
    BY <1>e, <1>1, <1>4, <2>3
  <2> QED
    BY <1>2, <1>5, <2>1, <2>2, <2>3
<1>6. SeqsOf(more) = (all \cup {n}) \ left /\ left \subseteq all \cup {n}
  BY <1>3 DEF Holds
<1>7. Holds(more, all \cup {n}, left)
  BY <1>1, <1>5, <1>6 DEF Holds
<1>8. ASSUME InOrder(rest, left), \A a \in all : a < n PROVE InOrder(more, left)
  <2>1. ASSUME NEW i \in DOMAIN more, NEW j \in DOMAIN more, i < j PROVE more[i].seq < more[j].seq
    <3>1. i \in DOMAIN rest
      BY <1>1, <2>1
    <3>2. CASE j \in DOMAIN rest
      BY <1>1, <1>8, <2>1, <3>1, <3>2 DEF InOrder
    <3>3. CASE j = Len(rest) + 1
      BY <1>e, <1>1, <1>4, <1>8, <3>1, <3>3
    <3> QED
      BY <1>2, <3>2, <3>3
  <2>2. ASSUME NEW i \in DOMAIN more, NEW a \in left PROVE a < more[i].seq
    <3>1. CASE i \in DOMAIN rest
      BY <1>1, <1>8, <3>1 DEF InOrder
    <3>2. CASE i = Len(rest) + 1
      <4>1. a \in all
        BY DEF Holds
      <4> QED
        BY <1>e, <1>1, <1>8, <3>2, <4>1
    <3> QED
      BY <1>2, <3>1, <3>2
  <2> QED
    BY <2>1, <2>2 DEF InOrder
<1> QED
  BY <1>e, <1>1, <1>7, <1>8 DEF more

\* A message that expires keeps its place and its number.
LEMMA ExpiryKeeps ==
    ASSUME NEW entries \in Seq(Entries), NEW later \in Seq(Entries), Len(later) = Len(entries),
           \A i \in DOMAIN entries : later[i].seq = entries[i].seq, NEW all, NEW left
    PROVE  /\ Holds(entries, all, left) => Holds(later, all, left)
           /\ InOrder(entries, left) => InOrder(later, left)
<1>1. DOMAIN later = DOMAIN entries
  OBVIOUS
<1>2. SeqsOf(later) = SeqsOf(entries)
  BY <1>1 DEF SeqsOf
<1> QED
  BY <1>1, <1>2 DEF Holds, InOrder
\* What a replay takes of the entry at a position, after those before it.
Wanted(entries, n, i) == entries[i].seq > n /\ ~entries[i].expired
Taken(entries, n, i, before) ==
    IF Wanted(entries, n, i) THEN Append(before, entries[i].seq) ELSE before

\* What is taken of the first m entries, for each m up to a bound.
IsReplay(f, entries, n, bound) ==
    f = [i \in 0 .. bound |-> IF i = 0 THEN << >> ELSE Taken(entries, n, i, f[i - 1])]

\* A replay, entry by entry.
LEMMA ReplayEntries ==
    ASSUME NEW entries, NEW n, NEW bound \in Nat, NEW f, IsReplay(f, entries, n, bound)
    PROVE  /\ DOMAIN f = 0 .. bound
           /\ f[0] = << >>
           /\ \A i \in 1 .. bound : f[i] = Taken(entries, n, i, f[i - 1])
BY DEF IsReplay

\* Every buffer can be replayed.
LEMMA ReplayExists ==
    ASSUME NEW entries, NEW n, NEW bound \in Nat
    PROVE  \E f : IsReplay(f, entries, n, bound)
<1> DEFINE R == {p \in Nat \X Nat : p[1] < p[2]}
           T == {m \in Nat : ~\E f : IsReplay(f, entries, n, m)}
<1>1. \A x, y \in Nat : <<x, y>> \in R <=> x < y
  OBVIOUS
<1>2. IsWellFoundedOn(R, Nat)
  BY NatLessThanWellFounded DEF OpToRel
<1> HIDE DEF R
<1>3. SUFFICES ASSUME T # {} PROVE FALSE
  OBVIOUS
<1>4. PICK m \in T : \A y \in T : ~(<<y, m>> \in R)
  <2>1. T \subseteq Nat
    OBVIOUS
  <2> HIDE DEF T
  <2> QED
    BY <1>2, <1>3, <2>1, WFMin
<1>5. m \in Nat /\ ~\E f : IsReplay(f, entries, n, m)
  OBVIOUS
<1>6. CASE m = 0
  <2> DEFINE f == [i \in 0 .. 0 |-> << >>]
  <2>1. f = [i \in 0 .. 0 |-> IF i = 0 THEN << >> ELSE Taken(entries, n, i, f[i - 1])]
    OBVIOUS
  <2> QED
    BY <1>5, <1>6, <2>1 DEF IsReplay
<1>7. CASE m # 0
  <2>1. PICK d \in Nat : m = d + 1
    <3>1. m - 1 \in Nat /\ m = (m - 1) + 1
      BY <1>5, <1>7
    <3> QED
      BY <3>1
  <2>2. d \notin T
    <3>1. <<d, m>> \in R
      BY <1>1, <1>5, <2>1
    <3> HIDE DEF T
    <3> QED
      BY <1>4, <3>1
  <2>3. PICK f : IsReplay(f, entries, n, d)
    BY <2>2
  <2>4. /\ DOMAIN f = 0 .. d
        /\ f[0] = << >>
        /\ \A i \in 1 .. d : f[i] = Taken(entries, n, i, f[i - 1])
    BY <2>3, ReplayEntries
  <2> DEFINE g == [i \in 0 .. m |-> IF i = m THEN Taken(entries, n, m, f[d]) ELSE f[i]]
  <2>5. DOMAIN g = 0 .. m /\ g[m] = Taken(entries, n, m, f[d]) /\ \A i \in 0 .. d : g[i] = f[i]
    BY <1>5, <2>1
  <2>6. g = [i \in 0 .. m |-> g[i]]
    OBVIOUS
  <2> HIDE DEF g
  <2>7. ASSUME NEW i \in 0 .. m
        PROVE  g[i] = IF i = 0 THEN << >> ELSE Taken(entries, n, i, g[i - 1])
    <3>1. CASE i = 0
      <4>1. 0 \in 0 .. d
        BY <2>1
      <4> QED
        BY <2>4, <2>5, <3>1, <4>1
    <3>2. CASE i = m
      <4>1. i # 0 /\ i - 1 = d /\ d \in 0 .. d
        BY <1>7, <2>1, <3>2
      <4>2. g[d] = f[d]
        BY <2>5, <4>1
      <4> QED
        BY <2>5, <3>2, <4>1, <4>2
    <3>3. CASE i # 0 /\ i # m
      <4>1. i \in 1 .. d /\ i \in 0 .. d /\ i - 1 \in 0 .. d
        BY <1>5, <2>1, <3>3
      <4> QED
        BY <2>4, <2>5, <3>3, <4>1
    <3> QED
      BY <3>1, <3>2, <3>3
  <2>8. IsReplay(g, entries, n, m)
    BY <2>6, <2>7 DEF IsReplay
  <2> QED
    BY <1>5, <2>8
<1> QED
  BY <1>6, <1>7

\* A replay holds every entry that is wanted.
LEMMA ReplayTakes ==
    ASSUME NEW entries \in Seq(Entries), NEW n \in Nat
    PROVE  /\ ReplaySince(entries, n) \in Seq(0 .. MaxSeq)
           /\ \A i \in DOMAIN entries :
                 Wanted(entries, n, i) => entries[i].seq \in Range(ReplaySince(entries, n))
<1>1. PICK f : IsReplay(f, entries, n, Len(entries)) /\ ReplaySince(entries, n) = f[Len(entries)]
  <2>1. \E f : IsReplay(f, entries, n, Len(entries))
    <3>1. Len(entries) \in Nat
      OBVIOUS
    <3> QED
      BY <3>1, ReplayExists
  <2>2. PICK f : f = CHOOSE g : IsReplay(g, entries, n, Len(entries))
    OBVIOUS
  <2>3. ReplaySince(entries, n) = f[Len(entries)]
    BY <2>2 DEF ReplaySince, IsReplay, Taken, Wanted
  <2> QED
    BY <2>1, <2>2, <2>3
<1>2. /\ Len(entries) \in Nat /\ DOMAIN entries = 1 .. Len(entries)
      /\ f[0] = << >>
      /\ \A i \in 1 .. Len(entries) : f[i] = Taken(entries, n, i, f[i - 1])
  <2>1. Len(entries) \in Nat /\ DOMAIN entries = 1 .. Len(entries)
    OBVIOUS
  <2>2. PICK bound \in Nat : bound = Len(entries)
    BY <2>1, Zenon
  <2>3. IsReplay(f, entries, n, bound)
    BY <1>1, <2>2, Zenon
  <2>4. /\ DOMAIN f = 0 .. bound
        /\ f[0] = << >>
        /\ \A i \in 1 .. bound : f[i] = Taken(entries, n, i, f[i - 1])
    BY <2>3, ReplayEntries
  <2> QED
    BY <2>1, <2>2, <2>4, Zenon
<1>3. \A i \in 1 .. Len(entries) : entries[i].seq \in 0 .. MaxSeq
  <2>1. \A i \in 1 .. Len(entries) : entries[i] \in Entries
    OBVIOUS
  <2> QED
    BY <2>1, RelayAssumption DEF Entries
<1> DEFINE Good(m) == /\ f[m] \in Seq(0 .. MaxSeq)
                      /\ \A i \in 1 .. m : Wanted(entries, n, i) => entries[i].seq \in Range(f[m])
           R == {p \in Nat \X Nat : p[1] < p[2]}
           T == {m \in 0 .. Len(entries) : ~Good(m)}
<1>4. \A x, y \in Nat : <<x, y>> \in R <=> x < y
  OBVIOUS
<1>5. IsWellFoundedOn(R, Nat)
  BY NatLessThanWellFounded DEF OpToRel
<1> HIDE DEF R
<1>6. Good(0)
  BY <1>2
<1>7. ASSUME NEW m \in 1 .. Len(entries), Good(m - 1) PROVE Good(m)
  <2>1. PICK before \in Seq(0 .. MaxSeq) : before = f[m - 1]
    BY <1>7
  <2>2. PICK e \in 0 .. MaxSeq : e = entries[m].seq
    BY <1>3
  <2>3. f[m] = IF Wanted(entries, n, m) THEN Append(before, e) ELSE before
    BY <1>2, <2>1, <2>2 DEF Taken
  <2>4. /\ Append(before, e) \in Seq(0 .. MaxSeq)
        /\ e \in Range(Append(before, e))
        /\ Range(before) \subseteq Range(Append(before, e))
    <3>0. Append(before, e) \in Seq(0 .. MaxSeq)
      BY AppendProperties
    <3>1. PICK more \in Seq(0 .. MaxSeq) : more = Append(before, e)
      BY <3>0, Zenon
    <3>2. /\ DOMAIN more = 1 .. Len(before) + 1 /\ DOMAIN before = 1 .. Len(before) /\ Len(before) \in Nat
          /\ more[Len(before) + 1] = e /\ \A i \in 1 .. Len(before) : more[i] = before[i]
      BY <3>1
    <3>3. Len(before) + 1 \in DOMAIN more /\ \A i \in DOMAIN before : i \in DOMAIN more
      BY <3>2
    <3> QED
      BY <3>1, <3>2, <3>3 DEF Range
  <2>5. f[m] \in Seq(0 .. MaxSeq) /\ Range(before) \subseteq Range(f[m])
    BY <2>3, <2>4
  <2>6. ASSUME NEW i \in 1 .. m, Wanted(entries, n, i) PROVE entries[i].seq \in Range(f[m])
    <3>1. CASE i = m
      BY <2>2, <2>3, <2>4, <2>6, <3>1
    <3>2. CASE i # m
      <4>1. i \in 1 .. m - 1
        BY <1>2, <3>2
      <4>2. entries[i].seq \in Range(before)
        BY <1>7, <2>1, <2>6, <4>1
      <4> QED
        BY <2>5, <4>2
    <3> QED
      BY <3>1, <3>2
  <2> QED
    BY <2>5, <2>6
<1> HIDE DEF Good
<1>8. T = {}
  <2>1. SUFFICES ASSUME T # {} PROVE FALSE
    OBVIOUS
  <2>2. T \subseteq Nat
    OBVIOUS
  <2>3. PICK m \in T : \A y \in T : ~(<<y, m>> \in R)
    <3> HIDE DEF T
    <3> QED
      BY <1>5, <2>1, <2>2, WFMin
  <2>4. m \in 1 .. Len(entries) /\ ~Good(m)
    BY <1>2, <1>6
  <2>5. PICK d \in 0 .. Len(entries) : d = m - 1
    BY <1>2, <2>4
  <2>6. <<d, m>> \in R
    BY <1>2, <1>4, <2>4, <2>5
  <2>7. d \notin T
    <3> HIDE DEF T
    <3> QED
      BY <2>3, <2>6
  <2>8. Good(d)
    BY <2>7
  <2> QED
    BY <1>7, <2>4, <2>5, <2>8
<1>9. Good(Len(entries))
  BY <1>2, <1>8
<1> QED
  BY <1>1, <1>2, <1>9 DEF Good
-----------------------------------------------------------------------------
(* The types.                                                              *)

\* What a buffer holds is a sequence of entries, and a buffer is not None.
LEMMA ContentShape ==
    ASSUME BufShape, NEW k \in Keys
    PROVE  /\ Content(k) \in Seq(Entries)
           /\ buf[k] # None => buf[k] = Content(k)
           /\ SeqsOf(Content(k)) = Buffered(k)
           /\ SeqsOf(Content(k)) \subseteq 1 .. MaxSeq
<1>1. /\ Content(k) \in Seq(Entries)
      /\ buf[k] # None => buf[k] = Content(k)
  BY DEF BufShape, Content
<1>2. SeqsOf(Content(k)) = Buffered(k)
  <2>1. SeqsOf(<< >>) = {}
    BY DEF SeqsOf
  <2> QED
    BY <2>1 DEF Content, Buffered
<1>3. ASSUME NEW entries \in Seq(Entries) PROVE SeqsOf(entries) \subseteq 1 .. MaxSeq
  <2>1. \A i \in DOMAIN entries : entries[i] \in Entries
    OBVIOUS
  <2> QED
    BY <2>1 DEF SeqsOf, Entries
<1> QED
  BY <1>1, <1>2, <1>3

\* The relay of a message keeps the types.
LEMMA RelayShapes ==
    ASSUME RelayShape, NEW s \in Senders, NEW to \in Keys, NEW keep \in BOOLEAN, Relay(s, to, keep)
    PROVE  RelayShape'
<1> DEFINE x == [pc |-> "send", to |-> to, seq |-> seqCounter + 1, keep |-> keep,
                 todo |-> IF to \in Rooms THEN Peers \ {s} ELSE {to}]
<1>1. seqCounter + 1 \in 0 .. MaxSeq
  BY RelayAssumption DEF RelayShape, BufShape, Relay
<1>2. (IF to \in Rooms THEN Peers \ {s} ELSE {to}) \in SUBSET Peers
  BY DEF Keys
<1>3. x \in RelayRecords /\ x.to \in Keys
  BY <1>1, <1>2 DEF RelayRecords
<1>4. x \in RelayStates
  BY <1>3 DEF RelayStates
<1>5. relay' = [relay EXCEPT ![s] = x] /\ seqCounter' = seqCounter + 1
  BY DEF Relay
<1> HIDE DEF x
<1>6. BufShape'
  BY <1>1, <1>4, <1>5 DEF RelayShape, BufShape, Relay, history
<1>7. ConnShape'
  BY DEF RelayShape, ConnShape, Relay, connVars
<1> QED
  BY <1>6, <1>7 DEF RelayShape

\* Sending to one receiver keeps the types.
LEMMA SendToShapes ==
    ASSUME RelayShape, NEW s \in Senders, NEW p \in Peers, SendTo(s, p)
    PROVE  RelayShape'
<1>1. PICK y \in RelayStates : y = relay[s]
  BY DEF RelayShape, BufShape
<1> DEFINE x == [y EXCEPT !.todo = @ \ {p}]
<1>2. /\ y.pc \in {"idle", "send"} /\ y.to \in Keys \cup {None} /\ y.seq \in 0 .. MaxSeq
      /\ y.todo \subseteq Peers /\ y.keep \in BOOLEAN
      /\ y = [pc |-> y.pc, to |-> y.to, seq |-> y.seq, todo |-> y.todo, keep |-> y.keep]
      /\ (y.pc = "send" => y.to \in Keys)
  BY DEF RelayStates, RelayRecords
<1>3. x = [pc |-> y.pc, to |-> y.to, seq |-> y.seq, todo |-> y.todo \ {p}, keep |-> y.keep]
  BY <1>2
<1>4. x \in RelayStates
  BY <1>2, <1>3 DEF RelayStates, RelayRecords
<1>5. relay' = [relay EXCEPT ![s] = x]
  BY <1>1 DEF SendTo
<1> HIDE DEF x
<1>6. BufShape'
  BY <1>4, <1>5 DEF RelayShape, BufShape, SendTo, history
<1>7. chan' \in [Peers -> Seq(0 .. MaxSeq)]
  <2>1. PICK z \in 0 .. MaxSeq : z = relay[s].seq
    BY <1>1, <1>2
  <2>2. chan[p] \in Seq(0 .. MaxSeq) /\ Append(chan[p], z) \in Seq(0 .. MaxSeq)
    BY <2>1, AppendProperties DEF RelayShape, ConnShape
  <2>3. PICK c \in Seq(0 .. MaxSeq) : c = IF sender[p] THEN Append(chan[p], z) ELSE chan[p]
    BY <2>2, Zenon
  <2>4. chan' = [chan EXCEPT ![p] = c]
    BY <2>1, <2>3 DEF SendTo
  <2> QED
    BY <2>4 DEF RelayShape, ConnShape
<1>8. ConnShape'
  BY <1>7 DEF RelayShape, ConnShape, SendTo, connVars
<1> QED
  BY <1>6, <1>8 DEF RelayShape

\* Storing a message keeps the types.
LEMMA PushShapes ==
    ASSUME RelayShape, FlightInv, NEW s \in Senders, Push(s)
    PROVE  RelayShape'
<1> DEFINE k == relay[s].to
           n == relay[s].seq
           room == MakeRoom(PopExpired(Content(k)))
<1>1. relay' \in [Senders -> RelayStates]
  <2>1. NoRelay \in RelayRecords /\ NoRelay.pc = "idle"
    BY RelayAssumption DEF NoRelay, RelayRecords
  <2>2. NoRelay \in RelayStates
    BY <2>1 DEF RelayStates
  <2> QED
    BY <2>2 DEF RelayShape, BufShape, Push
<1>2. CASE ~relay[s].keep
  BY <1>1, <1>2 DEF RelayShape, BufShape, ConnShape, Push, connVars
<1>3. CASE relay[s].keep
  <2>1. k \in Keys /\ n \in 1 .. MaxSeq
    <3>1. relay[s] \in RelayStates /\ relay[s].pc = "send"
      BY DEF RelayShape, BufShape, Push
    <3>2. relay[s].seq \in 1 .. seqCounter /\ seqCounter \in 0 .. MaxSeq
      BY <3>1 DEF FlightInv, Flying, RelayShape, BufShape
    <3> QED
      BY <3>1, <3>2, RelayAssumption DEF RelayStates
  <2>2. Content(k) \in Seq(Entries)
    BY <2>1, ContentShape DEF RelayShape
  <2>3. PopExpired(Content(k)) \in Seq(Entries)
    BY <2>2, PopIsTail DEF IsTail
  <2>4. room \in Seq(Entries)
    BY <2>3, RoomIsTail DEF IsTail
  <2>5. PICK more \in Seq(Entries) : more = Append(room, Entry(n))
    <3>1. Entry(n) \in Entries
      BY <2>1 DEF Entry, Entries
    <3>2. Append(room, Entry(n)) \in Seq(Entries)
      BY <2>4, <3>1, AppendProperties
    <3> QED
      BY <3>2, Zenon
  <2>6. /\ buf' = [buf EXCEPT ![k] = more]
        /\ stored' = [stored EXCEPT ![k] = @ \cup {n}]
        /\ gone' = [gone EXCEPT ![k] = @ \cup (Buffered(k) \ SeqsOf(room))]
        /\ disorder' \subseteq disorder \cup {k}
    BY <1>3, <2>5 DEF Push, Content
  <2>7. Buffered(k) \subseteq 1 .. MaxSeq
    BY <2>1, ContentShape DEF RelayShape
  <2> HIDE DEF k, n, room
  <2>8. BufShape'
    BY <1>1, <2>1, <2>6, <2>7 DEF RelayShape, BufShape, Push
  <2>9. ConnShape'
    BY DEF RelayShape, ConnShape, Push, connVars
  <2> QED
    BY <2>8, <2>9 DEF RelayShape
<1> QED
  BY <1>2, <1>3
\* The expiry of a message changes neither the order nor the numbers.
LEMMA ExpiresTo ==
    ASSUME RelayShape, NEW k \in Keys, MessageExpires(k)
    PROVE  \E later \in Seq(Entries) :
              /\ buf[k] # None
              /\ buf' = [buf EXCEPT ![k] = later]
              /\ Len(later) = Len(buf[k])
              /\ \A j \in DOMAIN buf[k] : later[j].seq = buf[k][j].seq
<1>1. PICK i \in DOMAIN buf[k] : buf' = [buf EXCEPT ![k][i].expired = TRUE]
  BY DEF MessageExpires
<1>2. PICK entries \in Seq(Entries) : entries = buf[k] /\ buf[k] # None
  BY DEF MessageExpires, RelayShape, BufShape
<1>3. /\ Len(entries) \in Nat /\ DOMAIN entries = 1 .. Len(entries) /\ i \in 1 .. Len(entries)
      /\ entries \in [1 .. Len(entries) -> Entries]
  BY <1>2
<1>4. PICK e \in Entries : e = entries[i]
  BY <1>3
<1> DEFINE late == [e EXCEPT !.expired = TRUE]
           later == [entries EXCEPT ![i] = late]
<1>5. late \in Entries /\ late.seq = e.seq
  BY DEF Entries
<1>6. buf' = [buf EXCEPT ![k] = later]
  BY <1>1, <1>2, <1>4
<1> HIDE DEF late
<1>7. /\ later \in [1 .. Len(entries) -> Entries]
      /\ \A j \in 1 .. Len(entries) : later[j].seq = entries[j].seq
  BY <1>3, <1>4, <1>5
<1> HIDE DEF later
<1>8. later \in Seq(Entries) /\ Len(later) = Len(entries)
  BY <1>3, <1>7, SeqDef
<1> QED
  BY <1>2, <1>3, <1>6, <1>7, <1>8

\* The sweep and the expiry of a message keep the types.
LEMMA SweepShapes ==
    ASSUME RelayShape, Sweep \/ \E k \in Keys : MessageExpires(k)
    PROVE  RelayShape'
<1>0. PICK y \in SweepStates : y = sweep
  BY DEF RelayShape, BufShape
<1>y. /\ y.pc \in {"sleep", "evict", "drop"} /\ y.todo \subseteq Keys /\ y.key \in Keys \cup {None}
      /\ y = [pc |-> y.pc, todo |-> y.todo, key |-> y.key]
      /\ (y.pc = "drop" => y.key \in Keys)
  BY DEF SweepStates, SweepRecords
<1>m. ASSUME NEW a \in {"sleep", "evict", "drop"}, NEW t \in SUBSET Keys, NEW b \in Keys \cup {None},
             a = "drop" => b \in Keys
      PROVE  [pc |-> a, todo |-> t, key |-> b] \in SweepStates
  BY <1>m DEF SweepStates, SweepRecords
<1>1. CASE CollectKeys
  <2> DEFINE t == {k \in Keys : buf[k] # None}
             x == [y EXCEPT !.pc = "evict"]
  <2>0. x = [pc |-> "evict", todo |-> y.todo, key |-> y.key]
    BY <1>y
  <2> HIDE DEF x
  <2>1. [x EXCEPT !.todo = t] = [pc |-> "evict", todo |-> t, key |-> y.key]
    BY <2>0
  <2>x. sweep' = [x EXCEPT !.todo = t]
    BY <1>0, <1>1 DEF CollectKeys, x
  <2>2. sweep' \in SweepStates
    BY <1>y, <1>m, <2>1, <2>x
  <2> QED
    BY <1>1, <2>2 DEF CollectKeys, relayVars, connVars, history, RelayShape, BufShape, ConnShape
<1>2. ASSUME NEW k \in Keys, EvictKey(k) PROVE RelayShape'
  <2> DEFINE rest == IF buf[k] = None THEN None ELSE PopExpired(buf[k])
  <2>1. rest \in Seq(Entries) \cup {None}
    <3>1. CASE buf[k] # None
      <4>1. buf[k] \in Seq(Entries)
        BY <3>1 DEF RelayShape, BufShape
      <4> QED
        BY <3>1, <4>1, PopIsTail DEF IsTail
    <3> QED
      BY <3>1
  <2>2. Buffered(k) \subseteq 1 .. MaxSeq
    BY ContentShape DEF RelayShape
  <2>3. /\ buf' = [buf EXCEPT ![k] = rest]
        /\ gone' = [gone EXCEPT ![k] = @ \cup (Buffered(k) \ IF rest = None THEN {} ELSE SeqsOf(rest))]
        /\ sweep' = [pc |-> IF rest = << >> THEN "drop" ELSE "evict",
                     todo |-> sweep.todo \ {k}, key |-> IF rest = << >> THEN k ELSE None]
    BY <1>2 DEF EvictKey
  <2> HIDE DEF rest
  <2>4. sweep' \in SweepStates
    BY <1>0, <1>y, <1>m, <2>3
  <2>5. gone' \in [Keys -> SUBSET (1 .. MaxSeq)] /\ buf' \in [Keys -> Seq(Entries) \cup {None}]
    BY <2>1, <2>2, <2>3 DEF RelayShape, BufShape
  <2> QED
    BY <1>2, <2>4, <2>5 DEF EvictKey, relayVars, connVars, RelayShape, BufShape, ConnShape
<1>3. CASE DropBuffer
  <2> DEFINE x == [y EXCEPT !.pc = "evict"]
  <2>0. x = [pc |-> "evict", todo |-> y.todo, key |-> y.key]
    BY <1>y
  <2> HIDE DEF x
  <2>1. [x EXCEPT !.key = None] = [pc |-> "evict", todo |-> y.todo, key |-> None]
    BY <2>0
  <2>x. sweep' = [x EXCEPT !.key = None]
    BY <1>0, <1>3 DEF DropBuffer, x
  <2>2. sweep' \in SweepStates
    BY <1>y, <1>m, <2>1, <2>x
  <2>3. PICK k \in Keys : k = sweep.key
    BY <1>0, <1>y, <1>3 DEF DropBuffer
  <2>4. Buffered(k) \subseteq 1 .. MaxSeq
    BY ContentShape DEF RelayShape
  <2>5. buf' = [buf EXCEPT ![k] = None] /\ gone' = [gone EXCEPT ![k] = @ \cup Buffered(k)]
    BY <1>3, <2>3 DEF DropBuffer
  <2>6. gone' \in [Keys -> SUBSET (1 .. MaxSeq)] /\ buf' \in [Keys -> Seq(Entries) \cup {None}]
    BY <2>4, <2>5 DEF RelayShape, BufShape
  <2> QED
    BY <1>3, <2>2, <2>6 DEF DropBuffer, relayVars, connVars, RelayShape, BufShape, ConnShape
<1>4. CASE SweepDone
  <2>1. sweep' \in SweepStates
    BY <1>4, <1>m DEF SweepDone, Asleep
  <2> QED
    BY <1>4, <2>1 DEF SweepDone, relayVars, connVars, history, RelayShape, BufShape, ConnShape
<1>5. ASSUME NEW k \in Keys, MessageExpires(k) PROVE RelayShape'
  <2>5. PICK later \in Seq(Entries) : buf' = [buf EXCEPT ![k] = later]
    BY <1>5, ExpiresTo
  <2>7. buf' \in [Keys -> Seq(Entries) \cup {None}]
    BY <2>5 DEF RelayShape, BufShape
  <2> QED
    BY <1>5, <2>7 DEF MessageExpires, relayVars, connVars, history, RelayShape, BufShape, ConnShape
<1> QED
  BY <1>1, <1>2, <1>3, <1>4, <1>5 DEF Sweep
\* The steps of a connection.
PeerStep(p) ==
    \/ \E transport \in {"ws", "http"} : Attach(p, transport)
    \/ Poll(p)
    \/ CheckGap(p)
    \/ Replay(p)
    \/ Read(p)
    \/ Close(p)
    \/ Wipe(p)
    \/ Evict(p)

\* A connection that comes, goes or is read keeps the types.
LEMMA PeerShapes ==
    ASSUME RelayShape, NEW p \in Peers, PeerStep(p)
    PROVE  RelayShape'
<1>0. /\ chan[p] \in Seq(0 .. MaxSeq) /\ << >> \in Seq(0 .. MaxSeq)
      /\ last[p] \in 0 .. MaxSeq /\ MaxSeq \in Nat /\ p \in Keys
  BY RelayAssumption DEF RelayShape, ConnShape, Keys
<1>1. ASSUME NEW transport \in {"ws", "http"}, Attach(p, transport) PROVE RelayShape'
  <2>1. ConnShape'
    BY <1>0, <1>1 DEF RelayShape, ConnShape, Attach
  <2> QED
    BY <1>1, <2>1 DEF RelayShape, BufShape, Attach, relayVars, history
<1>2. CASE Poll(p)
  <2>1. ConnShape'
    BY <1>0, <1>2 DEF RelayShape, ConnShape, Poll
  <2> QED
    BY <1>2, <2>1 DEF RelayShape, BufShape, Poll, relayVars, history
<1>3. CASE CheckGap(p)
  <2>1. Append(chan[p], ReplayGap) \in Seq(0 .. MaxSeq)
    <3>1. ReplayGap \in 0 .. MaxSeq
      BY <1>0 DEF ReplayGap
    <3> QED
      BY <1>0, <3>1, AppendProperties
  <2>2. PICK c \in Seq(0 .. MaxSeq) : chan' = [chan EXCEPT ![p] = c]
    <3>1. PICK c \in Seq(0 .. MaxSeq) :
             c = IF last[p] < OldestSeq(p) THEN Append(chan[p], ReplayGap) ELSE chan[p]
      BY <1>0, <2>1, Zenon
    <3>2. chan' = [chan EXCEPT ![p] = c]
      BY <1>3, <3>1 DEF CheckGap
    <3> QED
      BY <3>2
  <2>3. chan' \in [Peers -> Seq(0 .. MaxSeq)]
    BY <2>2 DEF RelayShape, ConnShape
  <2>4. ConnShape'
    BY <1>3, <2>3 DEF RelayShape, ConnShape, CheckGap
  <2> QED
    BY <1>3, <2>4 DEF RelayShape, BufShape, CheckGap, relayVars, history
<1>4. CASE Replay(p)
  <2> DEFINE again == IF buf[p] = None THEN << >> ELSE ReplaySince(buf[p], last[p])
  <2>1. again \in Seq(0 .. MaxSeq)
    <3>1. CASE buf[p] # None
      <4>1. buf[p] \in Seq(Entries) /\ last[p] \in Nat
        BY <1>0, <3>1 DEF RelayShape, BufShape
      <4> QED
        BY <3>1, <4>1, ReplayTakes
    <3> QED
      BY <1>0, <3>1
  <2>2. chan[p] \o again \in Seq(0 .. MaxSeq)
    <3> HIDE DEF again
    <3> QED
      BY <1>0, <2>1, ConcatProperties
  <2>3. PICK c \in Seq(0 .. MaxSeq) : chan' = [chan EXCEPT ![p] = c]
    <3>1. chan' = [chan EXCEPT ![p] = IF sender[p] THEN @ \o again ELSE @]
      BY <1>4 DEF Replay
    <3> HIDE DEF again
    <3>2. PICK c \in Seq(0 .. MaxSeq) : c = IF sender[p] THEN chan[p] \o again ELSE chan[p]
      BY <1>0, <2>2, Zenon
    <3>3. chan' = [chan EXCEPT ![p] = c]
      BY <3>1, <3>2
    <3> QED
      BY <3>3
  <2>4. chan' \in [Peers -> Seq(0 .. MaxSeq)]
    BY <2>3 DEF RelayShape, ConnShape
  <2>5. ConnShape'
    BY <1>4, <2>4 DEF RelayShape, ConnShape, Replay
  <2> QED
    BY <1>4, <2>5 DEF RelayShape, BufShape, Replay, relayVars, history
<1>5. CASE Read(p)
  <2>1. Head(chan[p]) \in 0 .. MaxSeq /\ Tail(chan[p]) \in Seq(0 .. MaxSeq)
    BY <1>0, <1>5, HeadTailProperties DEF Read
  <2>2. PICK a \in 0 .. MaxSeq : a = last[p]
    BY <1>0
  <2>3. PICK b \in 0 .. MaxSeq : b = Head(chan[p])
    BY <2>1
  <2>4. Max({a, b}) \in {a, b}
    <3>1. \E m \in {a, b} : \A y \in {a, b} : m >= y
      BY <1>0
    <3> QED
      BY <3>1 DEF Max
  <2>5. last' = [last EXCEPT ![p] = Max({a, b})]
    BY <1>5, <2>2, <2>3 DEF Read
  <2>6. last' \in [Peers -> 0 .. MaxSeq]
    BY <2>4, <2>5 DEF RelayShape, ConnShape
  <2>7. chan' \in [Peers -> Seq(0 .. MaxSeq)]
    BY <1>5, <2>1 DEF Read, RelayShape, ConnShape
  <2>8. ConnShape'
    BY <1>5, <2>6, <2>7 DEF RelayShape, ConnShape, Read
  <2> QED
    BY <1>5, <2>8 DEF RelayShape, BufShape, Read, relayVars
<1>6. CASE Close(p)
  <2>1. ConnShape'
    BY <1>0, <1>6 DEF RelayShape, ConnShape, Close
  <2> QED
    BY <1>6, <2>1 DEF RelayShape, BufShape, Close, relayVars, history
<1>7. CASE Wipe(p)
  <2>1. Buffered(p) \subseteq 1 .. MaxSeq
    BY <1>0, ContentShape DEF RelayShape
  <2>2. gone' \in [Keys -> SUBSET (1 .. MaxSeq)] /\ buf' \in [Keys -> Seq(Entries) \cup {None}]
    BY <1>0, <1>7, <2>1 DEF RelayShape, BufShape, Wipe
  <2>3. ConnShape'
    BY <1>7 DEF RelayShape, ConnShape, Wipe
  <2> QED
    BY <1>7, <2>2, <2>3 DEF RelayShape, BufShape, Wipe, relayVars
<1>8. CASE Evict(p)
  <2>1. ConnShape'
    BY <1>0, <1>8 DEF RelayShape, ConnShape, Evict
  <2> QED
    BY <1>8, <2>1 DEF RelayShape, BufShape, Evict, relayVars, history
<1> QED
  BY <1>1, <1>2, <1>3, <1>4, <1>5, <1>6, <1>7, <1>8, Zenon DEF PeerStep

\* The server starts with the types, and so does one that is started again.
LEMMA FreshShapes ==
    /\ Init => RelayShape
    /\ RelayShape /\ ServerRestart => RelayShape'
<1>1. NoRelay \in RelayStates
  <2>1. NoRelay \in RelayRecords /\ NoRelay.pc = "idle"
    BY RelayAssumption DEF NoRelay, RelayRecords
  <2> QED
    BY <2>1 DEF RelayStates
<1>2. Asleep \in SweepStates
  BY DEF Asleep, SweepStates, SweepRecords
<1>3. MaxSeq \in Nat /\ << >> \in Seq(0 .. MaxSeq)
  BY RelayAssumption
<1>4. Init => RelayShape
  BY <1>1, <1>2, <1>3 DEF Init, RelayShape, ConnShape, BufShape
<1>5. RelayShape /\ ServerRestart => RelayShape'
  BY <1>1, <1>2, <1>3 DEF ServerRestart, RelayShape, ConnShape, BufShape
<1> QED
  BY <1>4, <1>5

\* The steps of the next-state relation, one by one.
LEMMA Steps ==
    ASSUME Next
    PROVE  \/ \E s \in Senders, to \in Keys, keep \in BOOLEAN : Relay(s, to, keep)
           \/ \E s \in Senders, p \in Peers : SendTo(s, p)
           \/ \E s \in Senders : Push(s)
           \/ Sweep
           \/ \E k \in Keys : MessageExpires(k)
           \/ \E p \in Peers : PeerStep(p)
           \/ ServerRestart
BY Zenon DEF Next, PeerStep

\* Every step keeps the types.
LEMMA NextShape == RelayShape /\ FlightInv /\ [Next]_vars => RelayShape'
<1> SUFFICES ASSUME RelayShape, FlightInv, [Next]_vars PROVE RelayShape'
  OBVIOUS
<1>1. CASE Next
  BY <1>1, Steps, RelayShapes, SendToShapes, PushShapes, SweepShapes, PeerShapes, FreshShapes, Zenon
<1>2. CASE UNCHANGED vars
  BY <1>2 DEF vars, RelayShape, ConnShape, BufShape
<1> QED
  BY <1>1, <1>2
-----------------------------------------------------------------------------
(* The messages on their way.                                              *)

\* No step but the relay of a message, its sending, its storing and a restart
\* concerns the numbers.
LEMMA NumbersStay ==
    ASSUME Sweep \/ (\E k \in Keys : MessageExpires(k)) \/ (\E p \in Peers : PeerStep(p))
    PROVE  UNCHANGED <<seqCounter, relay, stored>>
<1>1. CASE Sweep
  BY <1>1 DEF Sweep, CollectKeys, EvictKey, DropBuffer, SweepDone, relayVars, history
<1>2. CASE \E k \in Keys : MessageExpires(k)
  BY <1>2 DEF MessageExpires, relayVars, history
<1>3. CASE \E p \in Peers : PeerStep(p)
  BY <1>3 DEF PeerStep, Attach, Poll, CheckGap, Replay, Read, Close, Wipe, Evict, relayVars, history
<1> QED
  BY <1>1, <1>2, <1>3

\* A message that is relayed has a number of its own until it is stored.
LEMMA NextFlight == RelayShape /\ FlightInv /\ [Next]_vars => FlightInv'
<1> SUFFICES ASSUME RelayShape, FlightInv, [Next]_vars PROVE FlightInv'
  OBVIOUS
<1>0. /\ seqCounter \in Nat /\ \A s \in Senders : relay[s].seq \in Nat
      /\ relay \in [Senders -> RelayStates] /\ stored \in [Keys -> SUBSET (1 .. MaxSeq)]
  <2>1. seqCounter \in Nat /\ \A s \in Senders : relay[s] \in RelayStates
    BY DEF RelayShape, BufShape
  <2> QED
    BY <2>1 DEF RelayShape, BufShape, RelayStates, RelayRecords
<1>n. NoRelay.pc # "send"
  BY DEF NoRelay
<1>1. ASSUME NEW s \in Senders, NEW to \in Keys, NEW keep \in BOOLEAN, Relay(s, to, keep) PROVE FlightInv'
  <2>1. /\ seqCounter' = seqCounter + 1
        /\ relay'[s].seq = seqCounter + 1
        /\ \A t \in Senders \ {s} : relay'[t] = relay[t]
        /\ stored' = stored
    BY <1>0, <1>1 DEF Relay, history
  <2>2. \A t \in Senders : Flying(t)' => t = s \/ (t # s /\ Flying(t) /\ relay'[t] = relay[t])
    BY <2>1 DEF Flying
  <2>3. \A t \in Senders : Flying(t) => relay[t].seq # seqCounter + 1
    BY <1>0 DEF FlightInv
  <2>4. \A k \in Keys : seqCounter + 1 \notin stored[k] /\ stored[k] \subseteq 1 .. seqCounter'
    BY <1>0, <2>1 DEF FlightInv
  <2>5. \A t \in Senders : Flying(t)' => relay'[t].seq \in 1 .. seqCounter'
    BY <1>0, <2>1, <2>2 DEF FlightInv
  <2>6. \A t \in Senders, k \in Keys : Flying(t)' => relay'[t].seq \notin stored'[k]
    BY <2>1, <2>2, <2>4 DEF FlightInv
  <2>7. \A t, u \in Senders : Flying(t)' /\ Flying(u)' /\ relay'[t].seq = relay'[u].seq => t = u
    BY <2>1, <2>2, <2>3 DEF FlightInv
  <2> QED
    BY <2>1, <2>4, <2>5, <2>6, <2>7 DEF FlightInv
<1>2. ASSUME NEW s \in Senders, NEW p \in Peers, SendTo(s, p) PROVE FlightInv'
  <2>1. /\ \A t \in Senders : relay'[t].seq = relay[t].seq /\ relay'[t].pc = relay[t].pc
        /\ seqCounter' = seqCounter /\ stored' = stored
    <3>1. PICK y \in RelayStates : y = relay[s]
      BY <1>0
    <3> DEFINE x == [y EXCEPT !.todo = @ \ {p}]
    <3>2. x.seq = y.seq /\ x.pc = y.pc
      BY DEF RelayStates, RelayRecords
    <3>3. relay' = [relay EXCEPT ![s] = x] /\ seqCounter' = seqCounter /\ stored' = stored
      BY <1>2, <3>1 DEF SendTo, history
    <3> HIDE DEF x
    <3> QED
      BY <1>0, <3>1, <3>2, <3>3
  <2> QED
    BY <2>1 DEF FlightInv, Flying
<1>3. ASSUME NEW s \in Senders, Push(s) PROVE FlightInv'
  <2>1. /\ Flying(s) /\ relay'[s] = NoRelay /\ seqCounter' = seqCounter
        /\ \A t \in Senders \ {s} : relay'[t] = relay[t]
    BY <1>0, <1>3 DEF Push, Flying
  <2>2. \A k \in Keys : stored'[k] \subseteq stored[k] \cup {relay[s].seq}
    <3>1. CASE relay[s].keep
      <4>1. stored' = [stored EXCEPT ![relay[s].to] = @ \cup {relay[s].seq}]
        BY <1>3, <3>1 DEF Push
      <4> QED
        BY <1>0, <4>1
    <3>2. CASE ~relay[s].keep
      BY <1>3, <3>2 DEF Push
    <3> QED
      BY <3>1, <3>2
  <2>3. \A t \in Senders : Flying(t)' => t # s /\ Flying(t) /\ relay'[t] = relay[t]
    BY <1>n, <2>1 DEF Flying
  <2>4. \A t \in Senders : Flying(t)' => relay[t].seq # relay[s].seq
    BY <2>1, <2>3 DEF FlightInv
  <2>5. \A k \in Keys : stored'[k] \subseteq 1 .. seqCounter'
    <3>1. relay[s].seq \in 1 .. seqCounter
      BY <2>1 DEF FlightInv
    <3> QED
      BY <2>1, <2>2, <3>1 DEF FlightInv
  <2>6. \A t \in Senders, k \in Keys : Flying(t)' => relay'[t].seq \notin stored'[k]
    BY <2>2, <2>3, <2>4 DEF FlightInv
  <2>7. \A t \in Senders : Flying(t)' => relay'[t].seq \in 1 .. seqCounter'
    BY <2>1, <2>3 DEF FlightInv
  <2>8. \A t, u \in Senders : Flying(t)' /\ Flying(u)' /\ relay'[t].seq = relay'[u].seq => t = u
    BY <2>3 DEF FlightInv
  <2> QED
    BY <2>5, <2>6, <2>7, <2>8 DEF FlightInv
<1>4. CASE UNCHANGED <<seqCounter, relay, stored>>
  BY <1>4 DEF FlightInv, Flying
<1>5. CASE ServerRestart
  BY <1>5, <1>n DEF ServerRestart, FlightInv, Flying
<1>6. CASE Next
  BY <1>1, <1>2, <1>3, <1>4, <1>5, <1>6, NumbersStay, Steps, Zenon
<1> QED
  BY <1>4, <1>6 DEF vars
-----------------------------------------------------------------------------
(* The buffers.                                                            *)

\* What a step may do to one buffer: nothing but let messages expire, drop
\* messages at the front, or all of them, store a message that was on its
\* way, or start afresh with the server.
KeptAt(k) ==
    /\ Content(k)' \in Seq(Entries)
    /\ Len(Content(k)') = Len(Content(k))
    /\ \A i \in DOMAIN Content(k) : Content(k)'[i].seq = Content(k)[i].seq
    /\ stored'[k] = stored[k] /\ gone'[k] = gone[k]
CutAt(k) ==
    /\ IsTail(Content(k)', Content(k))
    /\ stored'[k] = stored[k]
    /\ gone'[k] = gone[k] \cup (SeqsOf(Content(k)) \ SeqsOf(Content(k)'))
PushedAt(k, s) ==
    LET room == MakeRoom(PopExpired(Content(k)))
        n == relay[s].seq
    IN  /\ Flying(s)
        /\ Content(k)' = Append(room, Entry(n))
        /\ stored'[k] = stored[k] \cup {n}
        /\ gone'[k] = gone[k] \cup (SeqsOf(Content(k)) \ SeqsOf(room))
        /\ k \notin disorder' => ~(n < Highest(stored[k]))
FreshAt(k) == Content(k)' = << >> /\ stored'[k] = {} /\ gone'[k] = {}

\* Where nothing is stored nothing gets out of order.
BufferMoves(k) ==
    \/ FreshAt(k)
    \/ /\ k \in disorder => k \in disorder'
       /\ KeptAt(k) \/ CutAt(k) \/ \E s \in Senders : PushedAt(k, s)

\* A buffer that no step touched is kept.
LEMMA Untouched ==
    ASSUME RelayShape, NEW k \in Keys, buf'[k] = buf[k], stored'[k] = stored[k], gone'[k] = gone[k],
           k \in disorder => k \in disorder'
    PROVE  BufferMoves(k)
<1>1. Content(k)' = Content(k)
  BY DEF Content
<1>2. Content(k) \in Seq(Entries)
  BY ContentShape DEF RelayShape
<1>3. KeptAt(k)
  BY <1>1, <1>2 DEF KeptAt
<1> QED
  BY <1>3 DEF BufferMoves

\* A buffer that lost messages at the front, or is gone altogether, is cut.
LEMMA Shortened ==
    ASSUME RelayShape, NEW k \in Keys, NEW c \in Keys, NEW rest,
           rest = None \/ IsTail(rest, Content(c)),
           buf' = [buf EXCEPT ![c] = rest],
           gone' = [gone EXCEPT ![c] = @ \cup (Buffered(c) \ IF rest = None THEN {} ELSE SeqsOf(rest))],
           stored' = stored, disorder' = disorder
    PROVE  BufferMoves(k)
<1>0. buf'[c] = rest /\ (k # c => buf'[k] = buf[k] /\ gone'[k] = gone[k])
  BY DEF RelayShape, BufShape
<1>1. CASE k # c
  BY <1>0, <1>1, Untouched
<1>2. CASE k = c
  <2>1. Content(k) \in Seq(Entries) /\ SeqsOf(Content(k)) = Buffered(k)
    BY ContentShape DEF RelayShape
  <2>2. PICK less : less = IF rest = None THEN << >> ELSE rest
    OBVIOUS
  <2>3. IsTail(less, Content(k))
    BY <1>2, <2>1, <2>2, Tails
  <2>4. Content(k)' = less
    BY <1>0, <1>2, <2>2 DEF Content
  <2>5. SeqsOf(less) = IF rest = None THEN {} ELSE SeqsOf(rest)
    <3>1. SeqsOf(<< >>) = {}
      BY DEF SeqsOf
    <3> QED
      BY <2>2, <3>1
  <2>6. gone'[k] = gone[k] \cup (SeqsOf(Content(k)) \ SeqsOf(less))
    BY <1>2, <2>1, <2>5 DEF RelayShape, BufShape
  <2>7. CutAt(k)
    BY <2>3, <2>4, <2>6 DEF CutAt
  <2> QED
    BY <2>7 DEF BufferMoves
<1> QED
  BY <1>1, <1>2

\* The room that is made in a buffer.
LEMMA RoomOf ==
    ASSUME RelayShape, NEW k \in Keys
    PROVE  LET room == MakeRoom(PopExpired(Content(k))) IN
           /\ room \in Seq(Entries)
           /\ IsTail(room, Content(k))
           /\ Len(Content(k)) <= Max({MaxSize, 1}) => Len(room) + 1 <= Max({MaxSize, 1})
<1> DEFINE popped == PopExpired(Content(k))
           room == MakeRoom(popped)
<1>1. Content(k) \in Seq(Entries)
  BY ContentShape DEF RelayShape
<1>2. IsTail(popped, Content(k))
  BY <1>1, PopIsTail
<1>3. popped \in Seq(Entries) /\ Len(popped) <= Len(Content(k)) /\ Len(popped) \in Nat /\ Len(Content(k)) \in Nat
  <2>1. popped \in Seq(Entries)
    BY <1>2 DEF IsTail
  <2> HIDE DEF popped
  <2> QED
    BY <1>1, <1>2, <2>1, Tails
<1> HIDE DEF popped
<1>4. IsTail(room, popped) /\ (Len(popped) <= Max({MaxSize, 1}) => Len(room) + 1 <= Max({MaxSize, 1}))
  BY <1>3, RoomIsTail
<1> HIDE DEF room
<1>5. IsTail(room, Content(k)) /\ room \in Seq(Entries)
  <2>1. room \in Seq(Entries)
    BY <1>4 DEF IsTail
  <2> QED
    BY <1>1, <1>2, <1>4, <2>1, Tails
<1>6. Len(Content(k)) <= Max({MaxSize, 1}) => Len(popped) <= Max({MaxSize, 1})
  BY <1>3, Bound
<1> QED
  BY <1>4, <1>5, <1>6 DEF room, popped

\* The number of a message on its way.
LEMMA InFlight ==
    ASSUME RelayShape, FlightInv, NEW s \in Senders, Flying(s)
    PROVE  relay[s].seq \in 1 .. MaxSeq /\ \A k \in Keys : relay[s].seq \notin stored[k]
<1>1. relay[s].seq \in 1 .. seqCounter /\ seqCounter \in 0 .. MaxSeq /\ MaxSeq \in Nat
  BY RelayAssumption DEF FlightInv, RelayShape, BufShape
<1> QED
  BY <1>1 DEF FlightInv

\* What a relay does to a buffer.
LEMMA PushMoves ==
    ASSUME RelayShape, FlightInv, NEW s \in Senders, Push(s), NEW k \in Keys
    PROVE  BufferMoves(k)
<1>0. relay[s].to \in Keys /\ Flying(s)
  <2>1. relay[s] \in RelayStates /\ relay[s].pc = "send"
    BY DEF RelayShape, BufShape, Push
  <2> QED
    BY <2>1 DEF RelayStates, Flying
<1>1. CASE ~relay[s].keep
  BY <1>1, Untouched DEF Push
<1>2. CASE relay[s].keep
  <2>1. PICK c \in Keys : c = relay[s].to
    BY <1>0
  <2>2. PICK room : room = MakeRoom(PopExpired(Content(c)))
    OBVIOUS
  <2>3. PICK n : n = relay[s].seq
    OBVIOUS
  <2>4. /\ buf' = [buf EXCEPT ![c] = Append(room, Entry(n))]
        /\ stored' = [stored EXCEPT ![c] = @ \cup {n}]
        /\ gone' = [gone EXCEPT ![c] = @ \cup (Buffered(c) \ SeqsOf(room))]
        /\ disorder' = IF n < Highest(stored[c]) THEN disorder \cup {c} ELSE disorder
    BY <1>2, <2>1, <2>2, <2>3 DEF Push, Content
  <2>5. CASE k # c
    <3>1. buf'[k] = buf[k] /\ stored'[k] = stored[k] /\ gone'[k] = gone[k] /\ (k \in disorder => k \in disorder')
      BY <2>4, <2>5 DEF RelayShape, BufShape
    <3> QED
      BY <3>1, Untouched
  <2>6. CASE k = c
    <3>1. SeqsOf(Content(k)) = Buffered(k)
      BY ContentShape DEF RelayShape
    <3>2. /\ buf'[k] = Append(room, Entry(n)) /\ stored'[k] = stored[k] \cup {n}
          /\ gone'[k] = gone[k] \cup (SeqsOf(Content(k)) \ SeqsOf(room))
          /\ (k \in disorder => k \in disorder')
          /\ (k \notin disorder' => ~(n < Highest(stored[k])))
      BY <2>4, <2>6, <3>1 DEF RelayShape, BufShape
    <3>3. Append(room, Entry(n)) # None
      <4>1. room \in Seq(Entries)
        BY <2>2, RoomOf
      <4>2. Entry(n) \in Entries
        BY <1>0, <2>3, InFlight DEF Entry, Entries
      <4>3. Append(room, Entry(n)) \in Seq(Entries)
        BY <4>1, <4>2, AppendProperties
      <4> QED
        BY <4>3, RelayDistinct DEF Entries
    <3>4. Content(k)' = Append(room, Entry(n))
      BY <3>2, <3>3 DEF Content
    <3>5. PushedAt(k, s)
      BY <1>0, <2>2, <2>3, <2>6, <3>2, <3>4 DEF PushedAt
    <3> QED
      BY <3>2, <3>5 DEF BufferMoves
  <2> QED
    BY <2>5, <2>6
<1> QED
  BY <1>1, <1>2
\* What any step does to a buffer.
LEMMA BufferStep ==
    ASSUME RelayShape, FlightInv, [Next]_vars, NEW k \in Keys
    PROVE  BufferMoves(k)
<1> DEFINE Goal == BufferMoves(k)
<1> SUFFICES Goal
  OBVIOUS
<1>0. CASE UNCHANGED <<buf, stored, gone, disorder>>
  BY <1>0, Untouched
<1>1. ASSUME NEW s \in Senders, NEW to \in Keys, NEW keep \in BOOLEAN, Relay(s, to, keep) PROVE Goal
  BY <1>0, <1>1 DEF Relay, history
<1>2. ASSUME NEW s \in Senders, NEW p \in Peers, SendTo(s, p) PROVE Goal
  BY <1>0, <1>2 DEF SendTo, history
<1>3. ASSUME NEW s \in Senders, Push(s) PROVE Goal
  BY <1>3, PushMoves
<1>4. CASE Sweep
  <2>1. CASE CollectKeys \/ SweepDone
    BY <1>0, <2>1 DEF CollectKeys, SweepDone, history
  <2>2. ASSUME NEW c \in Keys, EvictKey(c) PROVE Goal
    <3>1. PICK rest : rest = IF buf[c] = None THEN None ELSE PopExpired(buf[c])
      OBVIOUS
    <3>2. rest = None \/ IsTail(rest, Content(c))
      <4>1. CASE buf[c] # None
        <5>1. buf[c] = Content(c) /\ Content(c) \in Seq(Entries)
          BY <4>1, ContentShape DEF RelayShape
        <5> QED
          BY <3>1, <4>1, <5>1, PopIsTail
      <4> QED
        BY <3>1, <4>1
    <3>3. /\ buf' = [buf EXCEPT ![c] = rest]
          /\ gone' = [gone EXCEPT ![c] = @ \cup (Buffered(c) \ IF rest = None THEN {} ELSE SeqsOf(rest))]
          /\ stored' = stored /\ disorder' = disorder
      BY <2>2, <3>1 DEF EvictKey
    <3> QED
      BY <3>2, <3>3, Shortened
  <2>3. CASE DropBuffer
    <3>1. PICK c \in Keys : c = sweep.key
      BY <2>3 DEF DropBuffer, RelayShape, BufShape, SweepStates
    <3>2. /\ buf' = [buf EXCEPT ![c] = None]
          /\ gone' = [gone EXCEPT ![c] = @ \cup (Buffered(c) \ IF None = None THEN {} ELSE SeqsOf(None))]
          /\ stored' = stored /\ disorder' = disorder
      BY <2>3, <3>1 DEF DropBuffer
    <3> QED
      BY <3>2, Shortened
  <2> QED
    BY <1>4, <2>1, <2>2, <2>3, Zenon DEF Sweep
<1>5. ASSUME NEW c \in Keys, MessageExpires(c) PROVE Goal
  <2>1. PICK later \in Seq(Entries) :
              /\ buf[c] # None
              /\ buf' = [buf EXCEPT ![c] = later]
              /\ Len(later) = Len(buf[c])
              /\ \A j \in DOMAIN buf[c] : later[j].seq = buf[c][j].seq
    BY <1>5, ExpiresTo
  <2>2. stored' = stored /\ gone' = gone /\ disorder' = disorder
    BY <1>5 DEF MessageExpires, history
  <2>3. CASE k # c
    <3>1. buf'[k] = buf[k]
      BY <2>1, <2>3 DEF RelayShape, BufShape
    <3> QED
      BY <2>2, <3>1, Untouched
  <2>4. CASE k = c
    <3>1. Content(k) = buf[c] /\ buf'[k] = later
      BY <2>1, <2>4 DEF Content, RelayShape, BufShape
    <3>2. later # None
      BY RelayDistinct DEF Entries
    <3>3. Content(k)' = later
      BY <3>1, <3>2 DEF Content
    <3>4. KeptAt(k)
      BY <2>1, <2>2, <3>1, <3>3 DEF KeptAt
    <3> QED
      BY <2>2, <3>4 DEF BufferMoves
  <2> QED
    BY <2>3, <2>4
<1>6. ASSUME NEW p \in Peers, PeerStep(p) PROVE Goal
  <2>1. CASE Wipe(p)
    <3>1. PICK c \in Keys : c = p
      BY DEF Keys
    <3>2. /\ buf' = [buf EXCEPT ![c] = None]
          /\ gone' = [gone EXCEPT ![c] = @ \cup (Buffered(c) \ IF None = None THEN {} ELSE SeqsOf(None))]
          /\ stored' = stored /\ disorder' = disorder
      BY <2>1, <3>1 DEF Wipe
    <3> QED
      BY <3>2, Shortened
  <2>2. CASE ~Wipe(p)
    <3>1. UNCHANGED <<buf, stored, gone, disorder>>
      BY <1>6, <2>2 DEF PeerStep, Attach, Poll, CheckGap, Replay, Read, Close, Evict, history
    <3> QED
      BY <1>0, <3>1
  <2> QED
    BY <2>1, <2>2
<1>7. CASE ServerRestart
  <2>1. FreshAt(k)
    BY <1>7 DEF ServerRestart, FreshAt, Content
  <2> QED
    BY <2>1 DEF BufferMoves
<1>8. CASE UNCHANGED vars
  BY <1>0, <1>8 DEF vars
<1> HIDE DEF Goal
<1>9. CASE Next
  BY <1>1, <1>2, <1>3, <1>4, <1>5, <1>6, <1>7, <1>9, Steps, Zenon
<1> QED
  BY <1>8, <1>9

\* A buffer keeps holding what is not gone, and its order.
LEMMA BufferKeeps ==
    ASSUME RelayShape, FlightInv, NEW k \in Keys, Holds(Content(k), stored[k], gone[k]),
           k \notin disorder => InOrder(Content(k), gone[k]), BufferMoves(k)
    PROVE  /\ Holds(Content(k)', stored'[k], gone'[k])
           /\ k \notin disorder' => InOrder(Content(k)', gone'[k])
<1>1. PICK entries \in Seq(Entries) : entries = Content(k)
  BY ContentShape DEF RelayShape
<1>2. PICK later : later = Content(k)'
  OBVIOUS
<1>3. PICK all : all = stored[k]
  OBVIOUS
<1>4. PICK left : left = gone[k]
  OBVIOUS
<1>5. Holds(entries, all, left) /\ (k \notin disorder => InOrder(entries, left))
  BY <1>1, <1>3, <1>4
<1>6. CASE FreshAt(k)
  <2>1. Content(k)' = << >> /\ stored'[k] = {} /\ gone'[k] = {}
    BY <1>6 DEF FreshAt
  <2>2. Holds(<< >>, {}, {}) /\ InOrder(<< >>, {})
    BY Bound DEF Holds, InOrder, SeqsOf
  <2> QED
    BY <2>1, <2>2
<1>7. CASE KeptAt(k) /\ (k \in disorder => k \in disorder')
  <2>1. /\ later \in Seq(Entries) /\ Len(later) = Len(entries)
        /\ \A i \in DOMAIN entries : later[i].seq = entries[i].seq
        /\ stored'[k] = all /\ gone'[k] = left
    BY <1>1, <1>2, <1>3, <1>4, <1>7 DEF KeptAt
  <2>2. Holds(later, all, left) /\ (InOrder(entries, left) => InOrder(later, left))
    BY <1>5, <2>1, ExpiryKeeps
  <2> QED
    BY <1>2, <1>5, <1>7, <2>1, <2>2
<1>8. CASE CutAt(k) /\ (k \in disorder => k \in disorder')
  <2>1. PICK lost : lost = SeqsOf(entries) \ SeqsOf(later)
    OBVIOUS
  <2>2. IsTail(later, entries) /\ stored'[k] = all /\ gone'[k] = left \cup lost
    BY <1>1, <1>2, <1>3, <1>4, <1>8, <2>1 DEF CutAt
  <2>3. Holds(later, all, left \cup lost) /\ (InOrder(entries, left) => InOrder(later, left \cup lost))
    BY <1>5, <2>1, <2>2, CutKeeps
  <2> QED
    BY <1>2, <1>5, <1>8, <2>2, <2>3
<1>9. ASSUME NEW s \in Senders, PushedAt(k, s), k \in disorder => k \in disorder'
      PROVE  /\ Holds(Content(k)', stored'[k], gone'[k])
             /\ k \notin disorder' => InOrder(Content(k)', gone'[k])
  <2>1. PICK room : room = MakeRoom(PopExpired(Content(k)))
    OBVIOUS
  <2>2. PICK n : n = relay[s].seq
    OBVIOUS
  <2>3. PICK lost : lost = SeqsOf(entries) \ SeqsOf(room)
    OBVIOUS
  <2>4. /\ Flying(s) /\ later = Append(room, Entry(n)) /\ stored'[k] = all \cup {n}
        /\ gone'[k] = left \cup lost
        /\ (k \notin disorder' => ~(n < Highest(all)))
    BY <1>1, <1>2, <1>3, <1>4, <1>9, <2>1, <2>2, <2>3 DEF PushedAt
  <2>5. /\ room \in Seq(Entries) /\ IsTail(room, entries)
        /\ (Len(entries) <= Max({MaxSize, 1}) => Len(room) + 1 <= Max({MaxSize, 1}))
    BY <1>1, <2>1, RoomOf
  <2>6. Len(room) + 1 <= Max({MaxSize, 1})
    BY <1>5, <2>5 DEF Holds
  <2>7. n \in 1 .. MaxSeq /\ n \notin all
    BY <1>3, <2>2, <2>4, InFlight
  <2>8. Holds(room, all, left \cup lost) /\ (InOrder(entries, left) => InOrder(room, left \cup lost))
    BY <1>5, <2>3, <2>5, CutKeeps
  <2>9. /\ Holds(Append(room, Entry(n)), all \cup {n}, left \cup lost)
        /\ (InOrder(room, left \cup lost) /\ (\A a \in all : a < n)
              => InOrder(Append(room, Entry(n)), left \cup lost))
    <3>1. PICK out : out = left \cup lost
      OBVIOUS
    <3>2. Holds(room, all, out)
      BY <2>8, <3>1
    <3>3. /\ Holds(Append(room, Entry(n)), all \cup {n}, out)
          /\ (InOrder(room, out) /\ (\A a \in all : a < n) => InOrder(Append(room, Entry(n)), out))
      BY <2>5, <2>6, <2>7, <3>2, PushKeeps
    <3> QED
      BY <3>1, <3>3
  <2>10. ASSUME k \notin disorder' PROVE \A a \in all : a < n
    <3>1. all \subseteq 1 .. MaxSeq /\ MaxSeq \in Nat
      BY <1>3, RelayAssumption DEF RelayShape, BufShape
    <3>2. Highest(all) \in 0 .. MaxSeq /\ \A a \in all : a <= Highest(all)
      BY <3>1, Greatest
    <3>3. PICK h \in Nat : h = Highest(all)
      BY <3>1, <3>2
    <3>4. ASSUME NEW a \in all PROVE a < n
      <4>1. a <= h /\ a \in Nat /\ n \in Nat /\ a # n /\ ~(n < h)
        BY <2>4, <2>7, <2>10, <3>1, <3>2, <3>3
      <4> QED
        BY <4>1
    <3> QED
      BY <3>4
  <2> QED
    BY <1>2, <1>5, <1>9, <2>4, <2>8, <2>9, <2>10
<1> QED
  BY <1>6, <1>7, <1>8, <1>9 DEF BufferMoves
-----------------------------------------------------------------------------
(* The theorems.                                                           *)

\* The inductive invariants hold.
LEMMA RelayInvariants == Spec => [](RelayShape /\ FlightInv /\ BufferInv /\ OrderInv)
<1>1. Init => RelayShape /\ FlightInv /\ BufferInv /\ OrderInv
  <2> SUFFICES ASSUME Init PROVE RelayShape /\ FlightInv /\ BufferInv /\ OrderInv
    OBVIOUS
  <2>1. FlightInv
    BY DEF Init, FlightInv, Flying, NoRelay
  <2>2. Holds(<< >>, {}, {}) /\ InOrder(<< >>, {})
    BY Bound DEF Holds, InOrder, SeqsOf
  <2>3. \A k \in Keys : Content(k) = << >> /\ stored[k] = {} /\ gone[k] = {}
    BY DEF Init, Content
  <2>4. BufferInv /\ OrderInv
    BY <2>2, <2>3 DEF BufferInv, OrderInv
  <2> QED
    BY <2>1, <2>4, FreshShapes
<1>2. RelayShape /\ FlightInv /\ BufferInv /\ OrderInv /\ [Next]_vars
        => (RelayShape /\ FlightInv /\ BufferInv /\ OrderInv)'
  <2> SUFFICES ASSUME RelayShape, FlightInv, BufferInv, OrderInv, [Next]_vars
               PROVE  (RelayShape /\ FlightInv /\ BufferInv /\ OrderInv)'
    OBVIOUS
  <2>1. RelayShape' /\ FlightInv'
    BY NextShape, NextFlight
  <2>2. ASSUME NEW k \in Keys
        PROVE  /\ Holds(Content(k)', stored'[k], gone'[k])
               /\ k \notin disorder' => InOrder(Content(k)', gone'[k])
    <3>1. Holds(Content(k), stored[k], gone[k]) /\ (k \notin disorder => InOrder(Content(k), gone[k]))
      BY DEF BufferInv, OrderInv
    <3> QED
      BY <3>1, BufferStep, BufferKeeps
  <2>3. BufferInv' /\ OrderInv'
    BY <2>2 DEF BufferInv, OrderInv
  <2> QED
    BY <2>1, <2>3
<1> QED
  BY <1>1, <1>2, PTL DEF Spec

\* The types; a buffer holds at most replay_buffer_size messages, or one when
\* that is 0, and of what was stored under its key exactly what is not gone,
\* each message once: for every size of the buffer, any number of relays at
\* the same time, and sweeps and ends of connections between their steps.
THEOREM RelayTypeCorrect == Spec => []RelayTypeOK
<1>1. RelayShape /\ FlightInv /\ BufferInv => RelayTypeOK
  <2> SUFFICES ASSUME RelayShape, FlightInv, BufferInv PROVE RelayTypeOK
    OBVIOUS
  <2>1. ASSUME NEW k \in Keys, buf[k] # None
        PROVE  /\ buf[k] \in Seq([seq : 1 .. MaxSeq, expired : BOOLEAN])
               /\ Len(buf[k]) <= Max({MaxSize, 1})
               /\ Buffered(k) = stored[k] \ gone[k]
               /\ \A i, j \in DOMAIN buf[k] : i # j => buf[k][i].seq # buf[k][j].seq
    <3>1. Content(k) \in Seq(Entries) /\ buf[k] = Content(k) /\ SeqsOf(Content(k)) = Buffered(k)
      BY <2>1, ContentShape DEF RelayShape
    <3>2. Holds(Content(k), stored[k], gone[k])
      BY DEF BufferInv
    <3>3. /\ Len(Content(k)) <= Max({MaxSize, 1})
          /\ SeqsOf(Content(k)) = stored[k] \ gone[k]
          /\ \A i, j \in DOMAIN Content(k) : i # j => Content(k)[i].seq # Content(k)[j].seq
      BY <3>2 DEF Holds
    <3>4. buf[k] \in Seq([seq : 1 .. MaxSeq, expired : BOOLEAN])
      BY <3>1 DEF Entries
    <3> QED
      BY <3>1, <3>3, <3>4, Zenon
  <2>2. /\ seqCounter \in 0 .. MaxSeq
        /\ conn \in [Peers -> {"off", "on", "ws", "http", "replay"}]
        /\ last \in [Peers -> 0 .. MaxSeq]
        /\ \A p \in Peers : sender[p] <=> conn[p] # "off"
    BY DEF RelayShape, ConnShape, BufShape
  <2>3. \A s \in Senders : relay[s].pc = "send" => relay[s].seq \in 1 .. seqCounter
    BY DEF FlightInv, Flying
  <2> QED
    BY <2>1, <2>2, <2>3, Zenon DEF RelayTypeOK
<1> QED
  BY <1>1, RelayInvariants, PTL

\* A peer that is attached is let on by the check for a gap, and one that is
\* replayed to by the replay.
LEMMA WhoLetsOn ==
    ASSUME RelayShape, [Next]_vars, NEW p \in Peers
    PROVE  /\ conn[p] \in {"ws", "http"} /\ conn'[p] \in {"on", "replay"} => CheckGap(p)
           /\ conn[p] = "replay" /\ conn'[p] = "on" => Replay(p)
<1> DEFINE Goal == /\ conn[p] \in {"ws", "http"} /\ conn'[p] \in {"on", "replay"} => CheckGap(p)
                   /\ conn[p] = "replay" /\ conn'[p] = "on" => Replay(p)
<1> SUFFICES Goal
  OBVIOUS
<1>0. CASE conn'[p] = conn[p]
  BY <1>0
<1>1. ASSUME NEW s \in Senders, NEW to \in Keys, NEW keep \in BOOLEAN, Relay(s, to, keep) PROVE Goal
  BY <1>0, <1>1 DEF Relay, connVars
<1>2. ASSUME NEW s \in Senders, NEW q \in Peers, SendTo(s, q) PROVE Goal
  BY <1>0, <1>2 DEF SendTo, connVars
<1>3. ASSUME NEW s \in Senders, Push(s) PROVE Goal
  BY <1>0, <1>3 DEF Push, connVars
<1>4. CASE Sweep
  BY <1>0, <1>4 DEF Sweep, CollectKeys, EvictKey, DropBuffer, SweepDone, connVars
<1>5. ASSUME NEW k \in Keys, MessageExpires(k) PROVE Goal
  BY <1>0, <1>5 DEF MessageExpires, connVars
<1>6. ASSUME NEW q \in Peers, PeerStep(q) PROVE Goal
  <2>0. conn \in [Peers -> {"off", "on", "ws", "http", "replay"}]
    BY DEF RelayShape, ConnShape
  <2>1. CASE q # p
    <3>1. conn'[p] = conn[p]
      BY <1>6, <2>0, <2>1 DEF PeerStep, Attach, Poll, CheckGap, Replay, Read, Close, Wipe, Evict
    <3> QED
      BY <1>0, <3>1
  <2>2. CASE q = p
    <3>1. ASSUME NEW transport \in {"ws", "http"}, Attach(p, transport) PROVE Goal
      BY <2>0, <3>1 DEF Attach
    <3>2. CASE Poll(p)
      BY <2>0, <3>2 DEF Poll
    <3>3. CASE CheckGap(p)
      <4>1. conn[p] \in {"ws", "http"}
        BY <3>3 DEF CheckGap
      <4> QED
        BY <3>3, <4>1
    <3>4. CASE Replay(p)
      <4>1. conn[p] = "replay"
        BY <3>4 DEF Replay
      <4> QED
        BY <3>4, <4>1
    <3>5. CASE Read(p) \/ Wipe(p)
      BY <1>0, <3>5 DEF Read, Wipe
    <3>6. CASE Close(p) \/ Evict(p)
      BY <2>0, <3>6 DEF Close, Evict
    <3> HIDE DEF Goal
    <3> QED
      BY <1>6, <2>2, <3>1, <3>2, <3>3, <3>4, <3>5, <3>6, Zenon DEF PeerStep
  <2> QED
    BY <2>1, <2>2
<1>7. CASE ServerRestart
  BY <1>7 DEF ServerRestart
<1>8. CASE UNCHANGED vars
  BY <1>0, <1>8 DEF vars
<1> HIDE DEF Goal
<1>9. CASE Next
  BY <1>1, <1>2, <1>3, <1>4, <1>5, <1>6, <1>7, <1>9, Steps, Zenon
<1> QED
  BY <1>8, <1>9

\* ws.rs, REPLAY_GAP: whoever comes back and finds messages buffered is told
\* of the gap when a message above the last number it saw has left the buffer,
\* for any number of peers and messages, any size of the buffer, and whatever
\* relays, sweeps and ends of connections ran in between, where the messages
\* were stored in order.
THEOREM GapsAreAnnounced == Spec => GapIsAnnounced
<1>1. ASSUME RelayShape, BufferInv, OrderInv, [Next]_vars, NEW p \in Peers,
             conn[p] \in {"ws", "http"}, conn'[p] \in {"on", "replay"}, Buffered(p) # {},
             p \notin disorder, NEW n \in gone[p], n > last[p]
      PROVE  ReplayGap \in Range(chan'[p])
  <2>1. CheckGap(p)
    BY <1>1, WhoLetsOn
  <2>2. p \in Keys
    BY DEF Keys
  <2>3. PICK entries \in Seq(Entries) :
           entries = Content(p) /\ SeqsOf(entries) # {} /\ InOrder(entries, gone[p])
    BY <1>1, <2>2, ContentShape DEF RelayShape, OrderInv
  <2>4. entries # << >> /\ 1 \in DOMAIN entries /\ entries[1].seq \in Nat
    <3>1. entries # << >>
      BY <2>3 DEF SeqsOf
    <3>2. 1 \in DOMAIN entries /\ entries[1] \in Entries
      BY <3>1
    <3> QED
      BY <3>1, <3>2, RelayAssumption DEF Entries
  <2>5. n < entries[1].seq
    BY <2>3, <2>4 DEF InOrder
  <2>6. OldestSeq(p) = entries[1].seq
    BY <2>3, <2>4 DEF OldestSeq, Content
  <2>7. last[p] \in Nat /\ n \in Nat /\ chan[p] \in Seq(0 .. MaxSeq) /\ ReplayGap \in 0 .. MaxSeq
    BY <1>1, <2>2, RelayAssumption DEF RelayShape, ConnShape, BufShape, ReplayGap
  <2>8. last[p] < OldestSeq(p)
    BY <1>1, <2>4, <2>5, <2>6, <2>7
  <2>9. chan'[p] = Append(chan[p], ReplayGap)
    BY <1>1, <2>1, <2>8 DEF CheckGap, RelayShape, ConnShape
  <2>10. PICK c \in Seq(0 .. MaxSeq) : c = chan[p]
    BY <2>7
  <2>11. Len(c) + 1 \in DOMAIN Append(c, ReplayGap) /\ Append(c, ReplayGap)[Len(c) + 1] = ReplayGap
    BY <2>7
  <2> QED
    BY <2>9, <2>10, <2>11 DEF Range
<1>2. RelayShape /\ BufferInv /\ OrderInv /\ [Next]_vars
        => [\A p \in Peers :
              (/\ conn[p] \in {"ws", "http"}
               /\ conn'[p] \in {"on", "replay"}
               /\ Buffered(p) # {}
               /\ p \notin disorder
               /\ \E n \in gone[p] : n > last[p])
                  => ReplayGap \in Range(chan'[p])]_vars
  BY <1>1
<1> QED
  BY <1>2, RelayInvariants, PTL DEF Spec, GapIsAnnounced

\* replay_buffer.rs, replay on reconnection: every message above the last
\* number a client saw that was stored for it and has not left the buffer is
\* in the client's channel once the replay is done, unless it has expired; for
\* any number of peers and messages, and whatever ran between the attachment
\* and the replay.
THEOREM MissedAreReplayed == Spec => MissedIsReplayed
<1>1. ASSUME RelayShape, BufferInv, [Next]_vars, NEW p \in Peers, conn[p] = "replay", conn'[p] = "on",
             NEW n \in stored[p] \ gone[p]
      PROVE  \/ n <= last[p]
             \/ n \in Range(chan'[p])
             \/ \E i \in DOMAIN buf[p] : buf[p][i] = [seq |-> n, expired |-> TRUE]
  <2>1. Replay(p)
    BY <1>1, WhoLetsOn
  <2>2. p \in Keys
    BY DEF Keys
  <2>3. PICK entries \in Seq(Entries) : entries = Content(p) /\ n \in SeqsOf(entries)
    <3>1. Content(p) \in Seq(Entries)
      BY <1>1, <2>2, ContentShape DEF RelayShape
    <3>2. n \in SeqsOf(Content(p))
      BY <1>1, <2>2 DEF BufferInv, Holds
    <3> QED
      BY <3>1, <3>2
  <2>4. PICK i \in DOMAIN entries : entries[i].seq = n /\ entries[i] \in Entries
    BY <2>3 DEF SeqsOf
  <2>5. buf[p] # None /\ buf[p] = entries
    BY <2>3, <2>4 DEF Content
  <2>6. last[p] \in Nat /\ n \in Nat /\ chan[p] \in Seq(0 .. MaxSeq) /\ sender[p]
    BY <1>1, <2>2, RelayAssumption DEF RelayShape, ConnShape, BufShape
  <2>7. CASE entries[i].expired
    <3>1. entries[i] = [seq |-> n, expired |-> TRUE]
      BY <2>4, <2>7 DEF Entries
    <3> QED
      BY <2>5, <3>1
  <2>8. CASE ~entries[i].expired /\ n > last[p]
    <3>1. PICK again \in Seq(0 .. MaxSeq) : again = ReplaySince(entries, last[p]) /\ n \in Range(again)
      <4>1. Wanted(entries, last[p], i)
        BY <2>4, <2>8 DEF Wanted
      <4> QED
        BY <2>4, <2>6, <4>1, ReplayTakes
    <3>2. chan'[p] = chan[p] \o again
      BY <1>1, <2>1, <2>5, <2>6, <3>1 DEF Replay, RelayShape, ConnShape
    <3>3. PICK c \in Seq(0 .. MaxSeq) : c = chan[p]
      BY <2>6
    <3>4. PICK j \in DOMAIN again : again[j] = n
      BY <3>1 DEF Range
    <3>5. Len(c) + j \in DOMAIN (c \o again) /\ (c \o again)[Len(c) + j] = n
      BY <3>4
    <3> QED
      BY <3>2, <3>3, <3>5 DEF Range
  <2>9. CASE ~(n > last[p])
    BY <2>6, <2>9
  <2> QED
    BY <2>7, <2>8, <2>9, Zenon
<1>2. RelayShape /\ BufferInv /\ [Next]_vars
        => [\A p \in Peers : (conn[p] = "replay" /\ conn'[p] = "on") =>
              \A n \in stored[p] \ gone[p] :
                 \/ n <= last[p]
                 \/ n \in Range(chan'[p])
                 \/ \E i \in DOMAIN buf[p] : buf[p][i] = [seq |-> n, expired |-> TRUE]]_vars
  BY <1>1
<1> QED
  BY <1>2, RelayInvariants, PTL DEF Spec, MissedIsReplayed
=============================================================================
