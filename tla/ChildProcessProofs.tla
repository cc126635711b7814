------------------------- MODULE ChildProcessProofs -------------------------
(***************************************************************************)
(* The two kinds of processes that the harness starts.  For any number of  *)
(* tool calls, processes and bytes: how many processes of the shell tools  *)
(* live, that each of them can be found, and that a reader misses nothing  *)
(* it is not told of (ShellProcesses).  The bound needs that an id in      *)
(* flight is new (Fresh) and not given twice (OwnIds); the reader, that    *)
(* the buffer holds the last bytes of the output, and all it has room for  *)
(* (Held).  For any number of callers and refreshers of an MCP server: no  *)
(* process of it is orphaned, the copies of its tool list agree when all   *)
(* is quiet, and a call that started a client has one (McpCatalog).  That  *)
(* needs that one caller starts the server at a time (OneStarts), and that *)
(* whoever changed a list still carries the news of it (NewsCarried).      *)
(***************************************************************************)
EXTENDS ShellProcesses, McpCatalog, FiniteSetTheorems, SequenceTheorems, TLAPS

RegistryOK ==
    /\ shellSeq \in 0..MaxStarts
    /\ shellProcesses \subseteq 1..shellSeq
    /\ starting \in [Starters -> 0..shellSeq]
    /\ started \subseteq 1..shellSeq /\ exited \subseteq started

\* An id in flight is in nobody else's hands, and has not exited.
OwnIds == \A s, t \in Starters : starting[s] = starting[t] /\ starting[s] # NoId => s = t
Fresh == \A s \in Starters : starting[s] \notin shellProcesses \union exited

\* LiveStaysListed, with a starter named.
Listed == \A p \in started : p \in exited \/ p \in shellProcesses \/ \E s \in Starters : starting[s] = p

\* The buffer is what the output ends with.
Held(p) ==
    /\ base[p] \in Nat /\ next[p] \in Nat /\ base[p] <= next[p]
    /\ buf[p] = Positions(base[p] + 1, next[p])
    /\ base[p] = 0 \/ base[p] + MaxBuffer = next[p]

\* Numbers up to c, each larger than the one before it.
Ordered(q, c) ==
    /\ q \in Seq(Nat)
    /\ \A i \in 1..Len(q) : q[i] <= c
    /\ \A i, j \in 1..Len(q) : i < j => q[i] < q[j]

\* Numbers s+1 to s+k after those of q.
Appended(new, q, s, k) ==
    /\ Len(new) = Len(q) + k
    /\ \A i \in 1..Len(q) : new[i] = q[i]
    /\ \A i \in 1..k : new[Len(q) + i] = s + i

\* ReadsAccounted, of one process.
Accounted(p) ==
    /\ cursor[p] \in Nat /\ dropped[p] \in Nat /\ got[p] \in Seq(Nat)
    /\ cursor[p] <= next[p]
    /\ Len(got[p]) + dropped[p] = cursor[p]
    /\ \A i \in 1..Len(got[p]) : got[p][i] <= cursor[p]
    /\ \A i, j \in 1..Len(got[p]) : i < j => got[p][i] < got[p][j]
    /\ \A b \in 1..cursor[p] : (\E i \in 1..Len(got[p]) : got[p][i] = b) \/ b + MaxBuffer <= next[p]

BytesOK ==
    /\ DOMAIN buf = Ids /\ DOMAIN base = Ids /\ DOMAIN next = Ids
    /\ DOMAIN cursor = Ids /\ DOMAIN got = Ids /\ DOMAIN dropped = Ids
    /\ \A p \in Ids : Held(p) /\ Accounted(p)

LiveInv == RegistryOK /\ OwnIds /\ Fresh /\ Listed /\ LiveBound

-----------------------------------------------------------------------------
\* Positions are numbers in a row.
LEMMA PositionsAre ==
    ASSUME NEW a \in Nat \ {0}, NEW b \in Nat, a <= b + 1
    PROVE  /\ Positions(a, b) \in Seq(Nat)
           /\ Len(Positions(a, b)) = b + 1 - a
           /\ \A i \in 1..(b + 1 - a) : Positions(a, b)[i] = a + i - 1
BY DEF Positions

\* SubSeq, under a name that the provers leave alone.
Part(q, m, n) == SubSeq(q, m, n)

\* A part of a row is a row.
LEMMA PositionsPart ==
    ASSUME NEW a \in Nat \ {0}, NEW b \in Nat, NEW m \in Nat \ {0}, NEW n \in Nat,
           a <= b + 1, n <= b + 1 - a, m <= n + 1
    PROVE  Part(Positions(a, b), m, n) = Positions(a + m - 1, a + n - 1)
<1> DEFINE s == SubSeq(Positions(a, b), m, n)
           t == Positions(a + m - 1, a + n - 1)
<1>1. \A i \in 1..(b + 1 - a) : Positions(a, b)[i] = a + i - 1
  BY PositionsAre
<1>2. \A i \in m..n : Positions(a, b)[i] \in Nat
  BY <1>1
<1>3. s \in Seq(Nat) /\ Len(s) = n + 1 - m /\ \A i \in 1..(n - m + 1) : s[i] = a + m + i - 2
  <2>1. s \in Seq(Nat) /\ Len(s) = (IF m <= n THEN n - m + 1 ELSE 0)
        /\ \A i \in 1..(n - m + 1) : s[i] = Positions(a, b)[m + i - 1]
    BY <1>2, SubSeqProperties
  <2>2. \A i \in 1..(n - m + 1) : m + i - 1 \in 1..(b + 1 - a)
    OBVIOUS
  <2> HIDE DEF s
  <2>3. QED
    BY <2>1, <2>2, <1>1
<1>4. t \in Seq(Nat) /\ Len(t) = n + 1 - m /\ \A i \in 1..(n + 1 - m) : t[i] = a + m + i - 2
  <2>1. a + m - 1 \in Nat \ {0} /\ a + n - 1 \in Nat /\ a + m - 1 <= a + n - 1 + 1
    OBVIOUS
  <2>2. t \in Seq(Nat) /\ Len(t) = a + n - 1 + 1 - (a + m - 1)
        /\ \A i \in 1..(a + n - 1 + 1 - (a + m - 1)) : t[i] = (a + m - 1) + i - 1
    BY <2>1, PositionsAre
  <2> HIDE DEF t
  <2>3. QED
    BY <2>2
<1> HIDE DEF s, t
<1>5. s = t
  BY <1>3, <1>4, SeqEqual
<1>6. QED
  BY <1>5 DEF s, t, Part

\* Two rows that follow each other are one.
LEMMA PositionsJoin ==
    ASSUME NEW a \in Nat \ {0}, NEW b \in Nat, NEW c \in Nat, a <= b + 1, b <= c
    PROVE  Positions(a, b) \o Positions(b + 1, c) = Positions(a, c)
<1> DEFINE s == Positions(a, b)
           t == Positions(b + 1, c)
           u == Positions(a, c)
<1>1. s \in Seq(Nat) /\ Len(s) = b + 1 - a /\ \A i \in 1..(b + 1 - a) : s[i] = a + i - 1
  BY PositionsAre
<1>2. t \in Seq(Nat) /\ Len(t) = c - b /\ \A i \in 1..(c - b) : t[i] = b + i
  <2>1. b + 1 \in Nat \ {0} /\ b + 1 <= c + 1
    OBVIOUS
  <2>2. t \in Seq(Nat) /\ Len(t) = c + 1 - (b + 1) /\ \A i \in 1..(c + 1 - (b + 1)) : t[i] = (b + 1) + i - 1
    BY <2>1, PositionsAre
  <2> HIDE DEF t
  <2>3. QED
    BY <2>2
<1>3. u \in Seq(Nat) /\ Len(u) = c + 1 - a /\ \A i \in 1..(c + 1 - a) : u[i] = a + i - 1
  BY PositionsAre
<1> HIDE DEF s, t, u
<1>4. s \o t \in Seq(Nat) /\ Len(s \o t) = c + 1 - a
  <2>1. s \o t \in Seq(Nat) /\ Len(s \o t) = Len(s) + Len(t)
    BY <1>1, <1>2, ConcatProperties
  <2>2. QED
    BY <2>1, <1>1, <1>2
<1>5. \A i \in 1..(c + 1 - a) : (s \o t)[i] = a + i - 1
  <2>1. \A i \in 1..(Len(s) + Len(t)) : (s \o t)[i] = IF i <= Len(s) THEN s[i] ELSE t[i - Len(s)]
    BY <1>1, <1>2, ConcatProperties
  <2>2. QED
    BY <2>1, <1>1, <1>2
<1>6. s \o t = u
  BY <1>3, <1>4, <1>5, SeqEqual
<1>7. QED
  BY <1>6 DEF s, t, u

-----------------------------------------------------------------------------
\* What the starters have in flight is finite, and no more than they are.
LEMMA FlightIsFinite ==
    ASSUME NEW f
    PROVE  LET F == {f[s] : s \in Starters} \ {NoId}
           IN IsFiniteSet(F) /\ Cardinality(F) <= Cardinality(Starters)
<1> DEFINE F == {f[s] : s \in Starters} \ {NoId}
           S == {s \in Starters : f[s] # NoId}
           g == [s \in S |-> f[s]]
<1>1. IsFiniteSet(S) /\ Cardinality(S) <= Cardinality(Starters)
  BY StartersAssumption, FS_Subset
<1>2. g \in Surjection(S, F)
  BY DEF Surjection
<1> HIDE DEF S, g, F
<1>3. IsFiniteSet(F) /\ Cardinality(F) <= Cardinality(S)
  BY <1>1, <1>2, FS_Surjection
<1>4. Cardinality(S) \in Nat /\ Cardinality(Starters) \in Nat /\ Cardinality(F) \in Nat
  BY <1>1, <1>3, StartersAssumption, FS_CardinalityType
<1>5. QED
  BY <1>1, <1>3, <1>4 DEF F

\* A set of ids is finite.
LEMMA IdsAreFinite ==
    ASSUME NEW n \in Nat, NEW R \in SUBSET (1..n)
    PROVE  IsFiniteSet(R)
<1>1. IsFiniteSet(1..n)
  BY FS_Interval
<1>2. QED
  BY <1>1, FS_Subset

\* Steps that leave the registry and the fate of its processes alone.
LEMMA QuietSteps ==
    ASSUME Next, ~(\E s \in Starters : TakeId(s) \/ StartCommand(s) \/ StartFails(s) \/ Register(s)),
           ~(\E p \in Ids : Wait(p))
    PROVE  UNCHANGED <<registry, started, exited>>
BY DEF Next, registry, system, Detach, GroupEnds, DescendantEnds, Kill, BeginClose, CloseOne,
       Terminated, Write, Read

\* Ids are numbered, and a process is started before it exits.
LEMMA RegistryStep == RegistryOK /\ Fresh /\ [Next]_vars => RegistryOK'
<1> SUFFICES ASSUME RegistryOK, Fresh, [Next]_vars PROVE RegistryOK'
  OBVIOUS
<1> USE SizesAssumption DEF RegistryOK, NoId
<1>1. ASSUME NEW s \in Starters, TakeId(s) PROVE RegistryOK'
  BY <1>1 DEF TakeId, Pruned, system
<1>2. ASSUME NEW s \in Starters, StartCommand(s) PROVE RegistryOK'
  <2>1. shellSeq \in Nat /\ starting[s] \in 0..shellSeq /\ starting[s] # 0
    BY <1>2 DEF StartCommand
  <2>2. starting[s] \in 1..shellSeq
    BY <2>1
  <2>3. QED
    BY <1>2, <2>2 DEF StartCommand, registry
<1>3. ASSUME NEW s \in Starters, StartFails(s) PROVE RegistryOK'
  <2>1. 0 \in 0..shellSeq
    OBVIOUS
  <2>2. starting' \in [Starters -> 0..shellSeq] /\ UNCHANGED <<shellSeq, shellProcesses, started, exited>>
    BY <1>3, <2>1 DEF StartFails, system
  <2>3. QED
    BY <2>2
<1>4. ASSUME NEW s \in Starters, Register(s) PROVE RegistryOK'
  <2>1. 0 \in 0..shellSeq /\ starting[s] \in 1..shellSeq
    BY <1>4 DEF Register
  <2>2. starting' \in [Starters -> 0..shellSeq] /\ UNCHANGED <<shellSeq, started, exited>>
    BY <1>4, <2>1 DEF Register, system
  <2>3. shellProcesses' \subseteq 1..shellSeq
    BY <1>4, <2>1 DEF Register
  <2>4. QED
    BY <2>2, <2>3
<1>5. ASSUME NEW p \in Ids, Wait(p) PROVE RegistryOK'
  BY <1>5 DEF Wait, registry
<1>6. CASE UNCHANGED <<registry, started, exited>>
  BY <1>6 DEF registry
<1>7. QED
  BY <1>1, <1>2, <1>3, <1>4, <1>5, <1>6, QuietSteps DEF vars, registry, system

\* An id that is taken is a new one.
LEMMA OwnStep == RegistryOK /\ OwnIds /\ Fresh /\ [Next]_vars => OwnIds' /\ Fresh'
<1> SUFFICES ASSUME RegistryOK, OwnIds, Fresh, [Next]_vars PROVE OwnIds' /\ Fresh'
  OBVIOUS
<1> USE SizesAssumption DEF RegistryOK, OwnIds, Fresh, NoId
<1>1. ASSUME NEW s \in Starters, TakeId(s) PROVE OwnIds' /\ Fresh'
  BY <1>1 DEF TakeId, Pruned, system
<1>2. ASSUME NEW s \in Starters, StartCommand(s) PROVE OwnIds' /\ Fresh'
  BY <1>2 DEF StartCommand, registry
<1>3. ASSUME NEW s \in Starters, StartFails(s) PROVE OwnIds' /\ Fresh'
  BY <1>3 DEF StartFails, system
<1>4. ASSUME NEW s \in Starters, Register(s) PROVE OwnIds' /\ Fresh'
  BY <1>4 DEF Register, system
<1>5. ASSUME NEW p \in Ids, Wait(p) PROVE OwnIds' /\ Fresh'
  BY <1>5 DEF Wait, registry, InFlight, Ids
<1>6. CASE UNCHANGED <<registry, started, exited>>
  BY <1>6 DEF registry
<1>7. QED
  BY <1>1, <1>2, <1>3, <1>4, <1>5, <1>6, QuietSteps DEF vars, registry, system

\* Only exited processes are pruned, and a started one is in flight until it is
\* registered.
LEMMA ListedStep == RegistryOK /\ Listed /\ [Next]_vars => Listed'
<1> SUFFICES ASSUME RegistryOK, Listed, [Next]_vars PROVE Listed'
  OBVIOUS
<1> USE DEF RegistryOK, Listed, NoId
<1>1. ASSUME NEW s \in Starters, TakeId(s) PROVE Listed'
  BY <1>1 DEF TakeId, Pruned, system
<1>2. ASSUME NEW s \in Starters, StartCommand(s) PROVE Listed'
  BY <1>2 DEF StartCommand, registry
<1>3. ASSUME NEW s \in Starters, StartFails(s) PROVE Listed'
  BY <1>3 DEF StartFails, system
<1>4. ASSUME NEW s \in Starters, Register(s) PROVE Listed'
  BY <1>4 DEF Register, system
<1>5. ASSUME NEW p \in Ids, Wait(p) PROVE Listed'
  BY <1>5 DEF Wait, registry
<1>6. CASE UNCHANGED <<registry, started, exited>>
  BY <1>6 DEF registry
<1>7. QED
  BY <1>1, <1>2, <1>3, <1>4, <1>5, <1>6, QuietSteps DEF vars, registry, system

\* The count of the live processes: it grows only where there was room for one more
\* than the starts that are under way.
LEMMA BoundStep == RegistryOK /\ RegistryOK' /\ OwnIds /\ Fresh /\ LiveBound /\ [Next]_vars => LiveBound'
<1> SUFFICES ASSUME RegistryOK, RegistryOK', OwnIds, Fresh, LiveBound, [Next]_vars PROVE LiveBound'
  OBVIOUS
<1>f. IsFiniteSet(Running) /\ IsFiniteSet(Running') /\ IsFiniteSet(InFlight)
  <2>1. shellSeq \in Nat /\ shellSeq' \in Nat
    BY SizesAssumption DEF RegistryOK
  <2>2. Running \in SUBSET (1..shellSeq) /\ Running' \in SUBSET (1..shellSeq')
    BY DEF RegistryOK, Running
  <2>3. IsFiniteSet(InFlight)
    BY FlightIsFinite DEF InFlight
  <2>4. QED
    BY <2>1, <2>2, <2>3, IdsAreFinite
<1>g. IsFiniteSet(InFlight') /\ Cardinality(InFlight') <= Cardinality(Starters)
  BY FlightIsFinite DEF InFlight
<1>n. /\ Cardinality(Running) \in Nat /\ Cardinality(Running') \in Nat
      /\ Cardinality(InFlight) \in Nat /\ Cardinality(InFlight') \in Nat
      /\ Cardinality(Starters) \in Nat /\ MaxLive \in Nat
  BY <1>f, <1>g, FS_CardinalityType, StartersAssumption
<1>1. ASSUME NEW s \in Starters, TakeId(s) PROVE LiveBound'
  <2>1. Running' = Running
    BY <1>1 DEF TakeId, Pruned, Running, system
  <2>2. CASE RoomToStart
    BY <2>1, <2>2, <1>n, <1>g DEF RoomToStart, LiveBound
  <2>3. CASE ~RoomToStart
    BY <2>1, <2>3, <1>1 DEF TakeId, LiveBound, InFlight
  <2>4. QED
    BY <2>2, <2>3
<1>2. ASSUME Running' \subseteq Running, InFlight' \subseteq InFlight PROVE LiveBound'
  <2>1. Cardinality(Running') <= Cardinality(Running) /\ Cardinality(InFlight') <= Cardinality(InFlight)
    BY <1>2, <1>f, FS_Subset
  <2>2. QED
    BY <2>1, <1>n DEF LiveBound
<1>3. ASSUME NEW s \in Starters, StartCommand(s) PROVE LiveBound'
  BY <1>2, <1>3 DEF StartCommand, registry, Running, InFlight
<1>4. ASSUME NEW s \in Starters, StartFails(s) PROVE LiveBound'
  BY <1>2, <1>4 DEF StartFails, system, Running, InFlight, RegistryOK
<1>5. ASSUME NEW s \in Starters, Register(s) PROVE LiveBound'
  <2> DEFINE id == starting[s]
  <2>1. id # NoId /\ id \notin Running /\ id \in InFlight
    BY <1>5 DEF Register, RegistryOK, Fresh, Running, InFlight, NoId
  <2>2. Running' = Running \union {id}
    BY <1>5 DEF Register, Running, system, Fresh
  <2>3. InFlight' = InFlight \ {id}
    BY <1>5, <2>1 DEF Register, InFlight, RegistryOK, OwnIds, NoId
  <2> HIDE DEF id
  <2>4. Cardinality(Running') = Cardinality(Running) + 1
    BY <2>1, <2>2, <1>f, FS_AddElement
  <2>5. Cardinality(InFlight') = Cardinality(InFlight) - 1
    BY <2>1, <2>3, <1>f, FS_RemoveElement
  <2>6. QED
    BY <2>4, <2>5, <1>n DEF LiveBound
<1>6. ASSUME NEW p \in Ids, Wait(p) PROVE LiveBound'
  BY <1>2, <1>6 DEF Wait, registry, Running, InFlight
<1>7. CASE UNCHANGED <<registry, started, exited>>
  BY <1>2, <1>7 DEF registry, Running, InFlight
<1>8. QED
  BY <1>1, <1>3, <1>4, <1>5, <1>6, <1>7, QuietSteps DEF vars, registry, system

LEMMA LiveInvariant == Spec => []LiveInv
<1>1. Init => LiveInv
  <2> SUFFICES ASSUME Init PROVE LiveInv
    OBVIOUS
  <2>1. RegistryOK
    BY SizesAssumption DEF Init, RegistryOK, NoId
  <2>2. OwnIds /\ Fresh /\ Listed
    BY DEF Init, OwnIds, Fresh, Listed, NoId
  <2>3. LiveBound
    <3>1. Running = {} /\ InFlight = {}
      BY DEF Init, Running, InFlight
    <3>2. Cardinality(Starters) \in Nat /\ MaxLive \in Nat
      BY StartersAssumption, FS_CardinalityType
    <3>3. Cardinality(Running) = 0 /\ Cardinality(InFlight) = 0
      BY <3>1, FS_EmptySet
    <3>4. Cardinality(Starters) # 0
      BY StartersAssumption, FS_EmptySet
    <3>5. QED
      BY <3>2, <3>3, <3>4 DEF LiveBound
  <2>4. QED
    BY <2>1, <2>2, <2>3 DEF LiveInv
<1>2. LiveInv /\ [Next]_vars => LiveInv'
  BY RegistryStep, OwnStep, ListedStep, BoundStep DEF LiveInv
<1>3. QED
  BY <1>1, <1>2, PTL DEF Spec

\* However many tool calls start processes at a time, maxManagedShellProcesses is
\* passed by fewer than there are of them (startManagedShell).
THEOREM LiveIsBounded == Spec => []LiveBound
BY LiveInvariant, PTL DEF LiveInv

\* Whatever is pruned, started or killed, a process that lives can be read and killed
\* (pruneManagedShellLocked, startManagedShell).
THEOREM LiveIsListed == Spec => []LiveStaysListed
<1>1. LiveInv => LiveStaysListed
  BY DEF LiveInv, RegistryOK, Listed, LiveStaysListed, InFlight, NoId
<1>2. QED
  BY <1>1, LiveInvariant, PTL

-----------------------------------------------------------------------------
\* What a write of n bytes keeps of them and of bytes b+1 to x: the last ones, and as
\* many as there is room for.
LEMMA Kept ==
    ASSUME NEW b \in Nat, NEW x \in Nat, NEW n \in Nat \ {0}, b <= x,
           b = 0 \/ b + MaxBuffer = x
    PROVE  \A all, drop :
               all = Positions(b + 1, x) \o Positions(x + 1, x + n) /\ drop = Larger(Len(all) - MaxBuffer, 0)
               => /\ drop \in Nat /\ b + drop <= x + n
                  /\ Part(all, drop + 1, Len(all)) = Positions(b + drop + 1, x + n)
                  /\ b + drop = 0 \/ b + drop + MaxBuffer = x + n
<1>0. SUFFICES ASSUME NEW all, NEW drop,
                      all = Positions(b + 1, x) \o Positions(x + 1, x + n),
                      drop = Larger(Len(all) - MaxBuffer, 0)
               PROVE  /\ drop \in Nat /\ b + drop <= x + n
                      /\ Part(all, drop + 1, Len(all)) = Positions(b + drop + 1, x + n)
                      /\ b + drop = 0 \/ b + drop + MaxBuffer = x + n
  OBVIOUS
<1> DEFINE last == x + n
           first == b + 1
<1>1. last \in Nat /\ first \in Nat \ {0} /\ first <= x + 1 /\ x <= last /\ first <= last + 1
  OBVIOUS
<1>2. all = Positions(first, last)
  <2>1. all = Positions(first, x) \o Positions(x + 1, last)
    BY <1>0
  <2> HIDE DEF first, last
  <2>2. QED
    BY <2>1, <1>1, PositionsJoin
<1>3. Len(all) = last + 1 - first
  <2> HIDE DEF first, last
  <2>1. QED
    BY <1>1, <1>2, PositionsAre
<1>4. Len(all) = x + n - b
  BY <1>3
<1>5. drop \in Nat /\ drop <= Len(all) /\ (drop = 0 \/ drop = Len(all) - MaxBuffer)
      /\ Len(all) - MaxBuffer <= drop
  BY <1>0, <1>4, SizesAssumption DEF Larger
<1>6. Part(all, drop + 1, Len(all)) = Positions(first + (drop + 1) - 1, first + Len(all) - 1)
  <2> DEFINE m == drop + 1
             l == Len(all)
  <2>1. /\ first \in Nat \ {0} /\ last \in Nat /\ m \in Nat \ {0} /\ l \in Nat
        /\ first <= last + 1 /\ l <= last + 1 - first /\ m <= l + 1
    BY <1>3, <1>4, <1>5
  <2> HIDE DEF m, l, first, last
  <2>2. Part(Positions(first, last), m, l) = Positions(first + m - 1, first + l - 1)
    BY <2>1, PositionsPart
  <2>3. QED
    BY <2>2, <1>2 DEF m, l
<1>7. first + (drop + 1) - 1 = b + drop + 1 /\ first + Len(all) - 1 = x + n
  BY <1>4, <1>5
<1>8. b + drop = 0 \/ b + drop + MaxBuffer = x + n
  BY <1>4, <1>5, SizesAssumption
<1>9. QED
  BY <1>4, <1>5, <1>6, <1>7, <1>8

\* A write keeps the last bytes that there is room for.
LEMMA WriteHolds ==
    ASSUME BytesOK, NEW p \in Ids, NEW n \in 1..MaxBytes, Write(p, n)
    PROVE  BytesOK'
<1>1. Held(p) /\ n \in Nat \ {0}
  BY SizesAssumption DEF BytesOK
<1>9. /\ DOMAIN buf = Ids /\ DOMAIN base = Ids /\ DOMAIN next = Ids
      /\ DOMAIN cursor = Ids /\ DOMAIN got = Ids /\ DOMAIN dropped = Ids
      /\ \A q \in Ids : Held(q) /\ Accounted(q)
  BY DEF BytesOK
<1> DEFINE all == buf[p] \o Positions(next[p] + 1, next[p] + n)
           drop == Larger(Len(all) - MaxBuffer, 0)
<1>6. /\ next' = [next EXCEPT ![p] = next[p] + n]
      /\ buf' = [buf EXCEPT ![p] = SubSeq(all, drop + 1, Len(all))]
      /\ base' = [base EXCEPT ![p] = base[p] + drop]
      /\ UNCHANGED <<cursor, got, dropped>>
  BY DEF Write, reader
<1>2. all = Positions(base[p] + 1, next[p]) \o Positions(next[p] + 1, next[p] + n)
  BY <1>1 DEF Held
<1>3. base[p] \in Nat /\ next[p] \in Nat /\ base[p] <= next[p]
      /\ (base[p] = 0 \/ base[p] + MaxBuffer = next[p])
  BY <1>1 DEF Held
<1>4. /\ drop \in Nat /\ base[p] + drop <= next[p] + n
      /\ SubSeq(all, drop + 1, Len(all)) = Positions(base[p] + drop + 1, next[p] + n)
      /\ base[p] + drop = 0 \/ base[p] + drop + MaxBuffer = next[p] + n
  <2> DEFINE b == base[p]
             x == next[p]
  <2>1. drop = Larger(Len(all) - MaxBuffer, 0)
    OBVIOUS
  <2>2. b \in Nat /\ x \in Nat /\ b <= x /\ (b = 0 \/ b + MaxBuffer = x)
    BY <1>3
  <2>3. all = Positions(b + 1, x) \o Positions(x + 1, x + n)
    BY <1>2
  <2> HIDE DEF all, drop, b, x
  <2>4. \A al, dr : al = Positions(b + 1, x) \o Positions(x + 1, x + n) /\ dr = Larger(Len(al) - MaxBuffer, 0)
                    => /\ dr \in Nat /\ b + dr <= x + n
                       /\ Part(al, dr + 1, Len(al)) = Positions(b + dr + 1, x + n)
                       /\ b + dr = 0 \/ b + dr + MaxBuffer = x + n
    BY <1>1, <2>2, Kept, ZenonT(30)
  <2>5. /\ drop \in Nat /\ b + drop <= x + n
        /\ Part(all, drop + 1, Len(all)) = Positions(b + drop + 1, x + n)
        /\ b + drop = 0 \/ b + drop + MaxBuffer = x + n
    BY <2>1, <2>3, <2>4
  <2>6. QED
    BY <2>5 DEF b, x, Part
<1> HIDE DEF all, drop
<1>d. DOMAIN buf' = Ids /\ DOMAIN base' = Ids /\ DOMAIN next' = Ids
  BY <1>6, <1>9
<1>h. buf'[p] = Positions(base'[p] + 1, next'[p]) /\ base'[p] = base[p] + drop
      /\ next'[p] = next[p] + n
  BY <1>4, <1>6, <1>9
<1>10. ASSUME NEW q \in Ids PROVE Held(q)' /\ Accounted(q)'
  <2>1. CASE q = p
    <3>1. Held(p)'
      <4>1. base'[p] \in Nat /\ next'[p] \in Nat /\ base'[p] <= next'[p]
            /\ (base'[p] = 0 \/ base'[p] + MaxBuffer = next'[p])
        BY <1>h, <1>1, <1>3, <1>4, SMTT(30)
      <4>2. QED
        BY <4>1, <1>h DEF Held
    <3>2. Accounted(p)'
      <4>1. Accounted(p)
        BY <1>9
      <4>2. cursor[p] \in Nat /\ cursor[p] <= next[p] /\ next'[p] = next[p] + n
        BY <4>1, <1>h DEF Accounted
      <4>3. /\ cursor[p] <= next'[p]
            /\ \A b \in 1..cursor[p] : b + MaxBuffer <= next[p] => b + MaxBuffer <= next'[p]
        BY <4>2, <1>1, <1>3, SizesAssumption
      <4>4. QED
        BY <4>1, <4>3, <1>6 DEF Accounted
    <3>3. QED
      BY <2>1, <3>1, <3>2
  <2>2. CASE q # p
    <3>1. buf'[q] = buf[q] /\ base'[q] = base[q] /\ next'[q] = next[q]
      BY <2>2, <1>6, <1>9
    <3>2. QED
      BY <3>1, <1>6, <1>9 DEF Held, Accounted
  <2>3. QED
    BY <2>1, <2>2
<1>11. QED
  BY <1>6, <1>9, <1>d, <1>10 DEF BytesOK

\* What a read takes, from cursor c, out of a buffer with bytes b+1 to x.
LEMMA Taken ==
    ASSUME NEW b \in Nat, NEW x \in Nat, NEW c \in Nat, b <= x, c <= x
    PROVE  \A s, rest, k :
               /\ s = Larger(c, b) /\ rest = Part(Positions(b + 1, x), s - b + 1, x - b)
               /\ k = IF Len(rest) > MaxRead THEN MaxRead ELSE Len(rest)
               => /\ s \in Nat /\ c <= s /\ (s = c \/ s = b)
                  /\ k \in Nat /\ s + k <= x
                  /\ Part(rest, 1, k) = Positions(s + 1, s + k)
<1>0. SUFFICES ASSUME NEW s, NEW rest, NEW k,
                      s = Larger(c, b), rest = Part(Positions(b + 1, x), s - b + 1, x - b),
                      k = IF Len(rest) > MaxRead THEN MaxRead ELSE Len(rest)
               PROVE  /\ s \in Nat /\ c <= s /\ (s = c \/ s = b)
                      /\ k \in Nat /\ s + k <= x
                      /\ Part(rest, 1, k) = Positions(s + 1, s + k)
  OBVIOUS
<1>1. s \in Nat /\ c <= s /\ b <= s /\ s <= x /\ (s = c \/ s = b)
  BY <1>0 DEF Larger
<1>2. rest = Positions(s + 1, x)
  <2> DEFINE a == b + 1
             m == s - b + 1
             l == x - b
  <2>1. a \in Nat \ {0} /\ m \in Nat \ {0} /\ l \in Nat /\ a <= x + 1 /\ l <= x + 1 - a /\ m <= l + 1
    BY <1>1
  <2>2. a + m - 1 = s + 1 /\ a + l - 1 = x
    BY <1>1
  <2>3. rest = Part(Positions(a, x), m, l)
    BY <1>0
  <2> HIDE DEF a, m, l
  <2>4. Part(Positions(a, x), m, l) = Positions(a + m - 1, a + l - 1)
    BY <2>1, PositionsPart
  <2>5. QED
    BY <2>2, <2>3, <2>4
<1> DEFINE f == s + 1
<1>3. f \in Nat \ {0} /\ f <= x + 1
  BY <1>1
<1>4. Len(rest) = x + 1 - f
  <2> HIDE DEF f
  <2>1. rest = Positions(f, x)
    BY <1>2 DEF f
  <2>2. QED
    BY <2>1, <1>3, PositionsAre
<1>5. k \in Nat /\ k <= x + 1 - f
  <2> DEFINE r == Len(rest)
  <2>1. r \in Nat
    BY <1>1, <1>4
  <2>2. k = IF r > MaxRead THEN MaxRead ELSE r
    BY <1>0
  <2> HIDE DEF r
  <2>3. k \in Nat /\ k <= r
    BY <2>1, <2>2, SizesAssumption
  <2>4. QED
    BY <1>4, <2>3 DEF r
<1>6. Part(rest, 1, k) = Positions(f + 1 - 1, f + k - 1)
  <2> HIDE DEF f
  <2>1. rest = Positions(f, x)
    BY <1>2 DEF f
  <2>2. 1 \in Nat \ {0} /\ 1 <= k + 1
    BY <1>5
  <2>3. Part(Positions(f, x), 1, k) = Positions(f + 1 - 1, f + k - 1)
    BY <1>3, <1>5, <2>2, PositionsPart
  <2>4. QED
    BY <2>1, <2>3
<1>7. f + 1 - 1 = s + 1 /\ f + k - 1 = s + k
  BY <1>1, <1>5
<1>8. QED
  BY <1>1, <1>5, <1>6, <1>7

\* What a reader has, with bytes s+1 to s+k after those up to its cursor c.
LEMMA Extended ==
    ASSUME NEW g, NEW c \in Nat, NEW s \in Nat, NEW k \in Nat, c <= s, Ordered(g, c)
    PROVE  \A new : new = g \o Positions(s + 1, s + k) => Ordered(new, s + k) /\ Appended(new, g, s, k)
<1>g. /\ g \in Seq(Nat)
      /\ \A i \in 1..Len(g) : g[i] <= c
      /\ \A i, j \in 1..Len(g) : i < j => g[i] < g[j]
  BY DEF Ordered
<1>0. SUFFICES ASSUME NEW new, new = g \o Positions(s + 1, s + k)
               PROVE  /\ new \in Seq(Nat) /\ Len(new) = Len(g) + k
                      /\ \A i \in 1..Len(g) : new[i] = g[i]
                      /\ \A i \in 1..k : new[Len(g) + i] = s + i
                      /\ \A i \in 1..Len(new) : new[i] <= s + k
                      /\ \A i, j \in 1..Len(new) : i < j => new[i] < new[j]
  BY DEF Ordered, Appended
<1> DEFINE out == Positions(s + 1, s + k)
           n == Len(g)
           f == s + 1
           l == s + k
<1>1. n \in Nat /\ \A i \in 1..n : g[i] \in Nat
  BY <1>g, LenProperties, ElementOfSeq
<1>2. out \in Seq(Nat) /\ Len(out) = k /\ \A i \in 1..k : out[i] = s + i
  <2>1. f \in Nat \ {0} /\ l \in Nat /\ f <= l + 1 /\ l + 1 - f = k
    OBVIOUS
  <2>2. out = Positions(f, l)
    OBVIOUS
  <2>3. \A i \in 1..k : f + i - 1 = s + i
    OBVIOUS
  <2> HIDE DEF f, l, out
  <2>4. out \in Seq(Nat) /\ Len(out) = l + 1 - f /\ \A i \in 1..(l + 1 - f) : out[i] = f + i - 1
    BY <2>1, <2>2, PositionsAre
  <2>5. QED
    BY <2>1, <2>3, <2>4
<1>3. new = g \o out
  BY <1>0
<1> HIDE DEF out
<1>4. new \in Seq(Nat) /\ Len(new) = n + k
      /\ \A i \in 1..(n + k) : new[i] = IF i <= n THEN g[i] ELSE out[i - n]
  BY <1>g, <1>2, <1>3, ConcatProperties
<1>5. \A i \in 1..n : new[i] = g[i] /\ new[i] \in Nat /\ new[i] <= c
  BY <1>g, <1>1, <1>4
<1>o. \A i \in 1..n, j \in 1..n : i < j => g[i] < g[j]
  BY <1>g
<1> HIDE DEF n
<1>6. \A i \in (n + 1)..(n + k) : new[i] = s + (i - n)
  <2>1. ASSUME NEW i \in (n + 1)..(n + k) PROVE new[i] = s + (i - n)
    <3>1. i \in 1..(n + k) /\ ~(i <= n) /\ i - n \in 1..k
      BY <1>1
    <3>2. QED
      BY <3>1, <1>2, <1>4
  <2>2. QED
    BY <2>1
<1>7. \A i \in 1..k : new[n + i] = s + i
  <2>1. ASSUME NEW i \in 1..k PROVE new[n + i] = s + i
    <3>1. n + i \in (n + 1)..(n + k) /\ (n + i) - n = i
      BY <1>1
    <3>2. QED
      BY <3>1, <1>6
  <2>2. QED
    BY <2>1
<1>8. ASSUME NEW i \in 1..(n + k) PROVE new[i] <= s + k
  <2>1. CASE i \in 1..n
    BY <2>1, <1>5
  <2>2. CASE i \in (n + 1)..(n + k)
    BY <2>2, <1>1, <1>6
  <2>3. QED
    BY <2>1, <2>2, <1>1
<1>9. ASSUME NEW i \in 1..(n + k), NEW j \in 1..(n + k), i < j PROVE new[i] < new[j]
  <2>1. CASE i \in 1..n /\ j \in 1..n
    BY <2>1, <1>5, <1>9, <1>o
  <2>2. CASE i \in 1..n /\ j \in (n + 1)..(n + k)
    <3>1. new[j] = s + (j - n) /\ j - n \in Nat \ {0}
      BY <2>2, <1>1, <1>6
    <3>2. QED
      BY <2>2, <3>1, <1>5
  <2>3. CASE i \in (n + 1)..(n + k) /\ j \in (n + 1)..(n + k)
    BY <2>3, <1>1, <1>6, <1>9
  <2>4. QED
    BY <2>1, <2>2, <2>3, <1>1, <1>9
<1>10. QED
  BY <1>4, <1>5, <1>7, <1>8, <1>9 DEF n

\* A read hands out the bytes from its cursor on, or from where the buffer begins.
LEMMA ReadAccounts ==
    ASSUME BytesOK, NEW p \in Ids, Read(p)
    PROVE  BytesOK'
<1>9. /\ DOMAIN buf = Ids /\ DOMAIN base = Ids /\ DOMAIN next = Ids
      /\ DOMAIN cursor = Ids /\ DOMAIN got = Ids /\ DOMAIN dropped = Ids
      /\ \A q \in Ids : Held(q) /\ Accounted(q)
  BY DEF BytesOK
<1>1. base[p] \in Nat /\ next[p] \in Nat /\ base[p] <= next[p]
      /\ buf[p] = Positions(base[p] + 1, next[p])
      /\ (base[p] = 0 \/ base[p] + MaxBuffer = next[p])
  BY <1>9 DEF Held
<1>2. /\ cursor[p] \in Nat /\ dropped[p] \in Nat /\ got[p] \in Seq(Nat) /\ cursor[p] <= next[p]
      /\ Len(got[p]) + dropped[p] = cursor[p]
      /\ \A i \in 1..Len(got[p]) : got[p][i] <= cursor[p]
      /\ \A i, j \in 1..Len(got[p]) : i < j => got[p][i] < got[p][j]
      /\ \A b \in 1..cursor[p] : (\E i \in 1..Len(got[p]) : got[p][i] = b) \/ b + MaxBuffer <= next[p]
  BY <1>9 DEF Accounted
<1> DEFINE s == Start(p)
           rest == SubSeq(buf[p], Offset(p) + 1, Len(buf[p]))
           k == IF Len(rest) > MaxRead THEN MaxRead ELSE Len(rest)
           out == SubSeq(rest, 1, k)
           new == got[p] \o out
           n == Len(got[p])
<1>8. /\ got' = [got EXCEPT ![p] = new]
      /\ cursor' = [cursor EXCEPT ![p] = s + Len(out)]
      /\ dropped' = [dropped EXCEPT ![p] = dropped[p] + s - cursor[p]]
      /\ UNCHANGED <<buf, base, next>>
  BY DEF Read, buffer
<1>3. s = Larger(cursor[p], base[p]) /\ rest = SubSeq(Positions(base[p] + 1, next[p]), s - base[p] + 1, next[p] - base[p])
  <2>1. base[p] + 1 \in Nat \ {0} /\ base[p] + 1 <= next[p] + 1
    BY <1>1
  <2>2. Len(Positions(base[p] + 1, next[p])) = next[p] + 1 - (base[p] + 1)
    BY <1>1, <2>1, PositionsAre
  <2>3. Len(buf[p]) = next[p] - base[p]
    BY <1>1, <2>2
  <2>4. QED
    BY <1>1, <2>3 DEF Start, Offset
<1>4. k = IF Len(rest) > MaxRead THEN MaxRead ELSE Len(rest)
  OBVIOUS
<1>5. out = SubSeq(rest, 1, k) /\ new = got[p] \o out
  OBVIOUS
<1> HIDE DEF s, rest, k, out, new
<1>6. /\ s \in Nat /\ cursor[p] <= s /\ (s = cursor[p] \/ s = base[p])
      /\ k \in Nat /\ s + k <= next[p] /\ out = Positions(s + 1, s + k)
  <2> DEFINE b == base[p]
             x == next[p]
             c == cursor[p]
  <2>1. b \in Nat /\ x \in Nat /\ c \in Nat /\ b <= x /\ c <= x
    BY <1>1, <1>2
  <2>2. s = Larger(c, b) /\ rest = Part(Positions(b + 1, x), s - b + 1, x - b)
    BY <1>3 DEF Part
  <2> HIDE DEF b, x, c
  <2>3. \A t, r, l :
            /\ t = Larger(c, b) /\ r = Part(Positions(b + 1, x), t - b + 1, x - b)
            /\ l = IF Len(r) > MaxRead THEN MaxRead ELSE Len(r)
            => /\ t \in Nat /\ c <= t /\ (t = c \/ t = b)
               /\ l \in Nat /\ t + l <= x
               /\ Part(r, 1, l) = Positions(t + 1, t + l)
    BY <2>1, Taken
  <2>4. /\ s \in Nat /\ c <= s /\ (s = c \/ s = b)
        /\ k \in Nat /\ s + k <= x /\ Part(rest, 1, k) = Positions(s + 1, s + k)
    BY <2>2, <2>3, <1>4
  <2>5. QED
    BY <2>4, <1>5 DEF b, x, c, Part
<1>7. /\ new \in Seq(Nat) /\ Len(new) = n + k
      /\ \A i \in 1..n : new[i] = got[p][i]
      /\ \A i \in 1..k : new[n + i] = s + i
      /\ \A i \in 1..Len(new) : new[i] <= s + k
      /\ \A i, j \in 1..Len(new) : i < j => new[i] < new[j]
  <2> DEFINE g == got[p]
             c == cursor[p]
  <2>1. c \in Nat /\ s \in Nat /\ k \in Nat /\ c <= s /\ Ordered(g, c)
    BY <1>2, <1>6 DEF Ordered
  <2>2. new = g \o Positions(s + 1, s + k)
    BY <1>5, <1>6
  <2> HIDE DEF g, c
  <2>3. Ordered(new, s + k) /\ Appended(new, g, s, k)
    BY <2>1, <2>2, Extended
  <2>4. QED
    BY <2>3 DEF g, n, Ordered, Appended
<1>l. Len(out) = k
  <2>1. s + 1 \in Nat \ {0} /\ s + k \in Nat /\ s + 1 <= s + k + 1 /\ s + k + 1 - (s + 1) = k
    BY <1>6
  <2>2. Len(Positions(s + 1, s + k)) = s + k + 1 - (s + 1)
    BY <2>1, PositionsAre
  <2>3. QED
    BY <1>6, <2>1, <2>2
<1>14. got'[p] = new /\ cursor'[p] = s + k /\ dropped'[p] = dropped[p] + s - cursor[p]
  BY <1>8, <1>9, <1>l
<1>n. n \in Nat /\ n + dropped[p] = cursor[p]
  BY <1>2, LenProperties
<1>o. \A b \in 1..cursor[p] : (\E i \in 1..n : got[p][i] = b) \/ b + MaxBuffer <= next[p]
  BY <1>2
<1> HIDE DEF n
<1>17. ASSUME NEW b \in 1..(s + k)
       PROVE  (\E i \in 1..(n + k) : new[i] = b) \/ b + MaxBuffer <= next[p]
  <2>0. b \in Nat \ {0} /\ b <= s + k
    BY <1>6
  <2>1. CASE b <= cursor[p]
    <3>1. b \in 1..cursor[p]
      BY <2>0, <2>1, <1>2
    <3>2. ASSUME NEW i \in 1..n, got[p][i] = b PROVE \E j \in 1..(n + k) : new[j] = b
      <4>1. i \in 1..(n + k)
        BY <1>6, <1>n
      <4>2. new[i] = b
        BY <3>2, <1>7
      <4>3. QED
        BY <4>1, <4>2
    <3>3. QED
      BY <3>1, <3>2, <1>o
  <2>2. CASE b > cursor[p] /\ b <= s
    <3>1. s = base[p] /\ base[p] + MaxBuffer = next[p]
      BY <2>0, <2>2, <1>1, <1>2, <1>6
    <3>2. QED
      BY <3>1, <2>0, <2>2, <1>1, SizesAssumption
  <2>3. CASE b > s
    <3>1. b - s \in 1..k /\ n + (b - s) \in 1..(n + k) /\ s + (b - s) = b
      BY <2>0, <2>3, <1>6, <1>n
    <3>2. new[n + (b - s)] = b
      BY <3>1, <1>7
    <3>3. QED
      BY <3>1, <3>2
  <2>4. QED
    BY <2>0, <2>1, <2>2, <2>3, <1>2, <1>6
<1>18. Accounted(p)'
  <2>1. s + k \in Nat /\ dropped[p] + s - cursor[p] \in Nat
        /\ n + k + (dropped[p] + s - cursor[p]) = s + k
    <3> DEFINE c == cursor[p]
               d == dropped[p]
    <3>1. c \in Nat /\ d \in Nat /\ s \in Nat /\ c <= s /\ k \in Nat /\ n \in Nat /\ n + d = c
      BY <1>2, <1>6, <1>n
    <3> HIDE DEF c, d
    <3>2. s + k \in Nat /\ d + s - c \in Nat /\ n + k + (d + s - c) = s + k
      BY <3>1
    <3>3. QED
      BY <3>2 DEF c, d
  <2>2. cursor'[p] \in Nat /\ dropped'[p] \in Nat /\ got'[p] \in Seq(Nat)
        /\ cursor'[p] <= next'[p] /\ Len(got'[p]) + dropped'[p] = cursor'[p]
    BY <2>1, <1>6, <1>7, <1>8, <1>14
  <2>3. \A b \in 1..cursor'[p] : (\E i \in 1..Len(got'[p]) : got'[p][i] = b) \/ b + MaxBuffer <= next'[p]
    BY <1>7, <1>8, <1>14, <1>17
  <2>4. QED
    BY <2>2, <2>3, <1>7, <1>14 DEF Accounted
<1>19. ASSUME NEW q \in Ids PROVE Held(q)' /\ Accounted(q)'
  <2>1. Held(q)'
    BY <1>8, <1>9 DEF Held
  <2>2. CASE q # p
    <3>0. Accounted(q) /\ next'[q] = next[q]
      BY <1>8, <1>9
    <3>1. got'[q] = got[q] /\ cursor'[q] = cursor[q] /\ dropped'[q] = dropped[q]
      BY <2>2, <1>8, <1>9
    <3>2. /\ cursor'[q] \in Nat /\ dropped'[q] \in Nat /\ got'[q] \in Seq(Nat)
          /\ cursor'[q] <= next'[q] /\ Len(got'[q]) + dropped'[q] = cursor'[q]
      BY <3>0, <3>1 DEF Accounted
    <3>3. /\ \A i \in 1..Len(got'[q]) : got'[q][i] <= cursor'[q]
          /\ \A i, j \in 1..Len(got'[q]) : i < j => got'[q][i] < got'[q][j]
      BY <3>0, <3>1 DEF Accounted
    <3>4. \A b \in 1..cursor'[q] :
              (\E i \in 1..Len(got'[q]) : got'[q][i] = b) \/ b + MaxBuffer <= next'[q]
      BY <3>0, <3>1 DEF Accounted
    <3>5. QED
      BY <2>1, <3>2, <3>3, <3>4 DEF Accounted
  <2>3. QED
    BY <2>1, <2>2, <1>18
<1>20. QED
  BY <1>8, <1>9, <1>19 DEF BytesOK

LEMMA BytesInvariant == Spec => []BytesOK
<1>1. Init => BytesOK
  <2> SUFFICES ASSUME Init PROVE BytesOK
    OBVIOUS
  <2>1. Positions(1, 0) = <<>>
    BY DEF Positions
  <2>2. Len(<<>>) = 0 /\ <<>> \in Seq(Nat)
    BY EmptySeq
  <2>3. /\ DOMAIN buf = Ids /\ DOMAIN base = Ids /\ DOMAIN next = Ids
        /\ DOMAIN cursor = Ids /\ DOMAIN got = Ids /\ DOMAIN dropped = Ids
        /\ \A p \in Ids : buf[p] = <<>> /\ base[p] = 0 /\ next[p] = 0 /\ cursor[p] = 0
                          /\ got[p] = <<>> /\ dropped[p] = 0
    BY DEF Init
  <2>4. ASSUME NEW p \in Ids PROVE Held(p) /\ Accounted(p)
    <3>1. Held(p)
      BY <2>1, <2>3 DEF Held
    <3>2. 1..0 = {}
      OBVIOUS
    <3>3. cursor[p] = 0 /\ dropped[p] = 0 /\ next[p] = 0 /\ got[p] \in Seq(Nat) /\ Len(got[p]) = 0
      BY <2>2, <2>3
    <3>4. Accounted(p)
      BY <3>2, <3>3 DEF Accounted
    <3>5. QED
      BY <3>1, <3>4
  <2>5. QED
    BY <2>3, <2>4 DEF BytesOK
<1>2. BytesOK /\ [Next]_vars => BytesOK'
  <2> SUFFICES ASSUME BytesOK, [Next]_vars PROVE BytesOK'
    OBVIOUS
  <2>1. CASE UNCHANGED <<buffer, reader>>
    BY <2>1 DEF buffer, reader, BytesOK, Held, Accounted
  <2>2. CASE UNCHANGED vars
    BY <2>1, <2>2 DEF vars
  <2>3. CASE Next
    <3>1. CASE \E p \in Ids, n \in 1..MaxBytes : Write(p, n)
      BY <3>1, WriteHolds
    <3>2. CASE \E p \in Ids : Read(p)
      BY <3>2, ReadAccounts
    <3>3. CASE ~(\E p \in Ids, n \in 1..MaxBytes : Write(p, n)) /\ ~(\E p \in Ids : Read(p))
      BY <2>1, <2>3, <3>3 DEF Next, TakeId, StartCommand, StartFails, Register, Wait, Detach,
         GroupEnds, DescendantEnds, Kill, BeginClose, CloseOne, Terminated
    <3>4. QED
      BY <3>1, <3>2, <3>3
  <2>4. QED
    BY <2>2, <2>3
<1>3. QED
  BY <1>1, <1>2, PTL DEF Spec

\* A reader gets every byte once and in order, but for those it is told were dropped
\* (shellOutputBuffer, handleShellOutput).
THEOREM ReaderMissesNothing == Spec => []ReadsAccounted
<1>1. BytesOK => ReadsAccounted
  <2> SUFFICES ASSUME BytesOK, NEW p \in Ids
               PROVE  /\ Len(got[p]) + dropped[p] = cursor[p]
                      /\ \A i, j \in DOMAIN got[p] : i < j => got[p][i] < got[p][j]
                      /\ \A b \in 1..cursor[p] : b \in ToSet(got[p]) \/ b + MaxBuffer <= next[p]
    BY DEF ReadsAccounted
  <2>1. Accounted(p)
    BY DEF BytesOK
  <2>2. DOMAIN got[p] = 1..Len(got[p])
    BY <2>1, LenProperties DEF Accounted
  <2>3. ToSet(got[p]) = {got[p][i] : i \in 1..Len(got[p])}
    BY <2>2 DEF ToSet
  <2>4. QED
    BY <2>1, <2>2, <2>3 DEF Accounted
<1>2. QED
  BY <1>1, BytesInvariant, PTL

-----------------------------------------------------------------------------
\* The types that neither the registry's invariant nor the buffer's gives.
OfIds(f) == f = [p \in Ids |-> f[p]]

OthersOK ==
    /\ inside \subseteq started /\ outside \subseteq started
    /\ term \in [Terminators -> [at : {"idle", "grace"}, id : Ids \union {NoId}]]
    /\ toClose \subseteq Ids
    /\ OfIds(buf) /\ OfIds(base) /\ OfIds(next) /\ OfIds(cursor) /\ OfIds(got) /\ OfIds(dropped)

LEMMA StaysOfIds ==
    ASSUME NEW f, OfIds(f), NEW p \in Ids, NEW e
    PROVE  OfIds([f EXCEPT ![p] = e])
BY DEF OfIds

LEMMA OthersStep == RegistryOK /\ OthersOK /\ [Next]_vars => OthersOK'
<1> SUFFICES ASSUME RegistryOK, OthersOK, [Next]_vars PROVE OthersOK'
  OBVIOUS
<1>1. shellProcesses \subseteq Ids
  <2>1. \A p \in 1..shellSeq : p \in Ids
    BY SizesAssumption DEF RegistryOK, Ids
  <2> QED
    BY <2>1 DEF RegistryOK
<1>2. inside' \subseteq started' /\ outside' \subseteq started'
  <2>1. CASE UNCHANGED <<started, inside, outside>>
    BY <2>1 DEF OthersOK
  <2>2. ASSUME NEW x, started' = started \union {x}, inside' = inside \union {x}, outside' = outside
        PROVE  inside' \subseteq started' /\ outside' \subseteq started'
    BY <2>2 DEF OthersOK
  <2>3. ASSUME started' = started, inside' \subseteq inside, outside' \subseteq outside \union inside
        PROVE  inside' \subseteq started' /\ outside' \subseteq started'
    BY <2>3 DEF OthersOK
  <2>4. ASSUME NEW t \in Terminators, Terminated(t)
        PROVE  started' = started /\ inside' \subseteq inside /\ outside' = outside
    BY <2>4 DEF Terminated, Killed
  <2>5. ASSUME NEW r \in Ids, Detach(r) \/ GroupEnds(r) \/ DescendantEnds(r)
        PROVE  started' = started /\ inside' \subseteq inside /\ outside' \subseteq outside \union inside
    BY <2>5 DEF Detach, GroupEnds, DescendantEnds
  <2>6. ASSUME NEW r \in Starters, StartCommand(r)
        PROVE  started' = started \union {starting[r]} /\ inside' = inside \union {starting[r]}
               /\ outside' = outside
    BY <2>6 DEF StartCommand
  <2>7. CASE \/ \E r \in Starters : TakeId(r) \/ StartFails(r) \/ Register(r)
             \/ \E r \in Ids : Wait(r) \/ CloseOne(r) \/ Read(r)
             \/ \E k \in Killers, r \in Ids : Kill(k, r)
             \/ BeginClose
             \/ \E r \in Ids, n \in 1..MaxBytes : Write(r, n)
             \/ UNCHANGED vars
    BY <2>1, <2>7 DEF vars, system, TakeId, StartFails, Register, Wait, Kill, BeginClose, CloseOne, Write, Read
  <2> QED
    BY <2>2, <2>3, <2>4, <2>5, <2>6, <2>7 DEF Next
<1>5. OfIds(buf') /\ OfIds(base') /\ OfIds(next') /\ OfIds(cursor') /\ OfIds(got') /\ OfIds(dropped')
  <2>0. OfIds(buf) /\ OfIds(base) /\ OfIds(next) /\ OfIds(cursor) /\ OfIds(got) /\ OfIds(dropped)
    BY DEF OthersOK
  <2>1. CASE UNCHANGED <<buffer, reader>>
    BY <2>0, <2>1 DEF buffer, reader
  <2>2. ASSUME NEW r \in Ids, NEW n \in 1..MaxBytes, Write(r, n)
        PROVE  OfIds(buf') /\ OfIds(base') /\ OfIds(next') /\ OfIds(cursor') /\ OfIds(got') /\ OfIds(dropped')
    BY <2>0, <2>2, StaysOfIds DEF Write, reader
  <2>3. ASSUME NEW r \in Ids, Read(r)
        PROVE  OfIds(buf') /\ OfIds(base') /\ OfIds(next') /\ OfIds(cursor') /\ OfIds(got') /\ OfIds(dropped')
    BY <2>0, <2>3, StaysOfIds DEF Read, buffer
  <2>4. CASE \/ \E r \in Starters : TakeId(r) \/ StartCommand(r) \/ StartFails(r) \/ Register(r)
             \/ \E r \in Ids : Wait(r) \/ Detach(r) \/ GroupEnds(r) \/ DescendantEnds(r) \/ CloseOne(r)
             \/ \E k \in Killers, r \in Ids : Kill(k, r)
             \/ BeginClose
             \/ \E t \in Terminators : Terminated(t)
             \/ UNCHANGED vars
    BY <2>1, <2>4 DEF vars, TakeId, StartCommand, StartFails, Register, Wait, Detach, GroupEnds,
                      DescendantEnds, Kill, BeginClose, CloseOne, Terminated
  <2> QED
    BY <2>2, <2>3, <2>4 DEF Next
<1>3. toClose' \subseteq Ids
  BY <1>1 DEF Next, vars, closing, TakeId, StartCommand, StartFails, Register, Wait, Detach, GroupEnds,
              DescendantEnds, Kill, BeginClose, CloseOne, Terminated, Write, Read, OthersOK
<1>4. term' \in [Terminators -> [at : {"idle", "grace"}, id : Ids \union {NoId}]]
  <2>1. CASE UNCHANGED term
    BY <2>1 DEF OthersOK
  <2>2. ASSUME NEW t \in Terminators, NEW p \in Ids,
               term' = [term EXCEPT ![t] = [at |-> "grace", id |-> p]]
        PROVE  term' \in [Terminators -> [at : {"idle", "grace"}, id : Ids \union {NoId}]]
    BY <2>2 DEF OthersOK
  <2>3. ASSUME NEW t \in Terminators, term' = [term EXCEPT ![t] = Idle]
        PROVE  term' \in [Terminators -> [at : {"idle", "grace"}, id : Ids \union {NoId}]]
    BY <2>3 DEF OthersOK, Idle
  <2> QED
    BY <2>1, <2>2, <2>3
    DEF Next, vars, closing, TakeId, StartCommand, StartFails, Register, Wait, Detach, GroupEnds,
        DescendantEnds, Kill, BeginClose, CloseOne, Terminated, Write, Read, Terminators
<1> QED
  BY <1>2, <1>3, <1>4, <1>5 DEF OthersOK

\* Every variable of the registry, of the operating system and of the readers keeps
\* its type.
THEOREM TypeCorrect == Spec => []TypeOK
<1>1. Init => OthersOK
  BY DEF Init, OthersOK, Idle, OfIds
<1>2. RegistryOK /\ OthersOK /\ BytesOK => TypeOK
  <2> SUFFICES ASSUME RegistryOK, OthersOK, BytesOK PROVE TypeOK
    OBVIOUS
  <2>1. \A n \in 1..shellSeq : n \in Ids
    BY SizesAssumption DEF RegistryOK, Ids
  <2>2. \A n \in 0..shellSeq : n \in Ids \union {NoId}
    BY SizesAssumption DEF RegistryOK, Ids, NoId
  <2>3. /\ shellProcesses \subseteq Ids /\ started \subseteq Ids
        /\ starting \in [Starters -> Ids \union {NoId}]
    BY <2>1, <2>2 DEF RegistryOK
  <2>4. /\ base \in [Ids -> Nat] /\ next \in [Ids -> Nat] /\ cursor \in [Ids -> Nat]
        /\ dropped \in [Ids -> Nat] /\ buf \in [Ids -> Seq(Nat)] /\ got \in [Ids -> Seq(Nat)]
    <3>1. \A p \in Ids : /\ base[p] \in Nat /\ next[p] \in Nat /\ cursor[p] \in Nat
                         /\ dropped[p] \in Nat /\ got[p] \in Seq(Nat)
      BY DEF BytesOK, Held, Accounted
    <3>2. \A p \in Ids : buf[p] \in Seq(Nat)
      <4>1. ASSUME NEW p \in Ids PROVE buf[p] \in Seq(Nat)
        <5>1. base[p] \in Nat /\ next[p] \in Nat /\ base[p] <= next[p]
              /\ buf[p] = Positions(base[p] + 1, next[p])
          BY DEF BytesOK, Held
        <5>2. base[p] + 1 \in Nat \ {0} /\ base[p] + 1 <= next[p] + 1
          BY <5>1
        <5> QED
          BY <5>1, <5>2, PositionsAre
      <4> QED
        BY <4>1
    <3>4. /\ buf = [p \in Ids |-> buf[p]] /\ base = [p \in Ids |-> base[p]]
          /\ next = [p \in Ids |-> next[p]] /\ cursor = [p \in Ids |-> cursor[p]]
          /\ got = [p \in Ids |-> got[p]] /\ dropped = [p \in Ids |-> dropped[p]]
      BY DEF OthersOK, OfIds
    <3> QED
      BY <3>1, <3>2, <3>4
  <2> QED
    BY <2>3, <2>4 DEF RegistryOK, OthersOK, TypeOK
<1>3. LiveInv => RegistryOK
  BY DEF LiveInv
<1> QED
  BY <1>1, <1>2, <1>3, OthersStep, LiveInvariant, BytesInvariant, PTL DEF Spec

-----------------------------------------------------------------------------
Lists == [from : Nat, list : Nat]

\* What is known of each goroutine and of the shared state.
CatalogTypes ==
    /\ clients \in Nat /\ connected \subseteq 1..clients /\ client \in 0..clients /\ heard \in Nat
    /\ DOMAIN pc = Goroutines /\ DOMAIN carry = Goroutines
    /\ using \in [Goroutines -> 0..clients]
    /\ fetched \in [Goroutines -> Lists]
    /\ \A g \in Goroutines : fetched[g].list <= heard

\* A list that a goroutine holds came from the client it deals with.
Fetching == {"prompts", "prompting", "apply"}
HoldsList(g) ==
    /\ pc[g] \in Fetching => fetched[g] # NoList
    /\ pc[g] \in Fetching \union {"started"} /\ fetched[g] # NoList => fetched[g].from = using[g]
    /\ pc[g] \notin Fetching \union {"started", "return", "call", "calling", "panicked", "discard"}
         => fetched[g] = NoList

\* At most one caller starts the server, and the server has no client meanwhile.
StartZone == {"spawn", "list", "listing", "prompts", "prompting", "started"}
OneStarts ==
    /\ \A g \in Callers : pc[g] \in StartZone => spawning
    /\ \A g, h \in Callers : pc[g] \in StartZone /\ pc[h] \in StartZone => g = h
    /\ spawning \/ closed => client = 0

\* A start that failed has closed its client; one that ended well has installed it,
\* and only its end or the close of the server takes it away.
StartedClient(g) ==
    /\ pc[g] = "started" /\ fetched[g] = NoList => using[g] \notin connected
    /\ pc[g] = "return" => closed \/ client = using[g] \/ using[g] \notin connected
    /\ pc[g] = "panicked" => closed \/ using[g] \notin connected

\* Every change of a list is carried on by somebody.
NewsCarried ==
    /\ tools # specs => \E g \in Goroutines : carry[g] = "rebuild"
    /\ subscribed /\ mirror # tools /\ ~overtaken
         => \E g \in Goroutines : carry[g] \in {"snapshot", "install"}

SpecsOfClient ==
    /\ client \in connected => up
    /\ specs # NoList => specs.from = client
    /\ state = "ready" /\ client \in connected => specs.list = heard \/ misled

Owned(c) == c = client \/ \E g \in Callers : using[g] = c /\ pc[g] \in StartZone \union {"discard"}
AllOwned == \A c \in connected : Owned(c)

\* What a refresher does, which is no caller.
RefreshPlaces ==
    {"idle", "refresh", "list", "listing", "prompts", "prompting", "apply", "failed", "absorb"}
RefreshersRefresh ==
    /\ DOMAIN goal = Goroutines
    /\ \A r \in Refreshers : pc[r] \in RefreshPlaces /\ goal[r] = "none"

AllHoldLists == \A g \in Goroutines : HoldsList(g)
AllStartedClients == \A g \in Callers : StartedClient(g)

-----------------------------------------------------------------------------
\* A step of a goroutine moves no other one, but that a notification wakes a refresher.
Others(g) ==
    \A h \in Goroutines \ {g} : /\ pc'[h] = pc[h] /\ carry'[h] = carry[h]
                                /\ using'[h] = using[h] /\ fetched'[h] = fetched[h]

\* What the ends of an action do to the place of its goroutine and to what it holds.
LEMMA Published ==
    ASSUME CatalogTypes, NEW g \in Goroutines, NEW news, NEW label,
           Publish(g, news, label)
    PROVE  /\ DOMAIN pc' = Goroutines /\ DOMAIN carry' = Goroutines
           /\ pc'[g] = label /\ carry'[g] = (IF news THEN "rebuild" ELSE "none")
           /\ \A h \in Goroutines \ {g} : pc'[h] = pc[h] /\ carry'[h] = carry[h]
BY DEF Publish, CatalogTypes

LEMMA Left ==
    ASSUME CatalogTypes, NEW g \in Goroutines, NEW news, Leave(g, news)
    PROVE  /\ DOMAIN pc' = Goroutines /\ DOMAIN carry' = Goroutines
           /\ pc'[g] \in {"idle", "sync", "gone"}
           /\ carry'[g] = (IF news THEN "rebuild" ELSE "none")
           /\ using' \in [Goroutines -> 0..clients] /\ fetched' \in [Goroutines -> Lists]
           /\ using'[g] = 0 /\ fetched'[g] = NoList
           /\ Others(g)
<1>1. /\ using' = [using EXCEPT ![g] = 0] /\ fetched' = [fetched EXCEPT ![g] = NoList]
      /\ Publish(g, news, IF goal[g] = "turn" THEN "sync"
                          ELSE IF goal[g] = "close" THEN "gone" ELSE "idle")
  BY DEF Leave
<1>2. /\ DOMAIN pc' = Goroutines /\ DOMAIN carry' = Goroutines
      /\ pc'[g] \in {"idle", "sync", "gone"}
      /\ carry'[g] = (IF news THEN "rebuild" ELSE "none")
      /\ \A h \in Goroutines \ {g} : pc'[h] = pc[h] /\ carry'[h] = carry[h]
  BY <1>1, Published
<1>3. NoList \in Lists /\ 0 \in 0..clients
  BY DEF NoList, Lists, CatalogTypes
<1> QED
  BY <1>1, <1>2, <1>3 DEF CatalogTypes, Others

LEMMA Went ==
    ASSUME CatalogTypes, NEW g \in Goroutines, NEW label, Goto(g, label)
    PROVE  /\ DOMAIN pc' = Goroutines /\ DOMAIN carry' = Goroutines
           /\ pc'[g] = label /\ carry'[g] = "none"
           /\ \A h \in Goroutines \ {g} : pc'[h] = pc[h] /\ carry'[h] = carry[h]
BY Published DEF Goto

LEMMA Aimed ==
    ASSUME CatalogTypes, NEW g \in Goroutines, NEW c, using' = [using EXCEPT ![g] = c]
    PROVE  using'[g] = c /\ \A h \in Goroutines \ {g} : using'[h] = using[h]
BY DEF CatalogTypes

LEMMA Fetched ==
    ASSUME CatalogTypes, NEW g \in Goroutines, NEW list, fetched' = [fetched EXCEPT ![g] = list]
    PROVE  fetched'[g] = list /\ \A h \in Goroutines \ {g} : fetched'[h] = fetched[h]
BY DEF CatalogTypes

LEMMA MoverAlone ==
    ASSUME CatalogTypes, NEW g \in Goroutines, Begin(g) \/ Step(g), ~ReadNotification(g)
    PROVE  Others(g) /\ DOMAIN pc' = Goroutines /\ DOMAIN carry' = Goroutines
<1>0. DOMAIN pc = Goroutines /\ DOMAIN carry = Goroutines
  BY DEF CatalogTypes
<1>1. CASE Begin(g)
  BY <1>1, Went DEF Begin, Others
<1>2. CASE Absorb(g)
  BY <1>2, Left DEF Absorb
<1>3. CASE AbsorbFirst(g)
  BY <1>3, Published DEF AbsorbFirst, locals, Others
<1>4. CASE Refused(g)
  BY <1>4, Left DEF Refused
<1>5. CASE TakeClient(g)
  <2>1. CASE Leave(g, FALSE)
    BY <2>1, Left
  <2>2. CASE Goto(g, "call") /\ using' = [using EXCEPT ![g] = client] /\ UNCHANGED fetched
    BY <2>2, Went, Aimed DEF Others
  <2> QED
    BY <1>5, <2>1, <2>2 DEF TakeClient
<1>6. CASE StartLocked(g)
  BY <1>6, Published, Aimed DEF StartLocked, Others
<1>7. CASE Spawn(g)
  BY <1>7, Went, Aimed DEF Spawn, Others
<1>8. CASE WriteRequest(g)
  BY <1>8, Went DEF WriteRequest, Others
<1>9. CASE Respond(g)
  <2>1. CASE Leave(g, FALSE)
    BY <2>1, Left
  <2>2. CASE ~Leave(g, FALSE)
    BY <1>9, <2>2, Went, Fetched DEF Respond, Others
  <2> QED
    BY <2>1, <2>2
<1>10. CASE RequestFails(g)
  BY <1>10, Went, Fetched DEF RequestFails, Others
<1>11. CASE ListRefused(g)
  BY <1>11, Went DEF ListRefused, Others, locals
<1>12. CASE Started(g)
  <2>1. CASE Leave(g, News)
    BY <2>1, Left
  <2>2. CASE ~Leave(g, News)
    BY <1>12, <2>2, Published DEF Started, Others
  <2> QED
    BY <2>1, <2>2
<1>13. CASE Return(g)
  <2>1. CASE Leave(g, FALSE)
    BY <2>1, Left
  <2>2. CASE Goto(g, "panicked") /\ UNCHANGED <<using, fetched>>
    BY <2>2, Went DEF Others
  <2>3. CASE Goto(g, "call") /\ using' = [using EXCEPT ![g] = client] /\ UNCHANGED fetched
    BY <2>3, Went, Aimed DEF Others
  <2> QED
    BY <1>13, <2>1, <2>2, <2>3 DEF Return
<1>14. CASE CloseServer(g)
  BY <1>14, Published, Aimed DEF CloseServer, Others
<1>15. CASE Discard(g)
  BY <1>15, Left DEF Discard
<1>16. CASE Refresh(g)
  BY <1>16, Went, Aimed DEF Refresh, Others
<1>17. CASE RefreshFailed(g)
  BY <1>17, Went, Left DEF RefreshFailed, Others
<1>18. CASE Apply(g)
  BY <1>18, Left DEF Apply
<1>19. CASE NewsStep(g)
  BY <1>0, <1>19 DEF NewsStep, Rebuild, Sync, Snapshot, Install, Others, locals
<1> QED
  BY <1>1, <1>2, <1>3, <1>4, <1>5, <1>6, <1>7, <1>8, <1>9, <1>10, <1>11, <1>12, <1>13, <1>14, <1>15,
     <1>16, <1>17, <1>18, <1>19 DEF Step, EnsureStep, RequestStep, RefreshStep

\* What a step may do to the variables that more than one goroutine looks at.
LEMMA SharedChanges ==
    ASSUME NEW g \in Goroutines, Begin(g) \/ Step(g)
    PROVE  /\ \/ clients' = clients /\ connected' \subseteq connected
              \/ clients' = clients + 1 /\ connected' \subseteq connected \union {clients + 1}
           /\ client' \in {client, 0, using[g]}
           /\ heard' \in {heard, heard + 1}
           /\ closed => closed'
<1> DEFINE Same == UNCHANGED server /\ UNCHANGED client /\ UNCHANGED closed
<1>0. ASSUME Same PROVE /\ clients' = clients /\ connected' = connected /\ heard' = heard
                        /\ client' = client /\ closed' = closed
  BY <1>0 DEF server
<1> HIDE DEF Same
<1>1. CASE Begin(g) \/ Absorb(g)
  <2>1. Same
    BY <1>1 DEF Begin, Absorb, managed, Same
  <2> QED
    BY <1>0, <2>1
<1>2. CASE CloseServer(g)
  BY <1>2 DEF CloseServer, server
<1>3. CASE AbsorbFirst(g) \/ Refused(g) \/ TakeClient(g)
  <2>1. Same
    BY <1>3 DEF AbsorbFirst, Refused, TakeClient, managed, Same
  <2> QED
    BY <1>0, <2>1
<1>4. CASE StartLocked(g)
  BY <1>4 DEF StartLocked, server
<1>5. CASE Spawn(g)
  BY <1>5 DEF Spawn, managed, Shut
<1>6. CASE Started(g)
  BY <1>6 DEF Started, server
<1>7. CASE Return(g) \/ WriteRequest(g) \/ Respond(g)
  <2>1. Same
    BY <1>7 DEF Return, WriteRequest, Respond, managed, Same
  <2> QED
    BY <1>0, <2>1
<1>8. CASE ReadNotification(g) \/ RequestFails(g) \/ ListRefused(g)
  BY <1>8 DEF ReadNotification, RequestFails, ListRefused, managed, Shut
<1>9. CASE Refresh(g) \/ RefreshFailed(g) \/ Apply(g)
  <2>1. Same
    BY <1>9 DEF Refresh, RefreshFailed, Apply, managed, Same
  <2> QED
    BY <1>0, <2>1
<1>10. CASE NewsStep(g)
  <2>1. Same
    BY <1>10 DEF NewsStep, Rebuild, Sync, Snapshot, Install, managed, Same
  <2> QED
    BY <1>0, <2>1
<1>11. CASE Discard(g)
  BY <1>11 DEF Discard, Shut, managed
<1> QED
  BY <1>1, <1>2, <1>3, <1>4, <1>5, <1>6, <1>7, <1>8, <1>9, <1>10, <1>11
  DEF Step, EnsureStep, RequestStep, RefreshStep

LEMMA LocalChanges ==
    ASSUME NEW g \in Goroutines, Begin(g) \/ Step(g)
    PROVE  /\ \/ using' = using
              \/ using' = [using EXCEPT ![g] = 0]
              \/ using' = [using EXCEPT ![g] = client]
              \/ clients' = clients + 1 /\ using' = [using EXCEPT ![g] = clients + 1]
           /\ \/ fetched' = fetched
              \/ fetched' = [fetched EXCEPT ![g] = NoList]
              \/ fetched' = [fetched EXCEPT ![g] = List(using[g])]
<1> USE DEF Leave, locals
<1>1. CASE Begin(g) \/ Absorb(g) \/ CloseServer(g) \/ Discard(g)
  BY <1>1 DEF Begin, Absorb, CloseServer, Discard
<1>2. CASE AbsorbFirst(g) \/ Refused(g) \/ TakeClient(g) \/ StartLocked(g)
  BY <1>2 DEF AbsorbFirst, Refused, TakeClient, StartLocked
<1>3. CASE Spawn(g)
  BY <1>3 DEF Spawn
<1>4. CASE Started(g) \/ Return(g)
  BY <1>4 DEF Started, Return
<1>5. CASE RequestStep(g)
  BY <1>5 DEF RequestStep, WriteRequest, ReadNotification, Respond, RequestFails, ListRefused
<1>6. CASE Refresh(g) \/ RefreshFailed(g) \/ Apply(g)
  BY <1>6 DEF Refresh, RefreshFailed, Apply
<1>7. CASE NewsStep(g)
  BY <1>7 DEF NewsStep, Rebuild, Sync, Snapshot, Install
<1> QED
  BY <1>1, <1>2, <1>3, <1>4, <1>5, <1>6, <1>7 DEF Step, EnsureStep, RefreshStep

LEMMA CatalogTypesStep == CatalogTypes /\ [CatalogNext]_catalogVars => CatalogTypes'
<1> SUFFICES ASSUME CatalogTypes, [CatalogNext]_catalogVars PROVE CatalogTypes'
  OBVIOUS
<1>0. /\ clients \in Nat /\ connected \subseteq 1..clients /\ client \in 0..clients /\ heard \in Nat
      /\ using \in [Goroutines -> 0..clients] /\ fetched \in [Goroutines -> Lists]
      /\ \A g \in Goroutines : fetched[g].list <= heard
  BY DEF CatalogTypes
<1>1. CASE UNCHANGED catalogVars
  BY <1>1 DEF CatalogTypes, catalogVars, server, managed, locals
<1>2. CASE ServerDies
  BY <1>2 DEF ServerDies, Shut, managed, locals, CatalogTypes
<1>3. ASSUME NEW g \in Goroutines, Begin(g) \/ Step(g) PROVE CatalogTypes'
  <2>1. DOMAIN pc' = Goroutines /\ DOMAIN carry' = Goroutines
    <3>1. CASE ReadNotification(g)
      BY <3>1 DEF ReadNotification, CatalogTypes
    <3> QED
      BY <1>3, <3>1, MoverAlone
  <2>2. clients' \in Nat /\ connected' \subseteq 1..clients' /\ client' \in 0..clients' /\ heard' \in Nat
        /\ clients <= clients' /\ heard <= heard'
    <3>1. using[g] \in 0..clients
      BY <1>0
    <3>2. 1..clients \subseteq 1..(clients + 1) /\ clients + 1 \in 1..(clients + 1)
      BY <1>0
    <3>3. clients' \in {clients, clients + 1} /\ connected' \subseteq 1..clients'
      BY <1>0, <1>3, <3>2, SharedChanges
    <3>4. client' \in {client, 0, using[g]} /\ heard' \in {heard, heard + 1}
      BY <1>3, SharedChanges
    <3> QED
      BY <1>0, <3>1, <3>3, <3>4
  <2>3. using' \in [Goroutines -> 0..clients']
    <3>1. 0 \in 0..clients' /\ client \in 0..clients' /\ 0..clients \subseteq 0..clients'
      BY <1>0, <2>2
    <3>2. clients' = clients + 1 => clients + 1 \in 0..clients'
      BY <1>0
    <3>3. using \in [Goroutines -> 0..clients']
      BY <1>0, <3>1
    <3> QED
      BY <1>3, <3>1, <3>2, <3>3, LocalChanges
  <2>4. fetched' \in [Goroutines -> Lists] /\ \A h \in Goroutines : fetched'[h].list <= heard'
    <3>1. NoList \in Lists /\ NoList.list = 0
      BY DEF NoList, Lists
    <3>2. List(using[g]) \in Lists /\ List(using[g]).list = heard
      BY <1>0 DEF List, Lists
    <3>3. \A h \in Goroutines : fetched[h].list \in Nat
      BY <1>0 DEF Lists
    <3>4. fetched' \in [Goroutines -> Lists]
      BY <1>0, <1>3, <3>1, <3>2, LocalChanges
    <3>5. \A h \in Goroutines : fetched'[h] \in {fetched[h], NoList, List(using[g])}
      BY <1>0, <1>3, LocalChanges
    <3> QED
      BY <1>0, <2>2, <3>1, <3>2, <3>3, <3>4, <3>5
  <2> QED
    BY <2>1, <2>2, <2>3, <2>4 DEF CatalogTypes
<1> QED
  BY <1>1, <1>2, <1>3 DEF CatalogNext

\* A list came from the client that its goroutine deals with.
LEMMA MoverHoldsList ==
    ASSUME CatalogTypes, AllHoldLists, NEW g \in Goroutines, Begin(g) \/ Step(g),
           ~ReadNotification(g)
    PROVE  HoldsList(g)'
<1> DEFINE Same == fetched'[g] = fetched[g] /\ using'[g] = using[g]
<1> USE DEF At
<1>0. HoldsList(g)
  BY DEF AllHoldLists
<1>2. ASSUME NEW news, Leave(g, news) PROVE HoldsList(g)'
  BY <1>2, Left DEF HoldsList, Fetching
<1>4. CASE Begin(g)
  BY <1>0, <1>4, Went DEF Begin, HoldsList, Fetching
<1>5. CASE Absorb(g) \/ Refused(g) \/ Discard(g) \/ Apply(g)
  BY <1>2, <1>5 DEF Absorb, Refused, Discard, Apply
<1>6. CASE AbsorbFirst(g)
  BY <1>0, <1>6, Published DEF AbsorbFirst, HoldsList, Fetching, locals
<1>7. CASE TakeClient(g)
  <2>1. CASE ~Leave(g, FALSE)
    BY <1>7, <2>1, Went DEF TakeClient, HoldsList, Fetching
  <2> QED
    BY <1>2, <2>1
<1>8. CASE StartLocked(g)
  BY <1>0, <1>8, Published DEF StartLocked, Ensuring, HoldsList, Fetching
<1>9. CASE Spawn(g)
  <2>1. fetched'[g] = NoList /\ pc'[g] \in {"list", "started"}
    BY <1>0, <1>9, Went DEF Spawn, HoldsList, Fetching
  <2> QED
    BY <2>1 DEF HoldsList, Fetching
<1>10. CASE WriteRequest(g)
  <2>1. Same
    BY <1>10 DEF WriteRequest
  <2>2. \/ pc[g] = "list" /\ pc'[g] = "listing"
        \/ pc[g] = "prompts" /\ pc'[g] = "prompting"
        \/ pc[g] = "call" /\ pc'[g] = "calling"
    <3>1. pc[g] \in {"list", "prompts", "call"} /\ pc'[g] = Sent[pc[g]]
      BY <1>10, Went DEF WriteRequest, Sent
    <3>2. Sent["list"] = "listing" /\ Sent["prompts"] = "prompting" /\ Sent["call"] = "calling"
      BY DEF Sent
    <3>3. /\ pc[g] = "list" => pc'[g] = "listing"
          /\ pc[g] = "prompts" => pc'[g] = "prompting"
          /\ pc[g] = "call" => pc'[g] = "calling"
      BY <3>1, <3>2
    <3> QED
      BY <3>1, <3>3
  <2> QED
    BY <1>0, <2>1, <2>2 DEF HoldsList, Fetching
<1>11. CASE Respond(g)
  <2>1. CASE pc[g] = "listing" /\ Goto(g, "prompts")
             /\ fetched' = [fetched EXCEPT ![g] = List(using[g])] /\ UNCHANGED using
    <3>1. List(using[g]) # NoList /\ List(using[g]).from = using[g]
      BY <1>11 DEF Respond, Answered, CatalogTypes, List, NoList
    <3>2. pc'[g] = "prompts" /\ fetched'[g] = List(using[g]) /\ using'[g] = using[g]
      BY <2>1, Went, Fetched
    <3> QED
      BY <3>1, <3>2 DEF HoldsList, Fetching
  <2>2. CASE pc[g] = "prompting" /\ Goto(g, IF g \in Callers THEN "started" ELSE "apply")
             /\ UNCHANGED <<using, fetched>>
    <3>1. pc'[g] \in {"started", "apply"} /\ Same
      BY <2>2, Went
    <3> QED
      BY <1>0, <2>2, <3>1 DEF HoldsList, Fetching
  <2> QED
    BY <1>2, <1>11, <2>1, <2>2 DEF Respond
<1>12. CASE RequestFails(g)
  <2>1. fetched'[g] = NoList /\ pc'[g] \in {"absorb", "started", "failed"}
    BY <1>12, Went, Fetched DEF RequestFails, Asking
  <2> QED
    BY <2>1 DEF HoldsList, Fetching
<1>13. CASE ListRefused(g)
  <2>1. fetched'[g] = NoList /\ pc'[g] \in {"started", "failed"}
    BY <1>0, <1>13, Went DEF ListRefused, HoldsList, Fetching, locals
  <2> QED
    BY <2>1 DEF HoldsList, Fetching
<1>14. CASE Started(g)
  <2>2. CASE Publish(g, News, "discard") /\ UNCHANGED <<using, fetched>>
    <3>1. pc'[g] = "discard"
      BY <2>2, Published
    <3> QED
      BY <3>1 DEF HoldsList, Fetching
  <2>3. CASE Publish(g, TRUE, "return") /\ UNCHANGED <<using, fetched>>
    <3>1. pc'[g] = "return"
      BY <2>3, Published
    <3> QED
      BY <3>1 DEF HoldsList, Fetching
  <2> QED
    BY <1>2, <1>14, <2>2, <2>3 DEF Started
<1>15. CASE Return(g)
  <2>1. CASE ~Leave(g, FALSE)
    <3>1. pc'[g] \in {"call", "panicked"}
      BY <1>15, <2>1, Went DEF Return
    <3> QED
      BY <3>1 DEF HoldsList, Fetching
  <2> QED
    BY <1>2, <2>1
<1>16. CASE CloseServer(g)
  BY <1>16, Published DEF CloseServer, HoldsList, Fetching
<1>17. CASE Refresh(g)
  <2>1. fetched'[g] = NoList /\ pc'[g] \in {"list", "idle"}
    BY <1>0, <1>17, Went DEF Refresh, HoldsList, Fetching
  <2> QED
    BY <2>1 DEF HoldsList, Fetching
<1>18. CASE RefreshFailed(g)
  <2>1. CASE Goto(g, "absorb") /\ UNCHANGED <<using, fetched>>
    BY <1>0, <1>18, <2>1, Went DEF RefreshFailed, HoldsList, Fetching
  <2> QED
    BY <1>2, <1>18, <2>1 DEF RefreshFailed
<1>19. CASE NewsStep(g)
  <2>1. Same
    BY <1>19 DEF NewsStep, Rebuild, Sync, Snapshot, Install, locals
  <2>2. pc'[g] = pc[g] \/ (pc[g] = "sync" /\ pc'[g] = "idle")
    <3>1. CASE Sync(g)
      BY <3>1 DEF Sync, CatalogTypes
    <3>2. CASE ~Sync(g)
      BY <1>19, <3>2 DEF NewsStep, Rebuild, Snapshot, Install
    <3> QED
      BY <3>1, <3>2
  <2> QED
    BY <1>0, <2>1, <2>2 DEF HoldsList, Fetching
<1> HIDE DEF At
<1> QED
  BY <1>4, <1>5, <1>6, <1>7, <1>8, <1>9, <1>10, <1>11, <1>12, <1>13, <1>14, <1>15, <1>16, <1>17,
     <1>18, <1>19 DEF Step, EnsureStep, RequestStep, RefreshStep

LEMMA HoldsListStep ==
    ASSUME CatalogTypes, AllHoldLists, NEW g \in Goroutines, Begin(g) \/ Step(g)
    PROVE  AllHoldLists'
<1>1. CASE ReadNotification(g)
  <2>1. PICK r \in Refreshers : pc[r] = "idle" /\ pc' = [pc EXCEPT ![r] = "refresh"]
    BY <1>1 DEF ReadNotification, At
  <2>2. UNCHANGED <<using, fetched>>
    BY <1>1 DEF ReadNotification, locals
  <2>3. \A h \in Goroutines \ {r} : HoldsList(h)'
    BY <2>1, <2>2 DEF HoldsList, AllHoldLists, CatalogTypes
  <2>4. HoldsList(r)'
    BY <2>1, <2>2 DEF HoldsList, AllHoldLists, Fetching, Goroutines, CatalogTypes
  <2> QED
    BY <2>3, <2>4 DEF AllHoldLists
<1>2. CASE ~ReadNotification(g)
  <2>1. HoldsList(g)'
    BY <1>2, MoverHoldsList
  <2>2. Others(g)
    BY <1>2, MoverAlone
  <2>3. \A h \in Goroutines \ {g} : HoldsList(h)'
    BY <2>2 DEF Others, HoldsList, AllHoldLists
  <2> QED
    BY <2>1, <2>3 DEF AllHoldLists
<1> QED
  BY <1>1, <1>2

-----------------------------------------------------------------------------
\* A goroutine changes what it is for itself.
LEMMA GoalChanges ==
    ASSUME DOMAIN goal = Goroutines, NEW g \in Goroutines, Begin(g) \/ Step(g)
    PROVE  /\ DOMAIN goal' = Goroutines /\ \A h \in Goroutines \ {g} : goal'[h] = goal[h]
           /\ g \in Refreshers => goal'[g] \in {goal[g], "none"}
<1> DEFINE Done == goal' = [goal EXCEPT ![g] = "none"] \/ goal' = goal
<1>0. Refreshers \intersect Callers = {}
  BY CallersAssumption
<1>1. ASSUME Done
      PROVE  /\ DOMAIN goal' = Goroutines /\ \A h \in Goroutines \ {g} : goal'[h] = goal[h]
             /\ goal'[g] \in {goal[g], "none"}
  BY <1>1
<1> HIDE DEF Done
<1>2. CASE Begin(g)
  BY <1>0, <1>2 DEF Begin
<1> USE DEF Leave, Done, locals
<1>3. ASSUME Absorb(g) \/ CloseServer(g) \/ Discard(g) PROVE Done
  BY <1>3 DEF Absorb, CloseServer, Discard
<1>4. ASSUME AbsorbFirst(g) \/ Refused(g) \/ TakeClient(g) \/ StartLocked(g) PROVE Done
  BY <1>4 DEF AbsorbFirst, Refused, TakeClient, StartLocked
<1>5. ASSUME Spawn(g) \/ Started(g) \/ Return(g) PROVE Done
  BY <1>5 DEF Spawn, Started, Return
<1>6. ASSUME RequestStep(g) PROVE Done
  BY <1>6 DEF RequestStep, WriteRequest, ReadNotification, Respond, RequestFails, ListRefused
<1>7. ASSUME Refresh(g) \/ RefreshFailed(g) \/ Apply(g) PROVE Done
  BY <1>7 DEF Refresh, RefreshFailed, Apply
<1>8. ASSUME NewsStep(g) PROVE Done
  BY <1>8 DEF NewsStep, Rebuild, Sync, Snapshot, Install
<1> HIDE DEF Leave, Done, locals
<1> QED
  BY <1>1, <1>2, <1>3, <1>4, <1>5, <1>6, <1>7, <1>8 DEF Step, EnsureStep, RefreshStep

\* A goroutine that refreshes does nothing else: it is for nothing and starts no client.
LEMMA MoverRefreshes ==
    ASSUME CatalogTypes, RefreshersRefresh, NEW g \in Refreshers, Step(g), ~ReadNotification(g)
    PROVE  pc'[g] \in RefreshPlaces
<1>0. pc[g] \in RefreshPlaces /\ goal[g] = "none" /\ g \in Goroutines /\ g \notin Callers
  BY CallersAssumption DEF RefreshersRefresh, Goroutines
<1>1. ASSUME NEW news, Leave(g, news) PROVE pc'[g] = "idle"
  BY <1>0, <1>1, Published DEF Leave
<1>2. RequestStep(g) \/ Absorb(g) \/ Refresh(g) \/ RefreshFailed(g) \/ Apply(g) \/ NewsStep(g)
  BY <1>0 DEF Step, EnsureStep, RefreshStep, AbsorbFirst, Refused, TakeClient, StartLocked, Spawn,
       Started, Return, Ensuring, CloseServer, Discard, At, RefreshPlaces
<1>3. CASE Absorb(g) \/ Refresh(g) \/ RefreshFailed(g) \/ Apply(g)
  BY <1>0, <1>1, <1>3, Went DEF Absorb, Refresh, RefreshFailed, Apply, RefreshPlaces
<1>4. CASE WriteRequest(g)
  <2>1. pc[g] \in {"list", "prompts"} /\ pc'[g] = Sent[pc[g]]
    BY <1>0, <1>4, Went DEF WriteRequest, Sent, RefreshPlaces
  <2>2. Sent["list"] = "listing" /\ Sent["prompts"] = "prompting"
    BY DEF Sent
  <2> QED
    BY <2>1, <2>2 DEF RefreshPlaces
<1>5. CASE Respond(g) \/ RequestFails(g) \/ ListRefused(g)
  BY <1>0, <1>1, <1>5, Went DEF Respond, RequestFails, ListRefused, RefreshPlaces
<1>6. CASE NewsStep(g)
  <2>1. ~Sync(g)
    BY <1>0 DEF Sync, At, RefreshPlaces
  <2>2. pc' = pc
    BY <1>6, <2>1 DEF NewsStep, Rebuild, Snapshot, Install
  <2> QED
    BY <1>0, <2>2
<1> QED
  BY <1>2, <1>3, <1>4, <1>5, <1>6 DEF RequestStep

LEMMA RefreshersRefreshStep ==
    ASSUME CatalogTypes, RefreshersRefresh, NEW g \in Goroutines, Begin(g) \/ Step(g)
    PROVE  RefreshersRefresh'
<1>0. Refreshers \subseteq Goroutines
  BY DEF Goroutines
<1>1. DOMAIN goal' = Goroutines /\ \A r \in Refreshers : goal'[r] = "none"
  BY <1>0, GoalChanges DEF RefreshersRefresh
<1>2. CASE ReadNotification(g)
  <2>1. PICK r \in Refreshers : pc[r] = "idle" /\ pc' = [pc EXCEPT ![r] = "refresh"]
    BY <1>2 DEF ReadNotification, At
  <2>2. \A h \in Refreshers : pc'[h] \in {pc[h], "refresh"}
    BY <1>0, <2>1 DEF CatalogTypes
  <2> QED
    BY <1>1, <2>2 DEF RefreshersRefresh, RefreshPlaces
<1>3. CASE ~ReadNotification(g)
  <2>1. \A r \in Refreshers \ {g} : pc'[r] = pc[r]
    BY <1>0, <1>3, MoverAlone DEF Others
  <2>2. g \in Refreshers => Step(g)
    BY CallersAssumption DEF Begin
  <2>3. g \in Refreshers => pc'[g] \in RefreshPlaces
    BY <1>3, <2>2, MoverRefreshes
  <2> QED
    BY <1>1, <2>1, <2>3 DEF RefreshersRefresh
<1> QED
  BY <1>2, <1>3

\* Beside the two ends of a start and the close of the server, nothing changes what
\* the server says of itself.
LEMMA ServerSays ==
    ASSUME NEW g \in Goroutines, Begin(g) \/ Step(g),
           ~StartLocked(g), ~Started(g), ~CloseServer(g)
    PROVE  client' = client /\ spawning' = spawning /\ closed' = closed
<1> USE DEF managed
<1>1. CASE Begin(g) \/ Absorb(g) \/ Discard(g)
  BY <1>1 DEF Begin, Absorb, Discard
<1>2. CASE AbsorbFirst(g) \/ Refused(g) \/ TakeClient(g) \/ Spawn(g) \/ Return(g)
  BY <1>2 DEF AbsorbFirst, Refused, TakeClient, Spawn, Return
<1>3. CASE RequestStep(g)
  BY <1>3 DEF RequestStep, WriteRequest, ReadNotification, Respond, RequestFails, ListRefused
<1>4. CASE Refresh(g) \/ RefreshFailed(g) \/ Apply(g)
  BY <1>4 DEF Refresh, RefreshFailed, Apply
<1>5. CASE NewsStep(g)
  BY <1>5 DEF NewsStep, Rebuild, Sync, Snapshot, Install
<1> QED
  BY <1>1, <1>2, <1>3, <1>4, <1>5 DEF Step, EnsureStep, RefreshStep

\* Only startLocked leads into a start, and its end out of it.
LEMMA ZoneMoves ==
    ASSUME CatalogTypes, NEW g \in Goroutines, Begin(g) \/ Step(g),
           ~StartLocked(g), ~ReadNotification(g), g \in Callers
    PROVE  /\ pc'[g] \in StartZone => pc[g] \in StartZone
           /\ Started(g) => pc'[g] \notin StartZone
<1> DEFINE Out == pc'[g] \notin StartZone
<1> USE DEF StartZone
<1>0. ASSUME NEW news, NEW label, label \notin StartZone, Publish(g, news, label) PROVE Out
  BY <1>0, Published
<1>1. ASSUME NEW news, Leave(g, news) PROVE Out
  BY <1>1, Left
<1>2. ASSUME Begin(g) PROVE Out
  BY <1>0, <1>2 DEF Begin, Goto
<1>3. ASSUME Absorb(g) \/ Refused(g) \/ Discard(g) PROVE Out
  BY <1>1, <1>3 DEF Absorb, Refused, Discard
<1>4. ASSUME CloseServer(g) \/ AbsorbFirst(g) PROVE Out
  BY <1>0, <1>4 DEF CloseServer, AbsorbFirst
<1>5. ASSUME TakeClient(g) \/ Return(g) PROVE Out
  <2>1. \/ Leave(g, FALSE)
        \/ Publish(g, FALSE, "call")
        \/ Publish(g, FALSE, "panicked")
    BY <1>5 DEF TakeClient, Return, Goto
  <2> QED
    BY <1>0, <1>1, <2>1
<1>6. ASSUME Started(g) PROVE Out
  <2>1. \/ Leave(g, News)
        \/ Publish(g, News, "discard")
        \/ Publish(g, TRUE, "return")
    BY <1>6 DEF Started
  <2> QED
    BY <1>0, <1>1, <2>1
<1>7. CASE Spawn(g)
  BY <1>7 DEF Spawn, At, Started
<1>8. CASE WriteRequest(g)
  <2>1. pc[g] \in {"list", "prompts", "call"} /\ pc'[g] = Sent[pc[g]]
    BY <1>8, Went DEF WriteRequest, Sent
  <2>2. Sent["call"] = "calling"
    BY DEF Sent
  <2> QED
    BY <1>8, <2>1, <2>2 DEF WriteRequest, Started, At
<1>9. CASE Respond(g) \/ RequestFails(g) \/ ListRefused(g)
  <2>1. Asking(g)
    BY <1>9 DEF Respond, RequestFails, ListRefused, Answered
  <2>2. CASE pc[g] = "calling"
    <3>1. ASSUME Respond(g) PROVE Out
      BY <1>1, <2>2, <3>1 DEF Respond
    <3>2. ASSUME RequestFails(g) PROVE Out
      BY <2>2, <3>2, Went DEF RequestFails
    <3> QED
      BY <1>9, <2>2, <3>1, <3>2 DEF ListRefused, Started, At
  <2> QED
    BY <2>1, <2>2 DEF Asking, Started, At
<1>10. CASE RefreshStep(g)
  BY <1>10, CallersAssumption DEF RefreshStep
<1>11. CASE NewsStep(g)
  <2>1. pc' = pc \/ Out
    <3>1. CASE Sync(g)
      BY <3>1 DEF Sync, CatalogTypes
    <3>2. CASE ~Sync(g)
      BY <1>11, <3>2 DEF NewsStep, Rebuild, Snapshot, Install
    <3> QED
      BY <3>1, <3>2
  <2>2. ~Started(g)
    BY <1>11 DEF NewsStep, Rebuild, Sync, Snapshot, Install, Started, At
  <2> QED
    BY <2>1, <2>2
<1> QED
  BY <1>2, <1>3, <1>4, <1>5, <1>6, <1>7, <1>8, <1>9, <1>10, <1>11 DEF Step, EnsureStep, RequestStep

LEMMA OneStartsStep ==
    ASSUME CatalogTypes, RefreshersRefresh, OneStarts, NEW g \in Goroutines, Begin(g) \/ Step(g)
    PROVE  OneStarts'
<1>0. /\ Callers \intersect Refreshers = {} /\ Callers \subseteq Goroutines
      /\ g \notin Callers => g \in Refreshers
  BY CallersAssumption DEF Goroutines
<1>1. \A h \in Callers \ {g} : pc'[h] = pc[h]
  <2>1. CASE ReadNotification(g)
    BY <1>0, <2>1 DEF ReadNotification, CatalogTypes
  <2>2. CASE ~ReadNotification(g)
    BY <1>0, <2>2, MoverAlone DEF Others
  <2> QED
    BY <2>1, <2>2
<1>2. g \notin Callers => ~StartLocked(g) /\ ~Started(g)
  BY <1>0 DEF RefreshersRefresh, RefreshPlaces, StartLocked, Started, Ensuring, At
<1>3. CASE StartLocked(g)
  <2>1. client' = 0 /\ spawning' /\ ~spawning
    BY <1>3 DEF StartLocked
  <2>2. \A h \in Callers : pc'[h] \in StartZone => h = g
    BY <1>1, <2>1 DEF OneStarts
  <2> QED
    BY <2>1, <2>2 DEF OneStarts
<1>4. CASE Started(g)
  <2>1. g \in Callers /\ ~ReadNotification(g) /\ ~StartLocked(g)
    BY <1>2, <1>4 DEF Started, ReadNotification, Asking, StartLocked, Ensuring, At
  <2>2. pc'[g] \notin StartZone /\ pc[g] \in StartZone
    BY <1>4, <2>1, ZoneMoves DEF Started, At, StartZone
  <2>3. \A h \in Callers : pc'[h] \notin StartZone
    BY <1>1, <2>1, <2>2 DEF OneStarts
  <2>4. spawning' = FALSE /\ closed' = closed /\ (client' = client \/ ~closed)
    BY <1>4 DEF Started, Open
  <2> QED
    BY <2>3, <2>4 DEF OneStarts
<1>5. CASE ~StartLocked(g) /\ ~Started(g)
  <2>1. spawning' = spawning /\ ((client' = client /\ closed' = closed) \/ client' = 0)
    BY <1>5, ServerSays DEF CloseServer
  <2>2. \A h \in Callers : pc'[h] \in StartZone => pc[h] \in StartZone
    <3>1. CASE ReadNotification(g)
      BY <1>0, <3>1 DEF ReadNotification, CatalogTypes
    <3>2. CASE ~ReadNotification(g)
      BY <1>1, <1>5, <3>2, ZoneMoves
    <3> QED
      BY <3>1, <3>2
  <2> QED
    BY <2>1, <2>2 DEF OneStarts
<1> QED
  BY <1>3, <1>4, <1>5

-----------------------------------------------------------------------------
\* Who changes something carries no news already; only the news changes the copies.
LEMMA NoNewsYet ==
    ASSUME NEW g \in Goroutines, Begin(g) \/ Step(g), ~Rebuild(g), ~Snapshot(g), ~Install(g)
    PROVE  /\ carry[g] = "none"
           /\ tools' = tools /\ mirror' = mirror /\ overtaken' = overtaken
           /\ subscribed' = subscribed \/ ~subscribed'
<1> USE DEF At, Ensuring, copies, history
<1>1. CASE Begin(g)
  BY <1>1 DEF Begin
<1>2. CASE Absorb(g) \/ AbsorbFirst(g) \/ CloseServer(g) \/ Discard(g)
  BY <1>2 DEF Absorb, AbsorbFirst, CloseServer, Discard
<1>3. CASE Refused(g) \/ TakeClient(g) \/ StartLocked(g)
  BY <1>3 DEF Refused, TakeClient, StartLocked
<1>4. CASE Spawn(g) \/ Started(g) \/ Return(g)
  BY <1>4 DEF Spawn, Started, Return
<1>5. CASE WriteRequest(g) \/ ReadNotification(g) \/ RequestFails(g)
  BY <1>5 DEF WriteRequest, ReadNotification, RequestFails
<1>6. CASE Respond(g) \/ ListRefused(g)
  BY <1>6 DEF Respond, ListRefused, Answered
<1>7. CASE Refresh(g) \/ RefreshFailed(g) \/ Apply(g)
  BY <1>7 DEF Refresh, RefreshFailed, Apply
<1>8. CASE Sync(g)
  BY <1>8 DEF Sync
<1> QED
  BY <1>1, <1>2, <1>3, <1>4, <1>5, <1>6, <1>7, <1>8
  DEF Step, EnsureStep, RequestStep, RefreshStep, NewsStep

\* Who changes the list of the server carries the news of it.
LEMMA ChangesAreNews ==
    ASSUME CatalogTypes, NEW g \in Goroutines, Begin(g) \/ Step(g)
    PROVE  specs' = specs \/ carry'[g] = "rebuild"
<1>1. ASSUME Clear, Leave(g, News) PROVE specs' = specs \/ carry'[g] = "rebuild"
  BY <1>1, Left DEF Clear, News
<1>2. ASSUME NEW label, Clear, Publish(g, News, label)
      PROVE  specs' = specs \/ carry'[g] = "rebuild"
  BY <1>2, Published DEF Clear, News
<1>3. CASE Begin(g) \/ Refused(g) \/ TakeClient(g) \/ Spawn(g) \/ Return(g) \/ Discard(g)
  BY <1>3 DEF Begin, Refused, TakeClient, Spawn, Return, Discard, managed
<1>4. CASE Absorb(g)
  BY <1>1, <1>4 DEF Absorb
<1>5. CASE AbsorbFirst(g) \/ StartLocked(g) \/ CloseServer(g)
  BY <1>2, <1>5 DEF AbsorbFirst, StartLocked, CloseServer
<1>6. CASE Started(g)
  <2>1. CASE Publish(g, TRUE, "return")
    BY <2>1, Published
  <2> QED
    BY <1>1, <1>2, <1>6, <2>1 DEF Started
<1>7. CASE RequestStep(g)
  BY <1>7 DEF RequestStep, WriteRequest, ReadNotification, Respond, RequestFails, ListRefused,
       managed
<1>8. CASE Refresh(g) \/ RefreshFailed(g)
  BY <1>8 DEF Refresh, RefreshFailed, managed
<1>9. CASE Apply(g)
  <2>1. CASE Leave(g, TRUE)
    BY <2>1, Left
  <2> QED
    BY <1>9, <2>1 DEF Apply
<1>10. CASE NewsStep(g)
  BY <1>10 DEF NewsStep, Rebuild, Sync, Snapshot, Install, managed
<1> QED
  BY <1>3, <1>4, <1>5, <1>6, <1>7, <1>8, <1>9, <1>10 DEF Step, EnsureStep, RefreshStep

LEMMA NewsCarriedStep ==
    ASSUME CatalogTypes, NewsCarried, NEW g \in Goroutines, Begin(g) \/ Step(g)
    PROVE  NewsCarried'
<1>0. DOMAIN carry = Goroutines
  BY DEF CatalogTypes
<1>1. CASE Rebuild(g)
  <2>1. tools' = specs' /\ carry'[g] = (IF subscribed' THEN "snapshot" ELSE "none")
    BY <1>0, <1>1 DEF Rebuild, managed
  <2> QED
    BY <2>1 DEF NewsCarried
<1>2. CASE Snapshot(g)
  <2>1. /\ UNCHANGED <<specs, tools, mirror, subscribed, overtaken>>
        /\ carry[g] = "snapshot" /\ carry'[g] = "install"
        /\ \A h \in Goroutines \ {g} : carry'[h] = carry[h]
    BY <1>0, <1>2 DEF Snapshot, managed, copies, history
  <2> QED
    BY <2>1 DEF NewsCarried
<1>3. CASE Install(g)
  <2>1. /\ UNCHANGED <<specs, tools>> /\ carry[g] = "install"
        /\ \A h \in Goroutines \ {g} : carry'[h] = carry[h]
        /\ mirror' = tools \/ overtaken'
    BY <1>0, <1>3 DEF Install, managed
  <2> QED
    BY <2>1 DEF NewsCarried
<1>4. CASE ~Rebuild(g) /\ ~Snapshot(g) /\ ~Install(g)
  <2>1. /\ carry[g] = "none" /\ UNCHANGED <<tools, mirror, overtaken>>
        /\ subscribed' => subscribed
        /\ specs' = specs \/ carry'[g] = "rebuild"
    BY <1>4, NoNewsYet, ChangesAreNews
  <2>2. \A h \in Goroutines \ {g} : carry'[h] = carry[h]
    <3>1. CASE ReadNotification(g)
      BY <1>0, <3>1 DEF ReadNotification
    <3> QED
      BY <3>1, MoverAlone DEF Others
  <2> QED
    BY <2>1, <2>2 DEF NewsCarried
<1> QED
  BY <1>1, <1>2, <1>3, <1>4

-----------------------------------------------------------------------------
\* Who is at the end of a start is a caller, and the server has no client then.
LEMMA StarterAlone ==
    ASSUME RefreshersRefresh, OneStarts, NEW g \in Goroutines, pc[g] \in {"spawn", "started"}
    PROVE  g \in Callers /\ spawning /\ client = 0
<1>1. g \in Callers
  BY DEF Goroutines, RefreshersRefresh, RefreshPlaces
<1> QED
  BY <1>1 DEF OneStarts, StartZone

LEMMA SpecsOfClientStep ==
    ASSUME CatalogTypes, RefreshersRefresh, OneStarts, AllHoldLists, SpecsOfClient,
           NEW g \in Goroutines, Begin(g) \/ Step(g)
    PROVE  SpecsOfClient'
<1>0. /\ clients \in Nat /\ connected \subseteq 1..clients /\ client \in 0..clients /\ heard \in Nat
      /\ 0 \notin connected
  BY DEF CatalogTypes
<1> DEFINE Quiet == /\ specs' = specs /\ up' = up /\ client' = client
                    /\ state' \in {state, "other"} /\ misled' = misled /\ heard' = heard
                    /\ client \in connected' => client \in connected
<1>1. ASSUME Quiet PROVE SpecsOfClient'
  BY <1>1 DEF SpecsOfClient
<1>2. ASSUME Clear, client' \notin connected' PROVE SpecsOfClient'
  BY <1>2 DEF Clear, SpecsOfClient
<1> HIDE DEF Quiet
<1> USE DEF server, managed, history
<1>3. CASE Begin(g) \/ Refused(g) \/ TakeClient(g) \/ Return(g)
  <2>1. Quiet
    BY <1>3 DEF Begin, Refused, TakeClient, Return, Quiet
  <2> QED
    BY <1>1, <2>1
<1>4. CASE Absorb(g)
  <2>1. CASE Ended /\ Clear
    BY <1>2, <1>4, <2>1 DEF Absorb, Ended
  <2>2. CASE UNCHANGED <<specs, up, state, misled>>
    <3>1. Quiet
      BY <1>4, <2>2 DEF Absorb, Quiet
    <3> QED
      BY <1>1, <3>1
  <2> QED
    BY <1>4, <2>1, <2>2 DEF Absorb
<1>5. CASE AbsorbFirst(g)
  BY <1>2, <1>5 DEF AbsorbFirst, Ended
<1>6. CASE StartLocked(g)
  BY <1>0, <1>2, <1>6 DEF StartLocked
<1>7. CASE CloseServer(g)
  BY <1>0, <1>2, <1>7 DEF CloseServer
<1>8. CASE Spawn(g)
  <2>1. clients + 1 # client
    BY <1>0
  <2>2. Quiet
    BY <1>8, <2>1 DEF Spawn, Shut, Quiet
  <2> QED
    BY <1>1, <2>2
<1>9. CASE Started(g)
  <2>0. client = 0
    BY <1>9, StarterAlone DEF Started, At
  <2>1. CASE Clear /\ UNCHANGED client
    <3>1. client' \notin connected'
      BY <1>0, <1>9, <2>0, <2>1 DEF Started
    <3> QED
      BY <1>2, <2>1, <3>1
  <2>2. CASE /\ fetched[g] # NoList
             /\ client' = using[g] /\ specs' = fetched[g] /\ up' = TRUE
             /\ misled' = (fetched[g].list < heard)
    <3>1. fetched[g].from = using[g] /\ heard' = heard
      BY <1>9, <2>2 DEF AllHoldLists, HoldsList, Started, At
    <3>2. fetched[g].list = heard \/ fetched[g].list < heard
      BY <1>0 DEF CatalogTypes, Lists
    <3>3. fetched[g].list = heard \/ misled'
      BY <2>2, <3>2
    <3> QED
      BY <2>2, <3>1, <3>3 DEF SpecsOfClient
  <2> QED
    BY <1>9, <2>1, <2>2 DEF Started
<1>10. CASE Discard(g) \/ WriteRequest(g) \/ Respond(g) \/ RequestFails(g) \/ ListRefused(g)
  <2>1. Quiet
    BY <1>10 DEF Discard, WriteRequest, Respond, RequestFails, ListRefused, Shut, Quiet
  <2> QED
    BY <1>1, <2>1
<1>11. CASE ReadNotification(g)
  <2>1. /\ client' = client /\ connected' = connected /\ specs' = specs /\ up' = up
        /\ state' = (IF ~closed /\ up THEN "stale" ELSE state)
    BY <1>11 DEF ReadNotification
  <2>2. client \in connected => ~closed /\ up
    BY <1>0 DEF OneStarts, SpecsOfClient
  <2> QED
    BY <2>1, <2>2 DEF SpecsOfClient
<1>12. CASE Refresh(g) \/ RefreshFailed(g)
  <2>1. Quiet
    BY <1>12 DEF Refresh, RefreshFailed, Quiet
  <2> QED
    BY <1>1, <2>1
<1>13. CASE Apply(g)
  <2>1. CASE SameClient(g)
    <3>1. /\ UNCHANGED <<client, connected, up, heard>> /\ specs' = fetched[g]
          /\ misled' = (fetched[g].list < heard)
      BY <1>13, <2>1 DEF Apply
    <3>2. fetched[g].from = client
      BY <1>13, <2>1 DEF AllHoldLists, HoldsList, Fetching, Apply, At, SameClient
    <3>3. fetched[g].list = heard \/ fetched[g].list < heard
      BY <1>0 DEF CatalogTypes, Lists
    <3>4. fetched[g].list = heard \/ misled'
      BY <3>1, <3>3
    <3>5. (client \in connected => up) /\ (client' \in connected' => up')
      BY <3>1 DEF SpecsOfClient
    <3> QED
      BY <3>1, <3>2, <3>4, <3>5 DEF SpecsOfClient
  <2>2. CASE ~SameClient(g)
    <3>1. Quiet
      BY <1>13, <2>2 DEF Apply, Quiet
    <3> QED
      BY <1>1, <3>1
  <2> QED
    BY <2>1, <2>2
<1>14. CASE NewsStep(g)
  <2>1. Quiet
    BY <1>14 DEF NewsStep, Rebuild, Sync, Snapshot, Install, Quiet
  <2> QED
    BY <1>1, <2>1
<1> QED
  BY <1>3, <1>4, <1>5, <1>6, <1>7, <1>8, <1>9, <1>10, <1>11, <1>12, <1>13, <1>14
  DEF Step, EnsureStep, RequestStep, RefreshStep

-----------------------------------------------------------------------------
\* No caller is moved by another goroutine.
LEMMA OthersKeep ==
    ASSUME CatalogTypes, NEW g \in Goroutines, Begin(g) \/ Step(g)
    PROVE  \A h \in Callers \ {g} :
              pc'[h] = pc[h] /\ using'[h] = using[h] /\ fetched'[h] = fetched[h]
<1>1. CASE ReadNotification(g)
  <2>1. PICK r \in Refreshers : pc' = [pc EXCEPT ![r] = "refresh"]
    BY <1>1 DEF ReadNotification
  <2>2. \A h \in Callers : h # r /\ h \in Goroutines
    BY CallersAssumption DEF Goroutines
  <2>3. UNCHANGED <<using, fetched>>
    BY <1>1 DEF ReadNotification, locals
  <2> QED
    BY <2>1, <2>2, <2>3 DEF CatalogTypes
<1>2. CASE ~ReadNotification(g)
  BY <1>2, MoverAlone DEF Others, Goroutines
<1> QED
  BY <1>1, <1>2

Holding(h) == h \in Callers /\ pc[h] \in StartZone \union {"discard"}

\* A process that lives on is held by whom it was, or by the goroutine that moves.
LEMMA StillOwned ==
    ASSUME AllOwned, NEW g \in Goroutines, NEW c \in connected,
           \A h \in Callers \ {g} : pc'[h] = pc[h] /\ using'[h] = using[h],
           c # client, Holding(g) => using[g] # c
    PROVE  Owned(c)'
BY DEF AllOwned, Owned, Holding

LEMMA AllOwnedStep ==
    ASSUME CatalogTypes, RefreshersRefresh, OneStarts, AllHoldLists, AllStartedClients, AllOwned,
           NEW g \in Goroutines, Begin(g) \/ Step(g)
    PROVE  AllOwned'
<1> DEFINE Mine(c) == c = client' \/ (Holding(g)' /\ using'[g] = c)
           Still == \A c \in connected' :
                       Mine(c) \/ (c \in connected /\ c # client /\ (Holding(g) => using[g] # c))
           Same == client' = client /\ connected' \subseteq connected
<1>1. ASSUME Still PROVE AllOwned'
  <2>1. \A c : Mine(c) => Owned(c)'
    BY DEF Owned, Holding
  <2>2. \A c \in connected' : Owned(c)'
    BY <1>1, <2>1, OthersKeep, StillOwned
  <2> QED
    BY <2>2 DEF AllOwned
<1>2. ASSUME Same, ~Holding(g) PROVE Still
  BY <1>2
<1>3. ASSUME Same, using'[g] = using[g], Holding(g) => Holding(g)' PROVE Still
  BY <1>3
<1>4. ASSUME Same, using[g] \notin connected' PROVE Still
  BY <1>4
<1> HIDE DEF Still, Same
<1> USE DEF server, managed, At
<1>5. ASSUME Begin(g) \/ Absorb(g) \/ AbsorbFirst(g) \/ Refused(g) \/ TakeClient(g) PROVE Still
  <2>1. Same
    BY <1>5 DEF Begin, Absorb, AbsorbFirst, Refused, TakeClient, Same
  <2>2. ~Holding(g)
    BY <1>5 DEF Begin, Absorb, AbsorbFirst, Refused, TakeClient, Ensuring, Holding, StartZone
  <2> QED
    BY <1>2, <2>1, <2>2
<1>6. ASSUME Return(g) \/ Refresh(g) \/ RefreshFailed(g) \/ Apply(g) \/ Sync(g) PROVE Still
  <2>1. Same
    BY <1>6 DEF Return, Refresh, RefreshFailed, Apply, Sync, Same
  <2>2. ~Holding(g)
    BY <1>6 DEF Return, Refresh, RefreshFailed, Apply, Sync, Holding, StartZone
  <2> QED
    BY <1>2, <2>1, <2>2
<1>7. ASSUME StartLocked(g) PROVE Still
  <2>1. connected' = connected /\ client \notin connected
    BY <1>7 DEF StartLocked, Usable, CatalogTypes
  <2>2. ~Holding(g)
    BY <1>7 DEF StartLocked, Ensuring, Holding, StartZone
  <2> QED
    BY <2>1, <2>2 DEF Still
<1>8. ASSUME CloseServer(g) PROVE Still
  <2>1. connected' = connected /\ using' = [using EXCEPT ![g] = client] /\ pc'[g] = "discard"
    BY <1>8, Published DEF CloseServer
  <2>2. using'[g] = client
    BY <2>1, Aimed
  <2>3. g \in Callers /\ ~Holding(g)
    BY <1>8 DEF CloseServer, Holding, StartZone, RefreshersRefresh, RefreshPlaces, Goroutines
  <2> QED
    BY <2>1, <2>2, <2>3 DEF Still, Holding
<1>9. ASSUME Spawn(g) PROVE Still
  <2>1. g \in Callers /\ client = 0 /\ 0 \notin connected
    BY <1>9, StarterAlone DEF Spawn, CatalogTypes
  <2>2. CASE /\ connected' = (connected \ {using[g]}) \union {clients + 1}
             /\ using' = [using EXCEPT ![g] = clients + 1] /\ Goto(g, "list")
    <3>1. using'[g] = clients + 1 /\ pc'[g] = "list"
      BY <2>2, Aimed, Went
    <3> QED
      BY <2>1, <2>2, <3>1 DEF Still, Holding, StartZone
  <2>3. CASE Shut(using[g])
    BY <2>1, <2>3 DEF Still, Shut
  <2> QED
    BY <1>9, <2>2, <2>3 DEF Spawn
<1>10. ASSUME Started(g) PROVE Still
  <2>0. g \in Callers /\ client = 0 /\ 0 \notin connected /\ connected' = connected
    BY <1>10, StarterAlone DEF Started, CatalogTypes
  <2>1. CASE Publish(g, News, "discard") /\ UNCHANGED using
    <3>1. pc'[g] = "discard"
      BY <2>1, Published
    <3> QED
      BY <2>0, <2>1, <3>1 DEF Still, Holding
  <2>2. CASE fetched[g] = NoList
    <3>1. using[g] \notin connected
      BY <1>10, <2>0, <2>2 DEF Started, AllStartedClients, StartedClient
    <3> QED
      BY <2>0, <3>1 DEF Still
  <2>3. CASE client' = using[g]
    BY <2>0, <2>3 DEF Still
  <2> QED
    BY <1>10, <2>1, <2>2, <2>3 DEF Started
<1>11. ASSUME WriteRequest(g) PROVE Still
  <2>1. Same /\ using'[g] = using[g]
    BY <1>11 DEF WriteRequest, Same
  <2>2. pc[g] \in {"list", "prompts", "call"} /\ pc'[g] = Sent[pc[g]]
    BY <1>11, Went DEF WriteRequest, Sent
  <2>3. Sent["list"] = "listing" /\ Sent["prompts"] = "prompting"
    BY DEF Sent
  <2>4. Holding(g) => Holding(g)'
    BY <2>2, <2>3 DEF Holding, StartZone
  <2> QED
    BY <1>3, <2>1, <2>4
<1>12. ASSUME ReadNotification(g) PROVE Still
  <2>1. Same /\ using'[g] = using[g]
    BY <1>12 DEF ReadNotification, Same, locals
  <2>2. PICK r \in Refreshers : pc[r] = "idle" /\ pc' = [pc EXCEPT ![r] = "refresh"]
    BY <1>12 DEF ReadNotification
  <2>3. g # r
    BY <1>12, <2>2 DEF ReadNotification, Asking
  <2>4. pc'[g] = pc[g]
    BY <2>2, <2>3 DEF CatalogTypes
  <2> QED
    BY <1>3, <2>1, <2>4 DEF Holding
<1>13. ASSUME Respond(g) PROVE Still
  <2>1. Same
    BY <1>13 DEF Respond, Same
  <2>2. CASE pc[g] = "calling"
    BY <1>2, <2>1, <2>2 DEF Holding, StartZone
  <2>3. CASE pc[g] = "listing" /\ Goto(g, "prompts") /\ UNCHANGED using
    BY <1>3, <2>1, <2>3, Went DEF Holding, StartZone
  <2>4. CASE Goto(g, IF g \in Callers THEN "started" ELSE "apply") /\ UNCHANGED using
    BY <1>3, <2>1, <2>4, Went DEF Holding, StartZone
  <2> QED
    BY <1>13, <2>2, <2>3, <2>4 DEF Respond
<1>14. ASSUME RequestFails(g) \/ Discard(g) PROVE Still
  <2>1. Same /\ using[g] \notin connected'
    BY <1>14 DEF RequestFails, Discard, Shut, Same
  <2> QED
    BY <1>4, <2>1
<1>15. ASSUME ListRefused(g) PROVE Still
  <2>1. Same
    BY <1>15 DEF ListRefused, Shut, Same
  <2>2. CASE g \in Callers
    BY <1>4, <1>15, <2>1, <2>2, CallersAssumption DEF ListRefused, Shut
  <2>3. CASE g \notin Callers
    BY <1>2, <2>1, <2>3 DEF Holding
  <2> QED
    BY <2>2, <2>3
<1>16. ASSUME Rebuild(g) \/ Snapshot(g) \/ Install(g) PROVE Still
  <2>1. Same /\ using'[g] = using[g] /\ pc' = pc
    BY <1>16 DEF Rebuild, Snapshot, Install, Same, locals
  <2> QED
    BY <1>3, <2>1 DEF Holding
<1> HIDE DEF server, managed, At
<1> QED
  BY <1>1, <1>5, <1>6, <1>7, <1>8, <1>9, <1>10, <1>11, <1>12, <1>13, <1>14, <1>15, <1>16
  DEF Step, EnsureStep, RequestStep, RefreshStep, NewsStep

-----------------------------------------------------------------------------
\* A client that is not connected will not be again.
LEMMA NeverAgain ==
    ASSUME CatalogTypes, NEW g \in Goroutines, Begin(g) \/ Step(g), NEW h \in Goroutines,
           using[h] \notin connected
    PROVE  using[h] \notin connected'
<1>1. using[h] \in 0..clients /\ clients \in Nat
  BY DEF CatalogTypes
<1>2. using[h] # clients + 1
  BY <1>1
<1> QED
  BY <1>2, SharedChanges

\* What another goroutine does to the client that a start has ended with.
LEMMA OthersStartedClient ==
    ASSUME CatalogTypes, RefreshersRefresh, OneStarts, AllStartedClients,
           NEW g \in Goroutines, Begin(g) \/ Step(g), NEW h \in Callers \ {g}
    PROVE  StartedClient(h)'
<1>0. StartedClient(h) /\ h \in Goroutines
  BY DEF AllStartedClients, Goroutines
<1>1. pc'[h] = pc[h] /\ using'[h] = using[h] /\ fetched'[h] = fetched[h]
  BY OthersKeep
<1>2. using[h] \notin connected => using[h] \notin connected'
  BY <1>0, NeverAgain
<1>3. closed => closed'
  BY SharedChanges
<1>4. 0 \notin connected
  BY DEF CatalogTypes
<1>5. client = using[h] => closed' \/ client' = using[h] \/ using[h] \notin connected'
  <2>1. CASE StartLocked(g)
    BY <1>2, <2>1 DEF StartLocked, Usable
  <2>2. CASE Started(g)
    BY <1>2, <1>4, <2>2, StarterAlone DEF Started, At
  <2>3. CASE CloseServer(g)
    BY <2>3 DEF CloseServer
  <2>4. CASE ~StartLocked(g) /\ ~Started(g) /\ ~CloseServer(g)
    BY <2>4, ServerSays
  <2> QED
    BY <2>1, <2>2, <2>3, <2>4
<1> QED
  BY <1>0, <1>1, <1>2, <1>3, <1>5 DEF StartedClient

\* What a goroutine itself does to the client that it has started.
LEMMA MoverStartedClient ==
    ASSUME CatalogTypes, AllHoldLists, AllStartedClients,
           NEW g \in Callers, Begin(g) \/ Step(g)
    PROVE  StartedClient(g)'
<1> DEFINE Out == pc'[g] \notin {"started", "return", "panicked"}
<1>0. g \in Goroutines /\ StartedClient(g) /\ 0 \notin connected
  BY DEF AllStartedClients, Goroutines, CatalogTypes
<1>1. ASSUME Out PROVE StartedClient(g)'
  BY <1>1 DEF StartedClient
<1>2. ASSUME NEW news, NEW label, label \notin {"started", "return", "panicked"},
             Publish(g, news, label)
      PROVE  Out
  BY <1>0, <1>2, Published
<1>3. ASSUME NEW news, Leave(g, news) PROVE Out
  BY <1>0, <1>3, Left
<1>4. ASSUME using[g] \notin connected', using' = using, pc'[g] = "started" PROVE StartedClient(g)'
  BY <1>4 DEF StartedClient
<1> HIDE DEF Out
<1>5. ASSUME Begin(g) PROVE Out
  BY <1>2, <1>5 DEF Begin, Goto
<1>6. ASSUME Absorb(g) \/ Refused(g) \/ Discard(g) PROVE Out
  BY <1>3, <1>6 DEF Absorb, Refused, Discard
<1>7. ASSUME AbsorbFirst(g) \/ StartLocked(g) \/ CloseServer(g) PROVE Out
  BY <1>2, <1>7 DEF AbsorbFirst, StartLocked, CloseServer
<1>8. ASSUME TakeClient(g) PROVE Out
  BY <1>2, <1>3, <1>8 DEF TakeClient, Goto
<1>9. CASE Spawn(g)
  <2>1. CASE Goto(g, "list")
    BY <1>1, <1>2, <2>1 DEF Goto
  <2>2. CASE Shut(using[g]) /\ Goto(g, "started") /\ UNCHANGED using
    BY <1>0, <1>4, <2>2, Went DEF Shut
  <2> QED
    BY <1>9, <2>1, <2>2 DEF Spawn
<1>10. ASSUME WriteRequest(g) PROVE Out
  <2>1. pc[g] \in {"list", "prompts", "call"} /\ pc'[g] = Sent[pc[g]]
    BY <1>0, <1>10, Went DEF WriteRequest, Sent
  <2>2. Sent["list"] = "listing" /\ Sent["prompts"] = "prompting" /\ Sent["call"] = "calling"
    BY DEF Sent
  <2> QED
    BY <2>1, <2>2 DEF Out
<1>11. ASSUME ReadNotification(g) PROVE Out
  <2>1. pc[g] \in {"listing", "prompting", "calling"}
    BY <1>11 DEF ReadNotification, Asking
  <2>2. pc'[g] \in {pc[g], "refresh"}
    BY <1>0, <1>11 DEF ReadNotification, CatalogTypes
  <2> QED
    BY <2>1, <2>2 DEF Out
<1>12. CASE Respond(g)
  <2>1. CASE Leave(g, FALSE)
    BY <1>1, <1>3, <2>1
  <2>2. CASE Goto(g, "prompts")
    BY <1>1, <1>2, <2>2 DEF Goto
  <2>3. CASE pc[g] = "prompting" /\ Goto(g, "started") /\ UNCHANGED <<using, fetched>>
    <3>1. fetched[g] # NoList
      BY <1>0, <2>3 DEF AllHoldLists, HoldsList, Fetching
    <3>2. pc'[g] = "started" /\ fetched'[g] # NoList
      BY <1>0, <2>3, <3>1, Went
    <3> QED
      BY <3>2 DEF StartedClient
  <2> QED
    BY <1>12, <2>1, <2>2, <2>3 DEF Respond
<1>13. CASE RequestFails(g)
  <2>1. CASE pc[g] = "calling"
    BY <1>1, <1>0, <1>13, <2>1, Went DEF RequestFails, Out
  <2>2. CASE pc[g] # "calling"
    BY <1>0, <1>4, <1>13, <2>2, Went DEF RequestFails, Shut
  <2> QED
    BY <2>1, <2>2
<1>14. CASE ListRefused(g)
  BY <1>0, <1>4, <1>14, Went, CallersAssumption DEF ListRefused, Shut, locals
<1>15. CASE Started(g)
  <2>1. CASE Publish(g, News, "discard")
    BY <1>1, <1>2, <2>1
  <2>2. CASE Leave(g, News)
    BY <1>1, <1>3, <2>2
  <2>3. CASE client' = using[g] /\ Publish(g, TRUE, "return") /\ UNCHANGED using
    <3>1. pc'[g] = "return" /\ client' = using'[g]
      BY <1>0, <2>3, Published
    <3> QED
      BY <3>1 DEF StartedClient
  <2> QED
    BY <1>15, <2>1, <2>2, <2>3 DEF Started
<1>16. CASE Return(g)
  <2>1. CASE Leave(g, FALSE)
    BY <1>1, <1>3, <2>1
  <2>2. CASE client = 0 /\ Goto(g, "panicked") /\ UNCHANGED <<using, fetched>>
    <3>1. closed' = closed /\ connected' = connected /\ pc'[g] = "panicked" /\ using'[g] = using[g]
      BY <1>0, <1>16, <2>2, Went DEF Return, managed, server
    <3>2. closed \/ using[g] \notin connected
      BY <1>0, <1>16, <2>2 DEF Return, At, StartedClient
    <3> QED
      BY <3>1, <3>2 DEF StartedClient
  <2>3. CASE Goto(g, "call")
    BY <1>1, <1>2, <2>3 DEF Goto
  <2> QED
    BY <1>16, <2>1, <2>2, <2>3 DEF Return
<1>17. CASE NewsStep(g)
  <2>1. CASE Sync(g)
    BY <1>0, <1>1, <2>1 DEF Sync, Out, CatalogTypes
  <2>2. CASE ~Sync(g)
    BY <1>0, <1>17, <2>2
    DEF NewsStep, Rebuild, Snapshot, Install, StartedClient, server, managed, locals
  <2> QED
    BY <2>1, <2>2
<1>18. ~RefreshStep(g)
  BY CallersAssumption DEF RefreshStep
<1> QED
  BY <1>1, <1>5, <1>6, <1>7, <1>8, <1>9, <1>10, <1>11, <1>12, <1>13, <1>14, <1>15, <1>16, <1>17,
     <1>18
  DEF Step, EnsureStep, RequestStep

LEMMA AllStartedClientsStep ==
    ASSUME CatalogTypes, RefreshersRefresh, OneStarts, AllHoldLists, AllStartedClients,
           NEW g \in Goroutines, Begin(g) \/ Step(g)
    PROVE  AllStartedClients'
BY OthersStartedClient, MoverStartedClient DEF AllStartedClients

-----------------------------------------------------------------------------
\* The inductive invariant.
CatalogInv ==
    /\ CatalogTypes /\ RefreshersRefresh /\ OneStarts /\ AllHoldLists /\ AllStartedClients
    /\ NewsCarried /\ SpecsOfClient /\ AllOwned

LEMMA CatalogInvInit == CatalogInit => CatalogInv
<1> SUFFICES ASSUME CatalogInit PROVE CatalogInv
  OBVIOUS
<1>1. /\ clients = 1 /\ client \in {0, 1} /\ connected = {client} \ {0} /\ heard = 0
      /\ spawning = FALSE /\ closed = FALSE
      /\ up = (client = 1) /\ state = IF up THEN "ready" ELSE "other"
      /\ specs = [from |-> client, list |-> 0] /\ tools = specs /\ mirror = specs
  BY DEF CatalogInit
<1>2. /\ pc = [g \in Goroutines |-> "idle"] /\ carry = [g \in Goroutines |-> "none"]
      /\ goal = [g \in Goroutines |-> "none"] /\ using = [g \in Goroutines |-> 0]
      /\ fetched = [g \in Goroutines |-> NoList]
  BY DEF CatalogInit
<1>3. NoList \in Lists /\ NoList.list = 0
  BY DEF NoList, Lists
<1>4. CatalogTypes
  BY <1>1, <1>2, <1>3 DEF CatalogTypes
<1>5. RefreshersRefresh
  BY <1>2 DEF RefreshersRefresh, RefreshPlaces, Goroutines
<1>6. OneStarts
  BY <1>1, <1>2 DEF OneStarts, StartZone, Goroutines
<1>7. AllHoldLists
  BY <1>2 DEF AllHoldLists, HoldsList, Fetching
<1>8. AllStartedClients
  BY <1>2 DEF AllStartedClients, StartedClient, Goroutines
<1>9. NewsCarried
  BY <1>1 DEF NewsCarried
<1>10. SpecsOfClient
  BY <1>1 DEF SpecsOfClient
<1>11. AllOwned
  BY <1>1 DEF AllOwned, Owned
<1> QED
  BY <1>4, <1>5, <1>6, <1>7, <1>8, <1>9, <1>10, <1>11 DEF CatalogInv

LEMMA CatalogInvStep == CatalogInv /\ [CatalogNext]_catalogVars => CatalogInv'
<1> SUFFICES ASSUME CatalogInv, [CatalogNext]_catalogVars PROVE CatalogInv'
  OBVIOUS
<1>0. /\ CatalogTypes /\ RefreshersRefresh /\ OneStarts /\ AllHoldLists /\ AllStartedClients
      /\ NewsCarried /\ SpecsOfClient /\ AllOwned
  BY DEF CatalogInv
<1>1. CatalogTypes'
  BY <1>0, CatalogTypesStep
<1>2. ASSUME NEW g \in Goroutines, Begin(g) \/ Step(g) PROVE CatalogInv'
  BY <1>0, <1>1, <1>2, RefreshersRefreshStep, OneStartsStep, HoldsListStep, AllStartedClientsStep,
     NewsCarriedStep, SpecsOfClientStep, AllOwnedStep DEF CatalogInv
<1>3. CASE ServerDies \/ UNCHANGED catalogVars
  <2>1. /\ connected' \subseteq connected
        /\ UNCHANGED <<heard, client, spawning, closed, up, state, specs>>
        /\ UNCHANGED <<tools, mirror, subscribed, misled, overtaken>>
        /\ UNCHANGED <<pc, carry, goal, using, fetched>>
    BY <1>3 DEF ServerDies, Shut, catalogVars, server, managed, copies, locals, history
  <2>2. RefreshersRefresh' /\ AllHoldLists' /\ OneStarts'
    BY <1>0, <2>1 DEF RefreshersRefresh, AllHoldLists, HoldsList, OneStarts
  <2>3. AllStartedClients' /\ AllOwned'
    BY <1>0, <2>1 DEF AllStartedClients, StartedClient, AllOwned, Owned
  <2>4. NewsCarried' /\ SpecsOfClient'
    BY <1>0, <2>1 DEF NewsCarried, SpecsOfClient
  <2> QED
    BY <1>1, <2>2, <2>3, <2>4 DEF CatalogInv
<1> QED
  BY <1>2, <1>3 DEF CatalogNext

LEMMA CatalogInvAlways == CatalogSpec => []CatalogInv
BY CatalogInvInit, CatalogInvStep, PTL DEF CatalogSpec

\* CallHasClient, for any number of callers, refreshers and clients: a call that has
\* started a client does not find that another start took it away (ensureConnected,
\* startLocked).
THEOREM CallersHaveAClient == CatalogSpec => []CallHasClient
<1>1. CatalogInv => CallHasClient
  BY DEF CatalogInv, AllStartedClients, StartedClient, CallHasClient
<1> QED
  BY <1>1, CatalogInvAlways, PTL

\* NoOrphan: who lets a process go is the one that closes it, and nothing is installed
\* in a server that was closed (startLocked, managedServer.close).
THEOREM NoProcessIsOrphaned == CatalogSpec => []NoOrphan
<1>1. CatalogInv => NoOrphan
  BY DEF CatalogInv, OneStarts, AllOwned, Owned, StartZone, NoOrphan, Starting
<1> QED
  BY <1>1, CatalogInvAlways, PTL

\* CatalogSettles: however the news cross, when nobody carries any the copies agree, but
\* for the two races the property names (commitLocked, rebuildCatalog,
\* syncMCPToolsFromManager).
THEOREM CopiesAgreeAtRest == CatalogSpec => []CatalogSettles
<1>1. CatalogInv => CatalogSettles
  BY DEF CatalogInv, NewsCarried, SpecsOfClient, CatalogSettles, AtRest
<1> QED
  BY <1>1, CatalogInvAlways, PTL
=============================================================================
