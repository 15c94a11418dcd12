---------------------------- MODULE Charts_proofs ----------------------------
(***************************************************************************)
(* Proofs about Charts: whatever the timestamps, the steps and the change  *)
(* of the viewer's clock are, the timeline of a session has a bounded      *)
(* number of bars, each prompt and reply is in one of them, the bars begin *)
(* at full marks of the clock, the daily chart is that of the rows when    *)
(* they were queried, and a usage window counts from where it began.       *)
(***************************************************************************)
EXTENDS Charts, TLAPS, FiniteSetTheorems, NaturalsInduction

-----------------------------------------------------------------------------
\* Quotients, and the least and the greatest of a set of numbers.

LEMMA Divide ==
    ASSUME NEW a \in Int, NEW d \in Nat \ {0}
    PROVE  /\ a \div d \in Int /\ a % d \in 0..d - 1
           /\ a = d * (a \div d) + (a % d)
  OBVIOUS

LEMMA Times ==
    ASSUME NEW p \in Int, NEW q \in Int, NEW d \in Nat \ {0}, p < q
    PROVE  d * p + d <= d * q
  OBVIOUS

LEMMA Distribute ==
    ASSUME NEW p \in Int, NEW q \in Int, NEW d \in Int
    PROVE  p * d + q * d = (p + q) * d
  OBVIOUS

LEMMA QuotientUnique ==
    ASSUME NEW a \in Int, NEW d \in Nat \ {0}, NEW q \in Int, d * q <= a, a < d * q + d
    PROVE  a \div d = q /\ a % d = a - d * q
  <1>1. a \div d \in Int /\ a % d \in 0..d - 1 /\ a = d * (a \div d) + (a % d)
    BY Divide
  <1>2. ~ q < a \div d
    BY <1>1, Times
  <1>3. ~ a \div d < q
    BY <1>1, Times
  <1>4. a \div d = q 
    BY <1>1, <1>2, <1>3
  <1> QED BY <1>1, <1>4

\* Multiples of a number.
LEMMA MultipleOf ==
    ASSUME NEW d \in Nat \ {0}, NEW q \in Int
    PROVE  (d * q) % d = 0
  <1> DEFINE a == d * q
  <1>1. a \in Int
    OBVIOUS
  <1>2. d * q <= a /\ a < d * q + d /\ a - d * q = 0
    BY <1>1
  <1> HIDE DEF a
  <1>3. a % d = a - d * q
    BY <1>1, <1>2, QuotientUnique
  <1> QED BY <1>2, <1>3 DEF a

LEMMA IsMultiple ==
    ASSUME NEW a \in Int, NEW d \in Nat \ {0}, a % d = 0
    PROVE  \E q \in Int : a = d * q
  <1> DEFINE q == a \div d
  <1>1. q \in Int /\ a = d * q + (a % d)
    BY Divide
  <1> HIDE DEF q
  <1>2. d * q \in Int
    BY <1>1
  <1> QED BY <1>1, <1>2

LEMMA LeastOfNat ==
    ASSUME NEW S \in SUBSET Nat, S # {}
    PROVE  \E n \in S : \A m \in S : n <= m
  <1> DEFINE R == {p \in Nat \X Nat : p[1] < p[2]}
  <1>1. IsWellFoundedOn(R, Nat)
    BY NatLessThanWellFounded DEF OpToRel
  <1>2. PICK n \in S : \A m \in S : ~ (<<m, n>> \in R)
    <2> HIDE DEF R
    <2> QED BY <1>1, WFMin
  <1>3. ASSUME NEW m \in S PROVE n <= m
    <2>1. m \in Nat /\ n \in Nat /\ ~ (<<m, n>> \in R)
      BY <1>2
    <2>2. ~ (m < n)
      BY <2>1
    <2> QED BY <2>1, <2>2
  <1> QED BY <1>3

LEMMA MinOf ==
    ASSUME NEW S \in SUBSET Nat, S # {}
    PROVE  Min(S) \in S /\ \A m \in S : Min(S) <= m
  <1>1. PICK n \in S : \A m \in S : n <= m
    BY LeastOfNat
  <1> QED BY <1>1 DEF Min

LEMMA MaxOf ==
    ASSUME NEW S \in SUBSET Int, S # {}, NEW b \in Int, \A x \in S : x <= b
    PROVE  Max(S) \in S /\ \A m \in S : m <= Max(S)
  <1> DEFINE T == {b - x : x \in S}
  <1>1. T \in SUBSET Nat /\ T # {}
    <2>1. ASSUME NEW x \in S PROVE b - x \in Nat
      OBVIOUS
    <2> QED BY <2>1
  <1>2. PICK n \in T : \A m \in T : n <= m
    BY <1>1, LeastOfNat
  <1>3. PICK x \in S : n = b - x
    BY <1>2
  <1>4. \A m \in S : m <= x
    BY <1>2, <1>3
  <1> QED BY <1>3, <1>4 DEF Max

-----------------------------------------------------------------------------
\* Types.

\* There are finitely many messages, and there is a latest one.
Countable ==
    /\ IsFiniteSet(messages)
    /\ \E b \in Nat : \A e \in events : e.ts <= b

\* A row of daily_usage counts at least one reply of its date and model.
LEMMA RollupRows ==
    ASSUME NEW ms \in SUBSET Incoming, IsFiniteSet(ms), NEW r \in Rollup(ms)
    PROVE  /\ r.date \in Nat /\ r.model \in Models /\ r.output \in Nat \ {0}
           /\ r = [date |-> r.date, model |-> r.model, output |-> r.output]
           /\ r.output = Cardinality({x \in Events(ms) : /\ Assistant(x) /\ Date(x.ts) = r.date
                                                         /\ x.model = r.model})
  <1>1. Cardinality(ms) \in Nat
    BY FS_CardinalityType
  <1>2. \A x \in Events(ms) : x.ts \in Nat
    BY ConstantsOk DEF Events, Message
  <1>3. \A x \in Events(ms) : Date(x.ts) \in Nat
    <2> SUFFICES ASSUME NEW x \in Events(ms) PROVE Date(x.ts) \in Nat
      OBVIOUS
    <2>1. x.ts \in Nat /\ Day \in Nat \ {0}
      BY <1>2, ConstantsOk
    <2> HIDE DEF Events
    <2>2. x.ts \div Day \in Nat
      BY <2>1
    <2> QED BY <2>2 DEF Date
  <1>4. /\ r \in [date : {Date(x.ts) : x \in Events(ms)}, model : Models, output : 1..Cardinality(ms)]
        /\ r.output = Cardinality({x \in Events(ms) : /\ Assistant(x) /\ Date(x.ts) = r.date
                                                      /\ x.model = r.model})
    BY DEF Rollup, Count
  <1>5. r.date \in Nat
    BY <1>3, <1>4
  <1>6. r.output \in Nat \ {0}
    BY <1>1, <1>4
  <1> QED BY <1>4, <1>5, <1>6

LEMMA DateOf ==
    ASSUME NEW t \in Nat
    PROVE  Date(t) \in Nat
  <1>1. Day \in Nat \ {0}
    BY ConstantsOk
  <1> QED BY <1>1 DEF Date

LEMMA DateGrows ==
    ASSUME NEW t \in Nat, NEW u \in Nat, t <= u
    PROVE  Date(t) <= Date(u)
  <1>1. Day \in Nat \ {0}
    BY ConstantsOk
  <1>2. /\ t \div Day \in Int /\ t % Day \in 0..Day - 1 /\ t = Day * (t \div Day) + (t % Day)
        /\ u \div Day \in Int /\ u % Day \in 0..Day - 1 /\ u = Day * (u \div Day) + (u % Day)
    BY <1>1, Divide
  <1>3. ~(u \div Day < t \div Day)
    <2>1. SUFFICES ASSUME u \div Day < t \div Day PROVE FALSE
      OBVIOUS
    <2>2. Day * (u \div Day) + Day <= Day * (t \div Day)
      BY <1>1, <1>2, <2>1, Times
    <2>3. Day * (u \div Day) \in Int /\ Day * (t \div Day) \in Int
      BY <1>1, <1>2
    <2> QED BY <1>1, <1>2, <2>2, <2>3
  <1> QED BY <1>2, <1>3, DateOf DEF Date

LEMMA PivotTypes ==
    ASSUME NEW rs, \A r \in rs : r.date \in Nat, NEW range \in Nat, NEW t \in Nat
    PROVE  /\ Pivot(rs, range, t).first \in Int /\ Pivot(rs, range, t).last \in Int
           /\ DOMAIN Pivot(rs, range, t).data \subseteq Models
  <1> DEFINE valid == {r \in rs : Plausible(r, Date(t))}
             first == IF range > 0 THEN Date(t) - range ELSE Min({r.date : r \in valid})
  <1>1. Date(t) \in Nat
    BY DateOf
  <1>2. CASE valid = {}
    <2>1. Pivot(rs, range, t) = Empty
      BY <1>2 DEF Pivot
    <2>2. DOMAIN << >> = {}
      OBVIOUS
    <2> QED BY <2>1, <2>2 DEF Empty
  <1>3. CASE valid # {}
    <2>1. first \in Int
      <3>1. {r.date : r \in valid} \in SUBSET Nat /\ {r.date : r \in valid} # {}
        BY <1>3
      <3>2. Min({r.date : r \in valid}) \in Nat
        BY <3>1, MinOf
      <3> QED BY <1>1, <3>2
    <2>2. Pivot(rs, range, t).first = first /\ Pivot(rs, range, t).last = Date(t)
      BY <1>3 DEF Pivot
    <2>3. DOMAIN Pivot(rs, range, t).data \subseteq Models
      BY <1>3 DEF Pivot
    <2> QED BY <1>1, <2>1, <2>2, <2>3
  <1> QED BY <1>2, <1>3

LEMMA TypeInit == Init => TypeOK /\ Countable
  <1> SUFFICES ASSUME Init PROVE TypeOK /\ Countable
    OBVIOUS
  <1>1. DOMAIN << >> = {}
    OBVIOUS
  <1>2. now \in Start..MaxNow
    BY ConstantsOk DEF Init
  <1>3. TypeOK
    BY <1>1, <1>2 DEF Init, TypeOK, Empty
  <1>4. Countable
    BY FS_EmptySet DEF Init, Countable, events, Events
  <1> QED BY <1>3, <1>4

\* Each kind of step keeps the types and the bound on the timestamps.
LEMMA TypeNext == TypeOK /\ Countable /\ [Next]_vars => TypeOK' /\ Countable'
  <1> SUFFICES ASSUME TypeOK, Countable, [Next]_vars PROVE TypeOK' /\ Countable'
    OBVIOUS
  <1>1. CASE Tick
    <2>1. now + 1 \in Start..MaxNow
      BY <1>1, ConstantsOk DEF TypeOK, Tick
    <2>2. TypeOK'
      BY <1>1, <2>1 DEF TypeOK, Tick
    <2> QED BY <1>1, <2>2 DEF Tick, Countable, events, Events
  <1>2. ASSUME NEW m \in Incoming, Add(m) PROVE TypeOK' /\ Countable'
    <2>1. TypeOK'
      BY <1>2 DEF TypeOK, Add
    <2>2. IsFiniteSet(messages')
      BY <1>2, FS_AddElement DEF Add, Countable
    <2>3. PICK b \in Nat : \A e \in events : e.ts <= b
      BY DEF Countable
    <2>4. \A e \in Events(messages \cup {m}) : e \in events \/ (e = m /\ m.ts \in Nat)
      BY ConstantsOk DEF events, Events, Message
    <2>5. \E c \in Nat : \A e \in Events(messages \cup {m}) : e.ts <= c
      <3>1. CASE m.ts \in Nat
        <4> DEFINE c == b + m.ts
        <4>1. \A e \in events : e.ts \in Nat
          BY ConstantsOk DEF events, Events, TypeOK, Message
        <4>2. c \in Nat /\ \A e \in events : e.ts <= c
          BY <2>3, <3>1, <4>1
        <4>3. m.ts <= c
          BY <2>3, <3>1
        <4> QED BY <2>4, <4>2, <4>3
      <3>2. CASE m.ts \notin Nat
        BY <2>3, <2>4, <3>2
      <3> QED BY <3>1, <3>2
    <2>6. Countable'
      BY <1>2, <2>2, <2>5 DEF Countable, Add, events
    <2> QED BY <2>1, <2>6
  <1>3. CASE RebuildRollups
    BY <1>3 DEF TypeOK, RebuildRollups, Countable, events, Events
  <1>4. ASSUME NEW range \in DayRanges, QueryDaily(range) PROVE TypeOK' /\ Countable'
    <2>1. rolled \in SUBSET Incoming /\ IsFiniteSet(rolled)
      BY FS_Subset DEF TypeOK, Countable
    <2>2. \A r \in rows' : r \in Rollup(rolled)
      BY <1>4 DEF QueryDaily, InRange
    <2>3. ASSUME NEW r \in rows'
          PROVE  r \in [date : Nat, model : Models, output : Nat \ {0}]
      <3>1. /\ r.date \in Nat /\ r.model \in Models /\ r.output \in Nat \ {0}
            /\ r = [date |-> r.date, model |-> r.model, output |-> r.output]
        BY <2>1, <2>2, RollupRows
      <3> QED BY <3>1
    <2>4. ASSUME NEW r \in rows', NEW s \in rows', r.date = s.date, r.model = s.model
          PROVE  r = s
      <3> DEFINE Of(d, m) == {x \in Events(rolled) : /\ Assistant(x) /\ Date(x.ts) = d
                                                     /\ x.model = m}
      <3>1. r.output = Cardinality(Of(r.date, r.model)) /\ s.output = Cardinality(Of(s.date, s.model))
        BY <2>1, <2>2, RollupRows
      <3>2. /\ r = [date |-> r.date, model |-> r.model, output |-> r.output]
            /\ s = [date |-> s.date, model |-> s.model, output |-> s.output]
        BY <2>1, <2>2, RollupRows
      <3>3. r.output = s.output
        <4> HIDE DEF Of
        <4> QED BY <2>4, <3>1
      <3> QED BY <2>4, <3>2, <3>3
    <2>5. TypeOK'
      BY <1>4, <2>3, <2>4 DEF TypeOK, QueryDaily
    <2> QED BY <1>4, <2>5 DEF QueryDaily, Countable, events, Events
  <1>5. CASE BuildDaily
    <2>1. now \in Nat /\ days \in Nat /\ \A r \in rows : r.date \in Nat
      BY ConstantsOk DEF TypeOK
    <2>2. /\ chart'.first \in Int /\ chart'.last \in Int
          /\ DOMAIN chart'.data \subseteq Models
      BY <1>5, <2>1, PivotTypes DEF BuildDaily
    <2>3. TypeOK'
      BY <1>5, <2>2 DEF TypeOK, BuildDaily
    <2> QED BY <1>5, <2>3 DEF BuildDaily, Countable, events, Events
  <1>6. CASE UNCHANGED vars
    BY <1>6 DEF vars, TypeOK, Countable, events, Events
  <1> QED BY <1>1, <1>2, <1>3, <1>4, <1>5, <1>6 DEF Next

\* TypeOK: the variables keep their types, a row has a date and a model of its own, and
\* there is a latest timestamp among finitely many messages (buildTimeline and buildDaily
\* take the least and the greatest of them).
THEOREM TypeCorrect == Spec => [](TypeOK /\ Countable)
  BY TypeInit, TypeNext, PTL DEF Spec

-----------------------------------------------------------------------------
\* The daily chart.

LEMMA OutputNone == Output({}) = 0
  BY DEF Output, MapThenSumSet, MapThenFoldSet

LEMMA OutputOne ==
    ASSUME NEW r, r.output \in Nat
    PROVE  Output({r}) = r.output
  <1> DEFINE Body(f) == [s \in SUBSET {r} |->
                           IF s = {} THEN 0
                           ELSE (CHOOSE x \in s : TRUE).output + f[s \ {CHOOSE x \in s : TRUE}]]
             it == CHOOSE f : f = Body(f)
             w  == [s \in SUBSET {r} |-> IF s = {} THEN 0 ELSE r.output]
  <1>1. Output({r}) = it[{r}]
    BY DEF Output, MapThenSumSet, MapThenFoldSet
  <1>2. \A s \in SUBSET {r} : s # {} => s = {r} /\ (CHOOSE x \in s : TRUE) = r /\ s \ {r} = {}
    OBVIOUS
  <1>3. w = Body(w)
    BY <1>2
  <1>4. it = Body(it)
    <2> HIDE DEF Body, w
    <2> QED BY <1>3
  <1>5. it[{}] = 0
    BY <1>4
  <1>6. it[{r}] = r.output + it[{}]
    <2> HIDE DEF it
    <2> QED BY <1>2, <1>4
  <1> QED BY <1>1, <1>5, <1>6

\* What GetDailyUsage returns for the messages ms at time t.
RowsOf(ms, range, t) == {r \in Rollup(ms) : range > 0 => r.date >= Date(t) - range}

\* The replies of one model on one date that a row counts.
RepliesOf(ms, d, m) == {x \in Events(ms) : Assistant(x) /\ Date(x.ts) = d /\ x.model = m}

\* A date and model has a row just if it has a reply.
LEMMA RowExists ==
    ASSUME NEW ms \in SUBSET Incoming, IsFiniteSet(ms), NEW d, NEW m \in Models,
           RepliesOf(ms, d, m) # {}
    PROVE  [date |-> d, model |-> m, output |-> Cardinality(RepliesOf(ms, d, m))] \in Rollup(ms)
  <1> DEFINE n == Cardinality(RepliesOf(ms, d, m))
             row == [date |-> d, model |-> m, output |-> n]
  <1>1. RepliesOf(ms, d, m) \in SUBSET ms /\ IsFiniteSet(RepliesOf(ms, d, m))
    BY FS_Subset DEF RepliesOf, Events
  <1>2. n \in Nat /\ n <= Cardinality(ms) /\ Cardinality(ms) \in Nat /\ n # 0
    BY <1>1, FS_CardinalityType, FS_Subset, FS_EmptySet
  <1>3. n \in 1..Cardinality(ms)
    BY <1>2
  <1>4. d \in {Date(x.ts) : x \in Events(ms)}
    BY DEF RepliesOf
  <1>5. /\ row \in [date : {Date(x.ts) : x \in Events(ms)}, model : Models,
                    output : 1..Cardinality(ms)]
        /\ row.date = d /\ row.model = m /\ row.output = n
    BY <1>3, <1>4
  <1>6. row.output = Cardinality({x \in Events(ms) : /\ Assistant(x) /\ Date(x.ts) = row.date
                                                     /\ x.model = row.model})
    BY <1>5 DEF RepliesOf
  <1> QED BY <1>5, <1>6 DEF Rollup, Count

\* The replies that a cell of the chart is to count.
Charted(ms, d, m) ==
    {x \in ms : /\ x.ts # NoTime /\ Assistant(x) /\ x.model = m
                /\ Date(x.ts) = d /\ d >= Earliest}

\* The rows at hand that the chart made at time u has a place for; those of one cell.
ValidRows(ms, range, t, u) == {r \in RowsOf(ms, range, t) : Plausible(r, Date(u))}

CellRows(ms, range, t, u, d, m) ==
    {r \in ValidRows(ms, range, t, u) : r.date = d /\ r.model = m}

\* The rows of a date and model that the chart has a place for come to the replies of it.
LEMMA CellIs ==
    ASSUME NEW ms \in SUBSET Incoming, IsFiniteSet(ms), NEW range \in Nat,
           NEW t \in Nat, NEW u \in Nat, t <= u,
           NEW d \in Int, d <= Date(u), range > 0 => d >= Date(u) - range, NEW m \in Models
    PROVE  /\ Output(CellRows(ms, range, t, u, d, m)) = Cardinality(Charted(ms, d, m))
           /\ Cardinality(Charted(ms, d, m)) \in Nat
           /\ Charted(ms, d, m) # {} => \E r \in ValidRows(ms, range, t, u) : r.date = d
  <1> DEFINE cell == CellRows(ms, range, t, u, d, m)
             n    == Cardinality(RepliesOf(ms, d, m))
             row  == [date |-> d, model |-> m, output |-> n]
  <1>1. /\ d >= Earliest => Charted(ms, d, m) = RepliesOf(ms, d, m)
        /\ ~(d >= Earliest) => Charted(ms, d, m) = {}
    BY DEF Charted, RepliesOf, Events
  <1>2. IsFiniteSet(RepliesOf(ms, d, m)) /\ n \in Nat
    <2>1. RepliesOf(ms, d, m) \in SUBSET ms
      BY DEF RepliesOf, Events
    <2> QED BY <2>1, FS_Subset, FS_CardinalityType
  <1>3. ASSUME NEW r \in cell
        PROVE  r = row /\ n # 0 /\ d >= Earliest
    <2>1. r \in Rollup(ms) /\ r.date = d /\ r.model = m /\ Plausible(r, Date(u))
      BY DEF CellRows, ValidRows, RowsOf
    <2>2. /\ r.output \in Nat \ {0}
          /\ r = [date |-> r.date, model |-> r.model, output |-> r.output]
          /\ r.output = Cardinality(RepliesOf(ms, r.date, r.model))
      BY <2>1, RollupRows DEF RepliesOf
    <2> HIDE DEF cell
    <2> QED BY <2>1, <2>2 DEF Plausible
  <1>4. CASE Charted(ms, d, m) = {}
    <2>1. cell = {}
      <3> SUFFICES ASSUME NEW r \in cell PROVE FALSE
        OBVIOUS
      <3>1. d >= Earliest /\ n # 0
        BY <1>3
      <3>2. RepliesOf(ms, d, m) = {}
        BY <1>1, <1>4, <3>1
      <3> QED BY <3>1, <3>2, FS_EmptySet
    <2> HIDE DEF cell
    <2>2. Output(cell) = 0
      BY <2>1, OutputNone
    <2>3. Cardinality(Charted(ms, d, m)) = 0
      BY <1>4, FS_EmptySet
    <2> QED BY <1>4, <2>2, <2>3 DEF cell
  <1>5. CASE Charted(ms, d, m) # {}
    <2>1. d >= Earliest /\ Charted(ms, d, m) = RepliesOf(ms, d, m)
      BY <1>1, <1>5
    <2>2. row \in Rollup(ms) /\ row.date = d /\ row.model = m /\ row.output = n
      BY <1>5, <2>1, RowExists
    <2>3. Date(t) \in Nat /\ Date(u) \in Nat /\ Date(t) <= Date(u)
      BY DateOf, DateGrows
    <2>4. row \in ValidRows(ms, range, t, u) /\ row \in cell
      <3>1. range > 0 => d >= Date(t) - range
        BY <2>3
      <3> QED BY <2>1, <2>2, <3>1 DEF CellRows, ValidRows, RowsOf, Plausible
    <2>5. cell = {row}
      BY <1>3, <2>4
    <2>6. Output(cell) = n
      <3> HIDE DEF cell, row
      <3> QED BY <1>2, <2>2, <2>5, OutputOne
    <2> QED BY <1>2, <2>1, <2>2, <2>4, <2>6
  <1> QED BY <1>4, <1>5

\* The chart laid out at time u of the rows queried at time t is exact.
LEMMA ChartOfRows ==
    ASSUME NEW ms \in SUBSET Incoming, IsFiniteSet(ms), NEW range \in Nat,
           NEW t \in Nat, NEW u \in Nat, t <= u,
           NEW c, c = Pivot(RowsOf(ms, range, t), range, u)
    PROVE  /\ \A d \in c.first..c.last, m \in Models :
                 Cardinality(Charted(ms, d, m)) = IF m \in DOMAIN c.data THEN c.data[m][d] ELSE 0
           /\ range > 0 /\ c # Empty => c.last - c.first = range
           /\ range = 0 /\ c # Empty =>
                 /\ c.first >= Earliest
                 /\ \A d \in Earliest..c.first - 1, m \in Models : Charted(ms, d, m) = {}
           /\ c = Empty =>
                 \A d \in Earliest..Date(u), m \in Models :
                     (range > 0 => d >= Date(u) - range) => Charted(ms, d, m) = {}
  <1> DEFINE end   == Date(u)
             valid == ValidRows(ms, range, t, u)
             dates == {r.date : r \in valid}
             first == IF range > 0 THEN end - range ELSE Min(dates)
             Cell(d, m) == Output(CellRows(ms, range, t, u, d, m))
             shown == {m \in Models : \E d \in first..end : Cell(d, m) > 0}
  <1>1. end \in Nat /\ Earliest \in Int
    BY DateOf, ConstantsOk
  <1>2. CASE valid = {}
    <2>1. c = Empty
      BY <1>2 DEF Pivot, ValidRows
    <2>2. ASSUME NEW d \in Earliest..Date(u), NEW m \in Models,
                 range > 0 => d >= Date(u) - range
          PROVE  Charted(ms, d, m) = {}
      <3>1. d \in Int /\ d <= Date(u)
        BY <1>1
      <3> QED BY <1>2, <2>2, <3>1, CellIs
    <2>3. c.first = 1 /\ c.last = 0
      BY <2>1 DEF Empty
    <2>4. c.first..c.last = {}
      BY <2>3
    <2> HIDE DEF valid
    <2> QED BY <2>1, <2>2, <2>4
  <1>3. CASE valid # {}
    <2>1. c = [first |-> first, last |-> end,
               data |-> [m \in shown |-> [d \in first..end |-> Cell(d, m)]]]
      BY <1>3 DEF Pivot, ValidRows, CellRows
    <2>2. \A r \in valid : r.date \in Nat /\ Earliest <= r.date /\ r.date <= end
      <3> SUFFICES ASSUME NEW r \in valid
                   PROVE  r.date \in Nat /\ Earliest <= r.date /\ r.date <= end
        OBVIOUS
      <3>1. r \in Rollup(ms)
        BY DEF ValidRows, RowsOf
      <3> QED BY <3>1, RollupRows DEF Plausible, ValidRows
    <2>3. dates \in SUBSET Nat /\ dates # {}
      <3> HIDE DEF valid
      <3> QED BY <1>3, <2>2
    <2>4. Min(dates) \in dates /\ \A d \in dates : Min(dates) <= d
      BY <2>3, MinOf
    <2>5. Min(dates) \in Nat /\ Earliest <= Min(dates) /\ Min(dates) <= end
      <3> HIDE DEF valid
      <3> QED BY <2>2, <2>3, <2>4
    <2>6. first \in Int
      <3> HIDE DEF dates
      <3> QED BY <1>1, <2>5
    <2>7. ASSUME NEW d \in first..end, NEW m \in Models
          PROVE  /\ Cell(d, m) = Cardinality(Charted(ms, d, m))
                 /\ Cardinality(Charted(ms, d, m)) \in Nat
      <3> HIDE DEF first
      <3>1. d \in Int /\ d <= Date(u) /\ first <= d
        BY <1>1, <2>6
      <3>2. range > 0 => d >= Date(u) - range
        BY <3>1 DEF first
      <3> QED BY <3>1, <3>2, CellIs
    <2>8. ASSUME NEW d \in c.first..c.last, NEW m \in Models
          PROVE  Cardinality(Charted(ms, d, m)) = IF m \in DOMAIN c.data THEN c.data[m][d] ELSE 0
      <3> HIDE DEF first, Cell
      <3>1. d \in first..end
        BY <2>1
      <3>2. DOMAIN c.data = shown /\ (m \in shown => c.data[m][d] = Cell(d, m))
        <4> HIDE DEF shown
        <4> QED BY <2>1, <3>1
      <3>3. m \notin shown => ~(Cell(d, m) > 0)
        BY <3>1
      <3> HIDE DEF shown
      <3> QED BY <2>7, <3>1, <3>2, <3>3
    <2>9. c.first = first /\ c.last = end
      BY <2>1
    <2>10. range > 0 => c.last - c.first = range
      <3>1. range > 0 => first = end - range
        OBVIOUS
      <3> HIDE DEF first
      <3> QED BY <1>1, <2>9, <3>1
    <2>11. ASSUME range = 0
           PROVE  /\ c.first >= Earliest
                  /\ \A d \in Earliest..c.first - 1, m \in Models : Charted(ms, d, m) = {}
      <3>1. first = Min(dates)
        BY <2>11
      <3>2. ASSUME NEW d \in Earliest..c.first - 1, NEW m \in Models, Charted(ms, d, m) # {}
            PROVE  FALSE
        <4>1. d \in Int /\ d < Min(dates) /\ d <= Date(u)
          <5> HIDE DEF first, dates
          <5> QED BY <1>1, <2>5, <2>9, <3>1
        <4>2. \E r \in valid : r.date = d
          <5>1. range > 0 => d >= Date(u) - range
            BY <2>11
          <5> QED BY <3>2, <4>1, <5>1, CellIs
        <4>3. d \in dates
          BY <4>2
        <4> HIDE DEF dates
        <4> QED BY <2>4, <2>5, <4>1, <4>3
      <3> HIDE DEF first, dates
      <3> QED BY <1>1, <2>5, <2>9, <3>1, <3>2
    <2>12. c # Empty
      <3>1. first <= end
        <4>1. range > 0 => first = end - range
          OBVIOUS
        <4>2. range = 0 => first = Min(dates)
          OBVIOUS
        <4> HIDE DEF first, dates
        <4> QED BY <1>1, <2>5, <4>1, <4>2
      <3> HIDE DEF first
      <3> QED BY <1>1, <2>6, <2>9, <3>1 DEF Empty
    <2> HIDE DEF first, valid, dates, shown
    <2> QED BY <2>8, <2>10, <2>11, <2>12
  <1> QED BY <1>2, <1>3

\* The rows at hand are those of some moment up to now, and the chart is those rows laid
\* out at some moment since.
DailyInv ==
    \E t \in Nat :
        /\ Start <= t /\ t <= now /\ rows = RowsOf(asked, days, t)
        /\ pc = "idle" => \E u \in Nat : t <= u /\ u <= now /\ chart = Pivot(rows, days, u)

LEMMA DailyInit == Init => DailyInv
  <1> SUFFICES ASSUME Init PROVE DailyInv
    OBVIOUS
  <1>1. Rollup({}) = {}
    BY DEF Rollup, Events
  <1>2. RowsOf({}, 0, Start) = {} /\ Pivot({}, 0, Start) = Empty
    BY <1>1 DEF RowsOf, Pivot
  <1>3. Start \in Nat /\ Start <= now
    BY ConstantsOk DEF Init
  <1> QED BY <1>2, <1>3 DEF Init, DailyInv

LEMMA DailyNext == TypeOK /\ DailyInv /\ [Next]_vars => DailyInv'
  <1> SUFFICES ASSUME TypeOK, DailyInv, [Next]_vars PROVE DailyInv'
    OBVIOUS
  <1>1. now \in Nat
    BY ConstantsOk DEF TypeOK
  <1>2. PICK t \in Nat :
           /\ Start <= t /\ t <= now /\ rows = RowsOf(asked, days, t)
           /\ pc = "idle" => \E u \in Nat : t <= u /\ u <= now /\ chart = Pivot(rows, days, u)
    BY DEF DailyInv
  <1>3. ASSUME now' \in Nat, now <= now', UNCHANGED <<pc, days, rows, chart, asked>>
        PROVE  DailyInv'
    <2>1. Start <= t /\ t <= now' /\ rows' = RowsOf(asked', days', t)
      BY <1>1, <1>2, <1>3
    <2>2. ASSUME pc' = "idle"
          PROVE  \E u \in Nat : t <= u /\ u <= now' /\ chart' = Pivot(rows', days', u)
      <3>1. PICK u \in Nat : t <= u /\ u <= now /\ chart = Pivot(rows, days, u)
        BY <1>2, <1>3, <2>2
      <3>2. u <= now'
        BY <1>1, <1>3, <3>1
      <3> QED BY <1>3, <3>1, <3>2
    <2> QED BY <2>1, <2>2 DEF DailyInv
  <1>4. CASE Tick
    <2>1. now' \in Nat /\ now <= now'
      BY <1>1, <1>4 DEF Tick
    <2> QED BY <1>3, <1>4, <2>1 DEF Tick
  <1>5. ASSUME NEW m \in Incoming, Add(m) PROVE DailyInv'
    BY <1>1, <1>3, <1>5 DEF Add
  <1>6. CASE RebuildRollups
    BY <1>1, <1>3, <1>6 DEF RebuildRollups
  <1>7. ASSUME NEW range \in DayRanges, QueryDaily(range) PROVE DailyInv'
    <2>1. /\ rows' = RowsOf(asked', days', now) /\ now' = now /\ pc' # "idle"
          /\ Start <= now
      BY <1>7, ConstantsOk DEF QueryDaily, InRange, RowsOf, TypeOK
    <2> QED BY <1>1, <2>1 DEF DailyInv
  <1>8. CASE BuildDaily
    <2>1. Start <= t /\ t <= now /\ rows' = RowsOf(asked', days', t) /\ now' = now
      BY <1>2, <1>8 DEF BuildDaily
    <2>2. chart' = Pivot(rows', days', now)
      BY <1>8 DEF BuildDaily
    <2> QED BY <1>1, <2>1, <2>2 DEF DailyInv
  <1>9. CASE UNCHANGED vars
    BY <1>1, <1>3, <1>9 DEF vars
  <1> QED BY <1>4, <1>5, <1>6, <1>7, <1>8, <1>9 DEF Next

LEMMA DailyIsExact == TypeOK /\ Countable /\ DailyInv => DailyExact
  <1> SUFFICES ASSUME TypeOK, Countable, DailyInv, pc = "idle" PROVE DailyExact
    BY DEF DailyExact
  <1>1. PICK t \in Nat, u \in Nat : /\ Start <= t /\ t <= u /\ u <= now
                                    /\ chart = Pivot(RowsOf(asked, days, t), days, u)
    BY DEF DailyInv
  <1>2. asked \in SUBSET Incoming /\ IsFiniteSet(asked) /\ days \in Nat
    BY FS_Subset, ConstantsOk DEF TypeOK, Countable
  <1>3. /\ \A d \in chart.first..chart.last, m \in Models :
              Cardinality(Charted(asked, d, m)) =
                 IF m \in DOMAIN chart.data THEN chart.data[m][d] ELSE 0
        /\ days > 0 /\ chart # Empty => chart.last - chart.first = days
        /\ days = 0 /\ chart # Empty =>
              /\ chart.first >= Earliest
              /\ \A d \in Earliest..chart.first - 1, m \in Models : Charted(asked, d, m) = {}
        /\ chart = Empty =>
              \A d \in Earliest..Date(u), m \in Models :
                  (days > 0 => d >= Date(u) - days) => Charted(asked, d, m) = {}
    BY <1>1, <1>2, ChartOfRows
  <1>4. ASSUME chart = Empty, NEW d \in Earliest..Date(Start), NEW m \in Models,
               days > 0 => d >= Date(now) - days
        PROVE  Charted(asked, d, m) = {}
    <2>1. Start \in Nat /\ now \in Nat /\ Earliest \in Int
      BY ConstantsOk DEF TypeOK
    <2>2. Start <= u
      BY <1>1, <2>1
    <2>3. Date(Start) <= Date(u) /\ Date(u) <= Date(now)
      BY <1>1, <2>1, <2>2, DateGrows
    <2>4. Date(Start) \in Nat /\ Date(u) \in Nat /\ Date(now) \in Nat
      BY <2>1, DateOf
    <2>5. d \in Earliest..Date(u)
      BY <2>1, <2>3, <2>4
    <2>6. days > 0 => d >= Date(u) - days
      BY <1>2, <1>4, <2>1, <2>3, <2>4
    <2> QED BY <1>3, <1>4, <2>5, <2>6
  <1> QED BY <1>3, <1>4 DEF DailyExact, Charted

\* DailyExact: the daily chart has the output of each model on each date as it was in
\* daily_usage when it was queried, whenever midnight falls, and is not empty when there
\* is a reply to show (pages.go:245-308).
THEOREM ChartIsExact == Spec => []DailyExact
  <1>1. Init => DailyInv
    BY DailyInit
  <1>2. TypeOK /\ DailyInv /\ [Next]_vars => DailyInv'
    BY DailyNext
  <1>3. TypeOK /\ Countable /\ DailyInv => DailyExact
    BY DailyIsExact
  <1> QED BY <1>1, <1>2, <1>3, TypeCorrect, PTL DEF Spec

-----------------------------------------------------------------------------
\* Usage windows.

\* The windows of an account begin every w.hours before and after its reset.
Begins(w, t) == {b \in {w.reset + k * w.hours : k \in -1..MaxNow} : b < t}

LEMMA WindowBegins ==
    ASSUME NEW w \in Windows, w.reset # NoTime, NEW t \in Nat, t > w.reset - w.hours
    PROVE  /\ Since(w, t) <= Max(Begins(w, t))
           /\ t <= w.reset + w.hours => Since(w, t) = Max(Begins(w, t))
           /\ Since(w, t) \in Int /\ Max(Begins(w, t)) \in Int
  <1> DEFINE B == Begins(w, t)
  <1>1. w.reset \in Nat /\ w.hours \in Nat /\ MaxNow \in Nat
    BY ConstantsOk
  <1>2. ASSUME NEW b \in B
        PROVE  \E k \in -1..MaxNow : b = w.reset + k * w.hours /\ b \in Int /\ b < t
    <2>1. PICK k \in -1..MaxNow : b = w.reset + k * w.hours /\ b < t
      BY DEF Begins
    <2>2. k \in Int
      BY <1>1
    <2>3. k * w.hours \in Int
      BY <1>1, <2>2
    <2> QED BY <1>1, <2>1, <2>3
  <1>3. w.reset - w.hours \in B
    <2>1. -1 \in -1..MaxNow /\ w.reset - w.hours = w.reset + (-1) * w.hours
      BY <1>1
    <2> QED BY <1>1, <2>1 DEF Begins
  <1>4. w.reset < t => w.reset \in B
    <2>1. 0 \in -1..MaxNow /\ w.reset = w.reset + 0 * w.hours
      BY <1>1
    <2> QED BY <1>1, <2>1 DEF Begins
  <1>5. Max(B) \in B /\ (\A b \in B : b <= Max(B)) /\ Max(B) \in Int
    <2>1. B \in SUBSET Int /\ B # {} /\ \A b \in B : b <= t
      <3> HIDE DEF B
      <3> QED BY <1>2, <1>3
    <2>2. t \in Int
      OBVIOUS
    <2> HIDE DEF B
    <2>3. Max(B) \in B /\ \A b \in B : b <= Max(B)
      BY <2>1, <2>2, MaxOf
    <2> QED BY <2>1, <2>3
  <1>6. PICK k \in -1..MaxNow : Max(B) = w.reset + k * w.hours /\ Max(B) < t
    BY <1>2, <1>5
  <1>7. k \in Int
    BY <1>1
  <1>8. CASE w.reset < t
    <2>1. Since(w, t) = w.reset
      BY <1>8 DEF Since
    <2>2. w.reset <= Max(B)
      BY <1>4, <1>5, <1>8
    <2>3. ASSUME t <= w.reset + w.hours PROVE Max(B) = w.reset
      <3>1. CASE k <= 0
        <4>1. k * w.hours <= 0
          BY <1>1, <1>7, <3>1
        <4> HIDE DEF B
        <4> QED BY <1>1, <1>5, <1>6, <2>2, <4>1
      <3>2. CASE k >= 1
        <4>1. k * w.hours >= w.hours
          BY <1>1, <1>7, <3>2
        <4>2. k * w.hours \in Int
          BY <1>1, <1>7
        <4> HIDE DEF B
        <4> QED BY <1>1, <1>6, <2>3, <4>1, <4>2
      <3> QED BY <1>7, <3>1, <3>2
    <2> QED BY <1>1, <1>5, <2>1, <2>2, <2>3
  <1>9. CASE ~(w.reset < t)
    <2>1. Since(w, t) = w.reset - w.hours
      BY <1>9 DEF Since
    <2>2. w.reset - w.hours <= Max(B)
      BY <1>3, <1>5
    <2>3. Max(B) <= w.reset - w.hours
      <3>1. k * w.hours < 0 /\ k * w.hours \in Int
        <4>1. k * w.hours \in Int
          BY <1>1, <1>7
        <4> HIDE DEF B
        <4> QED BY <1>1, <1>5, <1>6, <1>9, <4>1
      <3>2. k <= -1
        <4>1. k >= 0 => k * w.hours >= 0
          BY <1>1, <1>7
        <4> QED BY <1>7, <3>1, <4>1
      <3>3. k * w.hours <= (-1) * w.hours
        BY <1>1, <1>7, <3>2
      <3> HIDE DEF B
      <3> QED BY <1>1, <1>6, <3>1, <3>3
    <2>4. w.reset - w.hours \in Int
      BY <1>1
    <2> HIDE DEF B
    <2>5. Max(B) = w.reset - w.hours
      BY <1>5, <2>2, <2>3, <2>4
    <2> QED BY <1>5, <2>1, <2>2, <2>4, <2>5 DEF B
  <1> QED BY <1>8, <1>9

LEMMA UsageHolds == TypeOK => UsageOfThisWindow
  <1> SUFFICES ASSUME TypeOK, NEW w \in Windows, w.reset # NoTime => now > w.reset - w.hours
               PROVE  LET begin   == IF w.reset = NoTime THEN now - w.hours ELSE Max(Begins(w, now))
                          current == {m \in messages : /\ Assistant(m) /\ m.ts # NoTime
                                                       /\ m.ts >= begin}
                      IN  /\ current \subseteq Activity(w, now, messages)
                          /\ w.reset # NoTime /\ now <= w.reset + w.hours
                                => Activity(w, now, messages) = current
    BY DEF UsageOfThisWindow, Begins
  <1>1. now \in Nat
    BY ConstantsOk DEF TypeOK
  <1>2. \A m \in messages : m.ts # NoTime => m.ts \in Nat
    BY ConstantsOk DEF TypeOK, Message
  <1>3. CASE w.reset = NoTime
    BY <1>3 DEF Activity, Since
  <1>4. CASE w.reset # NoTime
    <2>1. /\ Since(w, now) <= Max(Begins(w, now))
          /\ now <= w.reset + w.hours => Since(w, now) = Max(Begins(w, now))
          /\ Since(w, now) \in Int /\ Max(Begins(w, now)) \in Int
      BY <1>1, <1>4, WindowBegins
    <2> QED BY <1>2, <1>4, <2>1 DEF Activity
  <1> QED BY <1>3, <1>4

\* UsageOfThisWindow: a window counts the replies since it began, also when its reset has
\* passed since the snapshot (usage.go:51-66, queries_read.go:182-188).
THEOREM UsageIsOfThisWindow == Spec => []UsageOfThisWindow
  BY UsageHolds, TypeCorrect, PTL

-----------------------------------------------------------------------------
\* The timeline of a session.

LEMMA Quotient ==
    ASSUME NEW a \in Nat, NEW w \in Nat \ {0}
    PROVE  /\ a \div w \in Nat /\ w * (a \div w) \in Nat
           /\ w * (a \div w) <= a /\ a < w * (a \div w) + w
  <1> DEFINE q == a \div w
  <1>1. q \in Int /\ a % w \in 0..w - 1 /\ a = w * q + (a % w)
    BY Divide
  <1>2. q \in Nat
    OBVIOUS
  <1> HIDE DEF q
  <1>3. w * q \in Nat
    BY <1>2
  <1>4. w * q <= a /\ a < w * q + w
    BY <1>1, <1>3
  <1> QED BY <1>2, <1>3, <1>4 DEF q

\* Division towards zero.
LEMMA QuoIs ==
    ASSUME NEW a \in Int, NEW w \in Nat \ {0}
    PROVE  /\ Quo(a, w) \in Int /\ Quo(a, w) * w \in Int
           /\ a < Quo(a, w) * w + w /\ Quo(a, w) * w < a + w
           /\ a >= 0 => Quo(a, w) = a \div w /\ Quo(a, w) \in Nat
           /\ -w < a /\ a < 0 => Quo(a, w) = 0
  <1>1. CASE a >= 0
    <2>1. a \in Nat /\ Quo(a, w) = a \div w
      BY <1>1 DEF Quo
    <2> DEFINE q == a \div w
    <2>2. q \in Nat /\ w * q \in Nat /\ w * q <= a /\ a < w * q + w
      BY <2>1, Quotient
    <2> HIDE DEF q
    <2>3. q * w = w * q
      BY <2>2
    <2> QED BY <1>1, <2>1, <2>2, <2>3 DEF q
  <1>2. CASE a < 0
    <2> DEFINE b == -a
               q == b \div w
    <2>1. b \in Nat /\ a = -b
      BY <1>2
    <2>2. Quo(a, w) = -q
      BY <1>2 DEF Quo
    <2> HIDE DEF b
    <2>3. q \in Nat /\ w * q \in Nat /\ w * q <= b /\ b < w * q + w
      BY <2>1, Quotient
    <2> HIDE DEF q
    <2>4. (-q) * w = -(w * q)
      BY <2>3
    <2>5. (-q) * w \in Int /\ a < (-q) * w + w /\ (-q) * w < a + w
      BY <2>1, <2>3, <2>4
    <2>6. ASSUME b < w PROVE q = 0
      <3>1. q >= 1 => w * q >= w
        BY <2>3
      <3> QED BY <2>1, <2>3, <2>6, <3>1
    <2>7. -w < a => b < w
      BY <2>1
    <2> QED BY <1>2, <2>2, <2>3, <2>5, <2>6, <2>7
  <1> QED BY <1>1, <1>2

LEMMA ClockIs == \A t \in Int : Clock(t) \in Int
  BY ConstantsOk DEF Clock

\* The start of t's day by the viewer's clock, as the clock then shows.
There(t) == Day * (Clock(t) \div Day)

LEMMA ThereIs ==
    ASSUME NEW t \in Int
    PROVE  /\ There(t) \in Int /\ There(t) % Day = 0
           /\ There(t) <= Clock(t) /\ Clock(t) < There(t) + Day
  <1> DEFINE c == Clock(t)
             q == c \div Day
  <1>1. Day \in Nat \ {0} /\ c \in Int
    BY ClockIs, ConstantsOk
  <1> HIDE DEF c
  <1>2. q \in Int /\ c % Day \in 0..Day - 1 /\ c = Day * q + (c % Day)
    BY <1>1, Divide
  <1> HIDE DEF q
  <1> DEFINE d == Day * q
  <1>3. d \in Int
    BY <1>1, <1>2
  <1>4. d % Day = 0
    BY <1>1, <1>2, MultipleOf
  <1> HIDE DEF d
  <1>5. d <= c /\ c < d + Day
    BY <1>1, <1>2, <1>3 DEF d
  <1>6. There(t) = d
    BY DEF There, d, q, c
  <1> QED BY <1>3, <1>4, <1>5, <1>6 DEF c

LEMMA ReadingsAre == \A t : /\ Readings(t) = {There(t), There(t) - Jump}
                            /\ Midnights(t) = {u \in Readings(t) : Clock(u) = There(t)}
  BY DEF Readings, Midnights, There

\* Of one or two numbers the greatest and the least are among them.
LEMMA PickOf ==
    ASSUME NEW S, NEW p \in Int, NEW q \in Int, S \subseteq {p, q}, S # {}
    PROVE  Min(S) \in S /\ Max(S) \in S
  <1>1. \A y \in S : y = p \/ y = q
    OBVIOUS
  <1>2. PICK x \in S : TRUE
    OBVIOUS
  <1>3. PICK l \in {p, q}, g \in {p, q} : p <= g /\ q <= g /\ l <= p /\ l <= q
    <2>1. CASE p <= q
      BY <2>1
    <2>2. CASE q <= p
      BY <2>2
    <2> QED BY <2>1, <2>2
  <1>4. x \in Int /\ ((p \in S /\ q \in S) \/ (\A y \in S : y = x))
    BY <1>1, <1>2
  <1>5. CASE p \in S /\ q \in S
    <2>1. /\ l \in S /\ \A y \in S : l <= y
          /\ g \in S /\ \A y \in S : y <= g
      BY <1>1, <1>3, <1>5
    <2> QED BY <2>1 DEF Min, Max
  <1>6. CASE \A y \in S : y = x
    <2>1. \A y \in S : x <= y /\ y <= x
      BY <1>4, <1>6
    <2> QED BY <1>2, <2>1 DEF Min, Max
  <1> QED BY <1>4, <1>5, <1>6

LEMMA MidnightPicked ==
    ASSUME NEW t \in Int
    PROVE  /\ Midnight(t) \in Readings(t)
           /\ Midnights(t) # {} => Midnight(t) \in Midnights(t)
  <1> DEFINE some == IF Midnights(t) = {} THEN Readings(t) ELSE Midnights(t)
  <1>1. There(t) \in Int /\ There(t) - Jump \in Int
    <2>1. Jump \in Int
      BY ConstantsOk
    <2> QED BY <2>1, ThereIs
  <1>2. some \subseteq {There(t), There(t) - Jump} /\ some # {}
    BY ReadingsAre
  <1>3. Midnight(t) = IF Late THEN Max(some) ELSE Min(some)
    BY DEF Midnight
  <1>4. some \subseteq Readings(t) /\ (Midnights(t) # {} => some \subseteq Midnights(t))
    BY ReadingsAre
  <1> HIDE DEF some
  <1>5. Min(some) \in some /\ Max(some) \in some
    <2> DEFINE p == There(t)
               q == There(t) - Jump
    <2>1. p \in Int /\ q \in Int /\ some \subseteq {p, q} /\ some # {}
      BY <1>1, <1>2
    <2> HIDE DEF p, q
    <2> QED BY <2>1, PickOf
  <1>6. Midnight(t) \in some
    BY <1>3, <1>5
  <1> QED BY <1>4, <1>6

\* truncateLocal: whichever midnight time.Date takes is less than two days before t, and
\* less than one after it.
LEMMA MidnightIs ==
    ASSUME NEW t \in Int
    PROVE  /\ Midnight(t) \in Int
           /\ t < Midnight(t) + 2 * Day /\ Midnight(t) < t + Day
  <1>1. Day \in Nat \ {0} /\ Shift \in Int /\ Jump \in Int /\ -Day < Jump /\ Jump < Day
    BY ConstantsOk
  <1>2. /\ There(t) \in Int
        /\ There(t) <= Clock(t) /\ Clock(t) < There(t) + Day
    BY ThereIs
  <1>3. Midnight(t) = There(t) \/ Midnight(t) = There(t) - Jump
    BY MidnightPicked, ReadingsAre
  <1>4. Clock(t) = t \/ Clock(t) = t + Jump
    BY <1>1 DEF Clock
  <1> QED BY <1>1, <1>2, <1>3, <1>4

\* A midnight that comes once is shown by the clock, and not after t.
LEMMA OneMidnight ==
    ASSUME NEW t \in Int, Cardinality(Midnights(t)) = 1
    PROVE  Clock(Midnight(t)) % Day = 0 /\ Midnight(t) <= t
  <1>1. Day \in Nat \ {0} /\ Shift \in Int /\ Jump \in Int
    BY ConstantsOk
  <1>2. /\ There(t) \in Int /\ There(t) % Day = 0
        /\ There(t) <= Clock(t) /\ Clock(t) < There(t) + Day
    BY ThereIs
  <1>3. IsFiniteSet(Midnights(t))
    <2>1. IsFiniteSet({There(t)} \cup {There(t) - Jump})
      BY FS_Singleton, FS_Union
    <2>2. Midnights(t) \in SUBSET ({There(t)} \cup {There(t) - Jump})
      BY ReadingsAre
    <2> QED BY <2>1, <2>2, FS_Subset
  <1>4. PICK u : Midnights(t) = {u}
    BY <1>3, FS_Singleton
  <1>5. Midnight(t) = u
    BY <1>4, MidnightPicked
  <1>6. u \in {There(t), There(t) - Jump} /\ Clock(u) = There(t)
    BY <1>4, ReadingsAre
  <1>7. u <= t
    <2>1. CASE t < Shift
      <3>1. Clock(t) = t /\ Clock(There(t)) = There(t)
        BY <1>1, <1>2, <2>1 DEF Clock
      <3>2. There(t) \in Midnights(t)
        BY <3>1, ReadingsAre
      <3>3. u = There(t)
        BY <1>4, <3>2
      <3> QED BY <1>2, <3>1, <3>3
    <2>2. CASE ~(t < Shift)
      <3>1. Clock(t) = t + Jump
        BY <2>2 DEF Clock
      <3>2. CASE u = There(t) - Jump
        BY <1>1, <1>2, <3>1, <3>2
      <3>3. CASE u = There(t) /\ Jump # 0
        <4>1. u < Shift
          BY <1>1, <1>2, <1>6, <3>3 DEF Clock
        <4> QED BY <1>1, <1>2, <2>2, <3>3, <4>1
      <3>4. CASE Jump = 0
        BY <1>1, <1>2, <1>6, <3>1, <3>4
      <3> QED BY <1>6, <3>2, <3>3, <3>4
    <2> QED BY <2>1, <2>2
  <1> QED BY <1>2, <1>5, <1>6, <1>7

\* A width is one of the steps; one that is not the widest has room for the session.
LEMMA WidthIs ==
    ASSUME NEW span \in Nat
    PROVE  \E j \in 1..Len(Steps) :
              /\ Width(span) = Steps[j]
              /\ Width(span) # Steps[Len(Steps)] => span \div Width(span) < MaxBars
  <1> DEFINE fits == {j \in 1..Len(Steps) : span \div Steps[j] < MaxBars}
  <1>1. Len(Steps) \in 1..Len(Steps)
    BY ConstantsOk
  <1>2. CASE fits = {}
    BY <1>1, <1>2 DEF Width
  <1>3. CASE fits # {}
    <2>1. fits \in SUBSET Nat
      OBVIOUS
    <2>2. Min(fits) \in fits
      <3> HIDE DEF fits
      <3> QED BY <1>3, <2>1, MinOf
    <2> QED BY <1>3, <2>2 DEF Width
  <1> QED BY <1>2, <1>3

LEMMA StepIs ==
    ASSUME NEW j \in 1..Len(Steps)
    PROVE  /\ Steps[j] \in Nat \ {0}
           /\ Steps[j] >= Day => Steps[j] % Day = 0
           /\ Steps[j] < Day => Day % Steps[j] = 0
  BY ConstantsOk

LEMMA OriginIs ==
    ASSUME NEW t \in Int, NEW w \in Nat \ {0}
    PROVE  /\ TruncateLocal(t, w) \in Int
           /\ t < TruncateLocal(t, w) + 2 * w /\ TruncateLocal(t, w) < t + w
           /\ \E k \in Int : /\ TruncateLocal(t, w) = Midnight(t) + k * w
                             /\ Midnight(t) <= t => k >= 0
  <1> DEFINE m == Midnight(t)
  <1>1. m \in Int /\ t < m + 2 * Day /\ m < t + Day /\ Day \in Nat \ {0}
    BY MidnightIs, ConstantsOk
  <1>2. CASE w >= Day
    <2>1. TruncateLocal(t, w) = m
      BY <1>2 DEF TruncateLocal
    <2> HIDE DEF m
    <2>2. m = m + 0 * w
      BY <1>1
    <2> QED BY <1>1, <1>2, <2>1, <2>2 DEF m
  <1>3. CASE w < Day
    <2> DEFINE a == t - m
               k == Quo(a, w)
    <2>1. TruncateLocal(t, w) = m + k * w
      BY <1>1, <1>3 DEF TruncateLocal
    <2> HIDE DEF m
    <2>2. a \in Int /\ t = m + a
      BY <1>1
    <2>3. m <= t => a >= 0
      BY <1>1
    <2> HIDE DEF a
    <2>4. /\ k \in Int /\ k * w \in Int /\ a < k * w + w /\ k * w < a + w
          /\ a >= 0 => k \in Nat
      BY <2>2, QuoIs
    <2> HIDE DEF k
    <2>5. m + k * w \in Int /\ t < (m + k * w) + 2 * w /\ m + k * w < t + w
      BY <1>1, <2>2, <2>4
    <2> QED BY <2>1, <2>3, <2>4, <2>5 DEF m
  <1> QED BY <1>1, <1>2, <1>3

Stamps == {e.ts : e \in events}

\* The extent of a timeline.
LEMMA TimelineIs ==
    ASSUME TypeOK, Countable, events # {}
    PROVE  /\ Min(Stamps) \in Nat /\ Max(Stamps) \in Nat
           /\ Min(Stamps) <= Max(Stamps)
           /\ \A e \in events : e.ts \in Nat /\ Min(Stamps) <= e.ts /\ e.ts <= Max(Stamps)
           /\ timeline.width = Width(Max(Stamps) - Min(Stamps))
           /\ timeline.origin = TruncateLocal(Min(Stamps), timeline.width)
           /\ Len(timeline.bars) = BarCount(Max(Stamps) - timeline.origin, timeline.width)
  <1>1. \A e \in events : e.ts \in Nat
    BY ConstantsOk DEF TypeOK, events, Events, Message
  <1>2. Stamps \in SUBSET Nat /\ Stamps # {} /\ \A e \in events : e.ts \in Stamps
    BY <1>1 DEF Stamps
  <1>3. Min(Stamps) \in Stamps /\ \A x \in Stamps : Min(Stamps) <= x
    BY <1>2, MinOf
  <1>4. PICK b \in Nat : \A e \in events : e.ts <= b
    BY DEF Countable
  <1>5. Max(Stamps) \in Stamps /\ \A x \in Stamps : x <= Max(Stamps)
    <2>1. \A x \in Stamps : x <= b
      BY <1>4 DEF Stamps
    <2>2. Stamps \in SUBSET Int /\ b \in Int
      BY <1>2
    <2> QED BY <1>2, <2>1, <2>2, MaxOf
  <1>6. /\ timeline.width = Width(Max(Stamps) - Min(Stamps))
        /\ timeline.origin = TruncateLocal(Min(Stamps), timeline.width)
    BY DEF timeline, Timeline, Stamps
  <1>7. Min(Stamps) \in Nat /\ Max(Stamps) \in Nat /\ Min(Stamps) <= Max(Stamps)
    BY <1>2, <1>3, <1>5
  <1>8. Max(Stamps) - Min(Stamps) \in Nat
    BY <1>7
  <1>9. PICK j \in 1..Len(Steps) : timeline.width = Steps[j]
    BY <1>6, <1>8, WidthIs
  <1>10. timeline.width \in Nat \ {0}
    BY <1>9, StepIs
  <1>11. /\ timeline.origin \in Int
         /\ timeline.origin < Min(Stamps) + timeline.width
    <2>1. Min(Stamps) \in Int
      BY <1>7
    <2>2. /\ TruncateLocal(Min(Stamps), timeline.width) \in Int
          /\ TruncateLocal(Min(Stamps), timeline.width) < Min(Stamps) + timeline.width
      BY <1>10, <2>1, OriginIs
    <2> QED BY <1>6, <2>2
  <1> DEFINE n == BarCount(Max(Stamps) - timeline.origin, timeline.width)
  <1>12. n \in Nat
    <2> DEFINE d == Max(Stamps) - timeline.origin
    <2>1. d \in Int /\ -timeline.width < d
      BY <1>7, <1>10, <1>11
    <2>2. n = BarCount(d, timeline.width)
      OBVIOUS
    <2> HIDE DEF d, n
    <2>3. Quo(d, timeline.width) \in Nat
      <3>1. PICK w \in Nat \ {0} : w = timeline.width
        BY <1>10
      <3>2. /\ d >= 0 => Quo(d, w) \in Nat
            /\ -w < d /\ d < 0 => Quo(d, w) = 0
        BY <2>1, QuoIs
      <3> QED BY <2>1, <3>1, <3>2
    <2>4. MaxBars \in Nat
      BY ConstantsOk
    <2> QED BY <2>2, <2>3, <2>4 DEF BarCount
  <1>13. DOMAIN timeline.bars = 1..n
    BY DEF timeline, Timeline, Stamps
  <1>14. timeline.bars \in Seq(Range(timeline.bars))
    <2> HIDE DEF n
    <2>1. timeline.bars = [i \in 1..n |-> timeline.bars[i]]
      BY DEF timeline, Timeline, Stamps, n
    <2> QED BY <1>12, <2>1 DEF Range
  <1>15. Len(timeline.bars) = n
    <2> HIDE DEF n
    <2> QED BY <1>12, <1>13, <1>14
  <1> QED BY <1>1, <1>2, <1>3, <1>5, <1>6, <1>7, <1>15

\* Bars of width w from o on that reach the instant e are no more than MaxBars + 2, if less
\* than MaxBars of them fit between s and e, and s is before the third; and one less if s
\* is before the second.
LEMMA FewBars ==
    ASSUME NEW s \in Nat, NEW e \in Nat, s <= e, NEW w \in Nat \ {0}, NEW o \in Int,
           o <= e, s < o + 2 * w, (e - s) \div w < MaxBars
    PROVE  /\ (e - o) \div w <= MaxBars + 1
           /\ s < o + w => (e - o) \div w <= MaxBars
  <1> DEFINE a == e - o
             b == e - s
             q == a \div w
             p == b \div w
  <1>1. MaxBars \in Nat
    BY ConstantsOk
  <1>2. a \in Nat /\ b \in Nat /\ a < b + 2 * w /\ (s < o + w => a < b + w)
    OBVIOUS
  <1>3. p < MaxBars
    OBVIOUS
  <1> HIDE DEF a, b
  <1>4. /\ q \in Nat /\ w * q \in Nat /\ w * q <= a /\ a < w * q + w
        /\ p \in Nat /\ w * p \in Nat /\ w * p <= b /\ b < w * p + w
    BY <1>2, Quotient
  <1> HIDE DEF q, p
  <1>5. w * MaxBars \in Nat /\ w * p + w <= w * MaxBars
    BY <1>1, <1>3, <1>4, Times
  <1>6. w * (MaxBars + 2) = w * MaxBars + 2 * w
    BY <1>1
  <1>7. ASSUME MaxBars + 2 <= q PROVE FALSE
    <2>1. w * (MaxBars + 2) <= w * q
      BY <1>1, <1>4, <1>7
    <2> QED BY <1>2, <1>4, <1>5, <1>6, <2>1
  <1>8. q <= MaxBars + 1
    BY <1>1, <1>4, <1>7
  <1>9. ASSUME s < o + w, MaxBars + 1 <= q PROVE FALSE
    <2>1. w * (MaxBars + 1) <= w * q /\ w * (MaxBars + 1) = w * MaxBars + w
      BY <1>1, <1>4, <1>9
    <2> QED BY <1>2, <1>4, <1>5, <1>9, <2>1
  <1>10. s < o + w => q <= MaxBars
    BY <1>1, <1>4, <1>9
  <1> QED BY <1>8, <1>10 DEF q, a

\* The bars from a first to a last event reach beyond the last, and are one or two more
\* than MaxBars at most unless they are the widest.  The first may begin after the first
\* event, by less than its width: division towards zero counts that event in it.
LEMMA BarsReach ==
    ASSUME NEW s \in Nat, NEW e \in Nat, s <= e
    PROVE  LET w == Width(e - s)
               o == TruncateLocal(s, w)
               n == Quo(e - o, w) + 1
           IN  /\ w \in Nat \ {0} /\ o \in Int /\ o < s + w
               /\ n \in Nat \ {0}
               /\ n * w \in Int /\ e < o + n * w
               /\ w # Steps[Len(Steps)] => n <= MaxBars + (IF s < o + w THEN 1 ELSE 2)
  <1>1. MaxBars \in Nat \ {0, 1}
    BY ConstantsOk
  <1>2. e - s \in Nat
    OBVIOUS
  <1>3. PICK w \in Nat \ {0} : /\ w = Width(e - s)
                               /\ w # Steps[Len(Steps)] => (e - s) \div w < MaxBars
    BY <1>2, WidthIs, StepIs
  <1>4. s \in Int
    OBVIOUS
  <1>5. PICK o \in Int : /\ o = TruncateLocal(s, w) /\ s < o + 2 * w /\ o < s + w
    BY <1>4, OriginIs
  <1> DEFINE a == e - o
             q == Quo(a, w)
  <1>6. a \in Int /\ e = o + a /\ -w < a
    BY <1>5
  <1>7. a >= 0 => q = (e - o) \div w
    BY <1>6, QuoIs
  <1> HIDE DEF a
  <1>8. q \in Int /\ q * w \in Int /\ a < q * w + w
    BY <1>6, QuoIs
  <1>9. q \in Nat /\ (a < 0 => q = 0)
    BY <1>6, QuoIs
  <1> HIDE DEF q
  <1>10. (q + 1) * w \in Int /\ e < o + (q + 1) * w
    <2>1. (q + 1) * w = q * w + w
      BY <1>8
    <2> QED BY <1>6, <1>8, <2>1
  <1>11. ASSUME w # Steps[Len(Steps)]
         PROVE  q <= MaxBars + 1 /\ (s < o + w => q <= MaxBars)
    <2>1. CASE a < 0
      BY <1>1, <1>9, <2>1
    <2>2. CASE a >= 0
      <3>1. (e - s) \div w < MaxBars /\ o <= e
        BY <1>3, <1>6, <1>11, <2>2
      <3>2. /\ (e - o) \div w <= MaxBars + 1
            /\ s < o + w => (e - o) \div w <= MaxBars
        BY <1>5, <3>1, FewBars
      <3> QED BY <1>7, <2>2, <3>2
    <2> QED BY <1>6, <2>1, <2>2
  <1>12. /\ q + 1 \in Nat \ {0}
         /\ w # Steps[Len(Steps)] => q + 1 <= MaxBars + (IF s < o + w THEN 1 ELSE 2)
    BY <1>1, <1>9, <1>11
  <1>13. Width(e - s) = w /\ TruncateLocal(s, w) = o /\ Quo(e - o, w) = q
    BY <1>3, <1>5 DEF a, q
  <1> QED BY <1>3, <1>5, <1>10, <1>12, <1>13

\* The same of the timeline: its bars, unless cut off at twice MaxBars, reach beyond the
\* last event.
LEMMA BarsOfTimeline ==
    ASSUME TypeOK, Countable, events # {}
    PROVE  \E n \in Nat \ {0} :
              /\ timeline.width \in Nat \ {0} /\ timeline.origin \in Int
              /\ \A e \in events : /\ e.ts \in Nat
                                   /\ timeline.origin < e.ts + timeline.width
                                   /\ e.ts < timeline.origin + n * timeline.width
              /\ Len(timeline.bars) = IF n > 2 * MaxBars THEN 2 * MaxBars ELSE n
              /\ timeline.width # Steps[Len(Steps)] =>
                    n <= MaxBars + (IF Min(Stamps) < timeline.origin + timeline.width THEN 1 ELSE 2)
  <1>1. PICK s \in Nat, l \in Nat :
           /\ s = Min(Stamps) /\ s <= l
           /\ \A e \in events : e.ts \in Nat /\ s <= e.ts /\ e.ts <= l
           /\ timeline.width = Width(l - s)
           /\ timeline.origin = TruncateLocal(s, timeline.width)
           /\ Len(timeline.bars) = BarCount(l - timeline.origin, timeline.width)
    BY TimelineIs
  <1> DEFINE n == Quo(l - timeline.origin, timeline.width) + 1
  <1>2. /\ timeline.width \in Nat \ {0} /\ timeline.origin \in Int
        /\ timeline.origin < s + timeline.width
        /\ n \in Nat \ {0} /\ n * timeline.width \in Int
        /\ l < timeline.origin + n * timeline.width
        /\ timeline.width # Steps[Len(Steps)] =>
              n <= MaxBars + (IF s < timeline.origin + timeline.width THEN 1 ELSE 2)
    <2>1. LET w == Width(l - s)
              o == TruncateLocal(s, w)
              k == Quo(l - o, w) + 1
          IN  /\ w \in Nat \ {0} /\ o \in Int /\ o < s + w
              /\ k \in Nat \ {0}
              /\ k * w \in Int /\ l < o + k * w
              /\ w # Steps[Len(Steps)] => k <= MaxBars + (IF s < o + w THEN 1 ELSE 2)
      BY <1>1, BarsReach
    <2>2. Width(l - s) = timeline.width /\ TruncateLocal(s, timeline.width) = timeline.origin
      BY <1>1
    <2> QED BY <2>1, <2>2, Zenon
  <1>3. Len(timeline.bars) = IF n > 2 * MaxBars THEN 2 * MaxBars ELSE n
    BY <1>1 DEF BarCount
  <1> HIDE DEF n
  <1>4. ASSUME NEW e \in events
        PROVE  /\ e.ts \in Nat /\ timeline.origin < e.ts + timeline.width
               /\ e.ts < timeline.origin + n * timeline.width
    <2> DEFINE o == timeline.origin
               w == timeline.width
               m == n * timeline.width
    <2>1. e.ts \in Nat /\ s <= e.ts /\ e.ts <= l
      BY <1>1, <1>4
    <2>2. o \in Int /\ w \in Nat /\ m \in Int /\ o < s + w /\ l < o + m
      BY <1>2
    <2> HIDE DEF o, w, m
    <2>3. o < e.ts + w /\ e.ts < o + m
      BY <2>1, <2>2
    <2> QED BY <2>1, <2>3 DEF o, w, m
  <1> QED BY <1>1, <1>2, <1>3, <1>4

LEMMA BarsBoundedHolds == TypeOK /\ Countable => BarsBounded
  <1> DEFINE more == IF Min(Stamps) < timeline.origin + timeline.width THEN 1 ELSE 2
  <1> SUFFICES ASSUME TypeOK, Countable, events # {}
               PROVE  /\ Len(timeline.bars) \in 1..2 * MaxBars
                      /\ timeline.width # Steps[Len(Steps)] => Len(timeline.bars) <= MaxBars + more
    BY DEF BarsBounded, Stamps
  <1>1. PICK n \in Nat \ {0} :
           /\ Len(timeline.bars) = IF n > 2 * MaxBars THEN 2 * MaxBars ELSE n
           /\ timeline.width # Steps[Len(Steps)] => n <= MaxBars + more
    BY BarsOfTimeline
  <1>2. MaxBars \in Nat \ {0, 1} /\ more \in {1, 2}
    BY ConstantsOk
  <1> HIDE DEF more
  <1>3. Len(timeline.bars) \in 1..2 * MaxBars /\ Len(timeline.bars) <= n
    BY <1>1, <1>2
  <1> QED BY <1>1, <1>2, <1>3

\* BarsBounded: no timestamps make a timeline without a bar or with more than twice
\* maxBars of them, and only the widest bars more than one over maxBars, or two after a
\* day of 25 hours (pages_sessions.go:256-276).
THEOREM TimelineIsBounded == Spec => []BarsBounded
  BY BarsBoundedHolds, TypeCorrect, PTL

\* From a midnight on, bars of whole days begin at midnights ...
LEMMA DaysFromMidnight ==
    ASSUME NEW c \in Int, c % Day = 0, NEW w \in Nat \ {0}, w % Day = 0, NEW k \in Int
    PROVE  (c + k * w) % Day = 0
  <1>1. Day \in Nat \ {0}
    BY ConstantsOk
  <1>2. PICK p \in Int : c = Day * p
    BY <1>1, IsMultiple
  <1>3. PICK r \in Int : w = Day * r
    BY <1>1, IsMultiple
  <1>4. c + k * w = Day * (p + k * r)
    BY <1>1, <1>2, <1>3
  <1>5. p + k * r \in Int
    OBVIOUS
  <1> QED BY <1>1, <1>4, <1>5, MultipleOf

\* ... and bars of a part of the day at full marks of the day.
LEMMA MarksFromMidnight ==
    ASSUME NEW c \in Int, c % Day = 0, NEW w \in Nat \ {0}, Day % w = 0, NEW k \in Int
    PROVE  ((c + k * w) % Day) % w = 0
  <1>1. Day \in Nat \ {0} /\ Day \in Int
    BY ConstantsOk
  <1>2. PICK p \in Int : c = Day * p
    BY <1>1, IsMultiple
  <1>3. PICK r \in Int : Day = w * r
    BY <1>1, IsMultiple
  <1> DEFINE a == c + k * w
             g == a \div Day
             h == a % Day
  <1>4. a \in Int
    OBVIOUS
  <1>5. a = (w * r) * p + k * w
    BY <1>2, <1>3
  <1> HIDE DEF a
  <1>6. g \in Int /\ h \in Int /\ a = Day * g + h
    BY <1>1, <1>4, Divide
  <1> HIDE DEF g, h
  <1>7. h = w * (r * p + k - r * g)
    <2>1. h = a - (w * r) * g
      BY <1>1, <1>3, <1>4, <1>6
    <2>2. (w * r) * p = w * (r * p) /\ (w * r) * g = w * (r * g) /\ k * w = w * k
      BY <1>6
    <2>3. w * (r * p + k - r * g) = w * (r * p) + w * k - w * (r * g)
      BY <1>6
    <2> DEFINE x == w * (r * p)
               y == w * (r * g)
               z == w * k
    <2>4. x \in Int /\ y \in Int /\ z \in Int
      BY <1>6
    <2>5. a = x + z /\ h = a - y /\ w * (r * p + k - r * g) = x + z - y
      BY <1>5, <2>1, <2>2, <2>3
    <2> HIDE DEF x, y, z
    <2> QED BY <2>4, <2>5
  <1>8. r * p + k - r * g \in Int
    BY <1>6
  <1>9. h % w = 0
    BY <1>7, <1>8, MultipleOf
  <1> QED BY <1>9 DEF h, a

LEMMA BarsOnTheClockHolds == TypeOK /\ Countable => BarsOnTheClock
  <1> SUFFICES ASSUME TypeOK, Countable, events # {}, Cardinality(Midnights(Min(Stamps))) = 1,
                      ~(Midnight(Min(Stamps)) < Shift /\ Shift < Ends(timeline)),
                      NEW i \in 1..Len(timeline.bars),
                      NEW b, b = timeline.origin + (i - 1) * timeline.width
               PROVE  IF timeline.width >= Day THEN IsMidnight(b)
                      ELSE (Clock(b) % Day) % timeline.width = 0
    BY DEF BarsOnTheClock, Stamps
  <1>1. PICK s \in Nat, l \in Nat :
           /\ s = Min(Stamps) /\ s <= l
           /\ timeline.width = Width(l - s)
           /\ timeline.origin = TruncateLocal(s, timeline.width)
    BY TimelineIs
  <1>2. l - s \in Nat /\ s \in Int
    BY <1>1
  <1>3. PICK w \in Nat \ {0} : /\ w = timeline.width
                               /\ w >= Day => w % Day = 0
                               /\ w < Day => Day % w = 0
    BY <1>1, <1>2, WidthIs, StepIs
  <1>4. PICK m \in Int : m = Midnight(s) /\ Clock(m) % Day = 0 /\ m <= s
    BY <1>1, <1>2, MidnightIs, OneMidnight
  <1>5. PICK k \in Nat : timeline.origin = m + k * w
    <2>1. PICK k \in Int : TruncateLocal(s, w) = Midnight(s) + k * w /\ k >= 0
      BY <1>2, <1>4, OriginIs
    <2> QED BY <1>1, <1>3, <1>4, <2>1
  <1>6. Day \in Nat \ {0} /\ Shift \in Int /\ Jump \in Int
    BY ConstantsOk
  <1>7. PICK n \in Nat : n = Len(timeline.bars)
    <2>1. PICK c \in Nat \ {0} : Len(timeline.bars) = IF c > 2 * MaxBars THEN 2 * MaxBars ELSE c
      BY BarsOfTimeline
    <2>2. MaxBars \in Nat
      BY ConstantsOk
    <2> QED BY <2>1, <2>2
  <1>8. i \in Nat /\ 1 <= i /\ i <= n
    BY <1>7
  <1> DEFINE j == k + (i - 1)
  <1>9. j \in Nat /\ j < k + n
    BY <1>7, <1>8
  <1>10. b = m + j * w
    BY <1>3, <1>5, <1>8
  <1>11. Ends(timeline) = m + (k + n) * w
    <2>1. Ends(timeline) = (m + k * w) + n * w
      BY <1>3, <1>5, <1>7 DEF Ends
    <2>2. k * w + n * w = (k + n) * w
      BY Distribute
    <2> DEFINE x == k * w
               y == n * w
               z == (k + n) * w
    <2>3. x \in Int /\ y \in Int
      BY <1>7
    <2>4. Ends(timeline) = (m + x) + y /\ z = x + y
      BY <2>1, <2>2
    <2> HIDE DEF x, y, z
    <2>5. Ends(timeline) = m + z
      BY <2>3, <2>4
    <2> QED BY <2>5 DEF z
  <1> HIDE DEF j
  <1>12. /\ j * w \in Nat /\ (k + n) * w \in Nat
         /\ j * w < (k + n) * w
    <2>1. j * w \in Nat /\ (k + n) * w \in Nat
      BY <1>7, <1>9
    <2>2. w * j + w <= w * (k + n)
      BY <1>7, <1>9, Times
    <2>3. w * j = j * w /\ w * (k + n) = (k + n) * w
      BY <1>7, <1>9
    <2> QED BY <2>1, <2>2, <2>3
  \* The clock is set before the first bar or after the last, so that it tells the same
  \* difference from midnight at each.
  <1>13. Clock(b) = Clock(m) + j * w
    <2>1. Midnight(Min(Stamps)) = m
      BY <1>1, <1>4
    <2>2. CASE Shift <= m
      <3>1. ~(m < Shift) /\ ~(m + j * w < Shift)
        BY <1>6, <1>12, <2>2
      <3> QED BY <1>6, <1>10, <1>12, <3>1 DEF Clock
    <2>3. CASE m < Shift
      <3>1. m + (k + n) * w <= Shift
        BY <1>6, <1>11, <1>12, <2>1, <2>3
      <3>2. m + j * w < Shift
        BY <1>6, <1>12, <3>1
      <3> QED BY <1>6, <1>10, <1>12, <2>3, <3>2 DEF Clock
    <2> QED BY <1>6, <2>2, <2>3
  <1>14. Clock(m) \in Int /\ j \in Int
    BY <1>6, <1>9 DEF Clock
  <1>15. CASE w >= Day
    <2>1. (Clock(m) + j * w) % Day = 0
      BY <1>3, <1>4, <1>14, <1>15, DaysFromMidnight
    <2> QED BY <1>3, <1>13, <1>15, <2>1 DEF IsMidnight
  <1>16. CASE w < Day
    <2>1. Clock(m) % Day = 0 /\ Day % w = 0
      BY <1>3, <1>4, <1>16
    <2> DEFINE c == Clock(m)
    <2>2. c \in Int /\ c % Day = 0
      BY <1>14, <2>1
    <2> HIDE DEF c
    <2>3. ((c + j * w) % Day) % w = 0
      BY <1>14, <2>1, <2>2, MarksFromMidnight
    <2>4. ((Clock(m) + j * w) % Day) % w = 0
      BY <2>3 DEF c
    <2> QED BY <1>3, <1>6, <1>13, <1>16, <2>4
  <1> QED BY <1>6, <1>15, <1>16

\* BarsOnTheClock: the bars begin at full marks of the viewer's clock, whenever and by
\* however much less than a day it is set (truncateLocal, pages_sessions.go:308-318).
THEOREM TimelineIsOnTheClock == Spec => []BarsOnTheClock
  BY BarsOnTheClockHolds, TypeCorrect, PTL

LEMMA DisjointUnion ==
    ASSUME NEW S, NEW T, IsFiniteSet(S), IsFiniteSet(T), S \cap T = {}
    PROVE  IsFiniteSet(S \cup T) /\ Cardinality(S \cup T) = Cardinality(S) + Cardinality(T)
  <1>1. /\ IsFiniteSet(S \cup T)
        /\ Cardinality(S \cup T) = Cardinality(S) + Cardinality(T) - Cardinality(S \cap T)
    BY FS_Union
  <1>2. Cardinality(S \cap T) = 0
    BY FS_EmptySet
  <1>3. Cardinality(S) \in Nat /\ Cardinality(T) \in Nat
    BY FS_CardinalityType
  <1> QED BY <1>1, <1>2, <1>3

\* W is a function of sets of bars that grows with each bar by what is in it.
GrowsByBar(W, bars, N) ==
    /\ W = [s \in SUBSET (1..N) |-> W[s]]
    /\ W[{}] = 0
    /\ \A s \in SUBSET (1..N) : \A x \in s :
          W[s] = bars[x].prompts + bars[x].subagent + bars[x].replies + W[s \ {x}]

\* The sum over the bars is W[1..N] for the one such function W.  By induction on the
\* number of bars: a smallest set of bars that has another sum would not be empty, and
\* without one of its bars would be smaller still.
LEMMA InBarsIs ==
    ASSUME NEW bars, NEW N \in Nat, Len(bars) = N, NEW W, GrowsByBar(W, bars, N)
    PROVE  InBars(bars) = W[1..N]
  <1> DEFINE g(x) == bars[x].prompts + bars[x].subagent + bars[x].replies
             Body(f) == [s \in SUBSET (1..N) |->
                           IF s = {} THEN 0
                           ELSE g(CHOOSE x \in s : TRUE) + f[s \ {CHOOSE x \in s : TRUE}]]
             it == CHOOSE f : f = Body(f)
  <1> USE DEF GrowsByBar
  <1>1. InBars(bars) = it[1..N]
    BY DEF InBars, MapThenSumSet, MapThenFoldSet
  <1>2. \A s \in SUBSET (1..N) : s # {} => (CHOOSE x \in s : TRUE) \in s
    OBVIOUS
  <1>3. W = Body(W)
    <2>1. ASSUME NEW s \in SUBSET (1..N) PROVE W[s] = Body(W)[s]
      <3>1. CASE s = {}
        BY <3>1
      <3>2. CASE s # {}
        <4> DEFINE x == CHOOSE x \in s : TRUE
        <4>1. x \in s
          BY <1>2, <3>2
        <4>2. Body(W)[s] = g(x) + W[s \ {x}]
          BY <3>2
        <4> HIDE DEF x, Body
        <4>3. W[s] = bars[x].prompts + bars[x].subagent + bars[x].replies + W[s \ {x}]
          BY <4>1
        <4> QED BY <4>2, <4>3
      <3> QED BY <3>1, <3>2
    <2>2. Body(W) = [s \in SUBSET (1..N) |-> Body(W)[s]]
      OBVIOUS
    <2> HIDE DEF Body
    <2> QED BY <2>1, <2>2
  <1>4. it = Body(it)
    <2> HIDE DEF Body
    <2> QED BY <1>3
  <1> HIDE DEF it
  <1>5. it[{}] = 0
    BY <1>4
  <1>6. ASSUME NEW s \in SUBSET (1..N), s # {}
        PROVE  \E x \in s : it[s] = g(x) + it[s \ {x}]
    <2> DEFINE x == CHOOSE x \in s : TRUE
    <2>1. x \in s
      BY <1>2, <1>6
    <2>2. Body(it)[s] = g(x) + it[s \ {x}]
      BY <1>6
    <2> HIDE DEF x, Body, g
    <2> QED BY <1>4, <2>1, <2>2
  <1> HIDE DEF Body
  <1> DEFINE Bad   == {s \in SUBSET (1..N) : it[s] # W[s]}
             sizes == {Cardinality(s) : s \in Bad}
  <1>7. \A s \in SUBSET (1..N) : IsFiniteSet(s) /\ Cardinality(s) \in Nat
    <2>1. IsFiniteSet(1..N)
      BY FS_Interval
    <2> QED BY <2>1, FS_Subset, FS_CardinalityType
  <1>8. Bad = {}
    <2> SUFFICES ASSUME Bad # {} PROVE FALSE
      OBVIOUS
    <2>1. sizes \in SUBSET Nat /\ sizes # {}
      <3>1. \A s \in Bad : Cardinality(s) \in Nat
        BY <1>7
      <3> HIDE DEF Bad
      <3> QED BY <3>1
    <2>2. PICK c \in sizes : \A d \in sizes : c <= d
      <3> HIDE DEF sizes
      <3> QED BY <2>1, LeastOfNat
    <2>3. PICK s \in Bad : Cardinality(s) = c
      BY <2>2
    <2>4. s \in SUBSET (1..N) /\ it[s] # W[s]
      BY <2>3
    <2>5. s # {}
      BY <1>5, <2>4
    <2>6. PICK x \in s : it[s] = g(x) + it[s \ {x}]
      BY <1>6, <2>4, <2>5
    <2>7. s \ {x} \in SUBSET (1..N) /\ Cardinality(s \ {x}) = Cardinality(s) - 1
      <3>1. IsFiniteSet(s)
        BY <1>7, <2>4
      <3>2. Cardinality(s \ {x}) = Cardinality(s) - 1
        BY <2>6, <3>1, FS_RemoveElement
      <3> QED BY <2>4, <3>2
    <2>8. it[s \ {x}] = W[s \ {x}]
      <3>1. CASE s \ {x} \in Bad
        <4>1. Cardinality(s \ {x}) \in sizes
          BY <3>1
        <4>2. c <= Cardinality(s \ {x}) /\ Cardinality(s) \in Nat
          BY <1>7, <2>2, <2>4, <4>1
        <4> QED BY <2>3, <2>7, <4>2
      <3>2. CASE s \ {x} \notin Bad
        BY <2>7, <3>2
      <3> QED BY <3>1, <3>2
    <2>9. W[s] = bars[x].prompts + bars[x].subagent + bars[x].replies + W[s \ {x}]
      BY <2>4
    <2> QED BY <2>4, <2>6, <2>8, <2>9
  <1> QED BY <1>1, <1>8

\* The events of the timeline that are in the bars of the set s.
ShownIn(s) ==
    {e \in events : Shown(e) /\ Quo(e.ts - timeline.origin, timeline.width) + 1 \in s}

\* A bar counts what is shown of it: as a prompt, a reply, or a reply of a subagent.
LEMMA BarCounts ==
    ASSUME TypeOK, Countable, NEW i \in 1..Len(timeline.bars), Len(timeline.bars) \in Nat,
           timeline.width \in Nat \ {0}, timeline.origin \in Int, events # {}
    PROVE  Cardinality(ShownIn({i})) =
              timeline.bars[i].prompts + timeline.bars[i].subagent + timeline.bars[i].replies
  <1> DEFINE In == {e \in events : Quo(e.ts - timeline.origin, timeline.width) = i - 1}
             P  == {e \in In : e.kind = "prompt" /\ ~e.side}
             S  == {e \in In : Assistant(e) /\ e.side}
             R  == {e \in In : Assistant(e) /\ ~e.side}
  <1>1. /\ timeline.bars[i].prompts = Cardinality(P)
        /\ timeline.bars[i].subagent = Cardinality(S)
        /\ timeline.bars[i].replies = Cardinality(R)
    <2>1. i \in 1..BarCount(Max(Stamps) - timeline.origin, timeline.width)
      BY TimelineIs
    <2> QED BY <2>1 DEF timeline, Timeline, Count, Stamps
  <1>2. ShownIn({i}) = (P \cup S) \cup R
    <2>1. ASSUME NEW e \in events
          PROVE  Quo(e.ts - timeline.origin, timeline.width) + 1 \in {i} <=> e \in In
      <3>1. e.ts \in Nat
        BY ConstantsOk DEF TypeOK, events, Events, Message
      <3> DEFINE q == Quo(e.ts - timeline.origin, timeline.width)
      <3>2. q \in Int
        <4>1. e.ts - timeline.origin \in Int
          BY <3>1
        <4> QED BY <4>1, QuoIs
      <3>3. i \in Int
        OBVIOUS
      <3>4. e \in In <=> q = i - 1
        OBVIOUS
      <3> HIDE DEF q, In
      <3>5. q + 1 \in {i} <=> e \in In
        BY <3>2, <3>3, <3>4
      <3> QED BY <3>5 DEF q
    <2>2. ShownIn({i}) = {e \in In : Shown(e)}
      <3>1. In \subseteq events
        OBVIOUS
      <3> HIDE DEF In
      <3> QED BY <2>1, <3>1 DEF ShownIn
    <2>3. \A e \in In : e.side \in BOOLEAN
      BY ConstantsOk DEF TypeOK, events, Events, Message
    <2> HIDE DEF In
    <2> QED BY <2>2, <2>3 DEF Shown
  <1>3. IsFiniteSet(P) /\ IsFiniteSet(S) /\ IsFiniteSet(R)
    <2>1. IsFiniteSet(messages)
      BY DEF Countable
    <2>2. P \in SUBSET messages /\ S \in SUBSET messages /\ R \in SUBSET messages
      BY DEF events, Events
    <2> HIDE DEF P, S, R
    <2> QED BY <2>1, <2>2, FS_Subset
  <1>4. P \cap S = {} /\ (P \cup S) \cap R = {}
    BY DEF Assistant
  <1> HIDE DEF P, S, R, In
  <1>5. IsFiniteSet(P \cup S) /\ Cardinality(P \cup S) = Cardinality(P) + Cardinality(S)
    BY <1>3, <1>4, DisjointUnion
  <1>6. Cardinality((P \cup S) \cup R) = Cardinality(P \cup S) + Cardinality(R)
    BY <1>3, <1>4, <1>5, DisjointUnion
  <1>7. Cardinality(P) \in Nat /\ Cardinality(S) \in Nat /\ Cardinality(R) \in Nat
    BY <1>3, FS_CardinalityType
  <1> QED BY <1>1, <1>2, <1>5, <1>6, <1>7

LEMMA SumOfBars ==
    ASSUME TypeOK, Countable, events # {}, timeline.width \in Nat \ {0}, timeline.origin \in Int,
           NEW N \in Nat, Len(timeline.bars) = N
    PROVE  InBars(timeline.bars) = Cardinality(ShownIn(1..N))
  <1> DEFINE W == [s \in SUBSET (1..N) |-> Cardinality(ShownIn(s))]
             bars == timeline.bars
  <1>1. \A s : IsFiniteSet(ShownIn(s)) /\ Cardinality(ShownIn(s)) \in Nat
    <2> SUFFICES ASSUME NEW s
                 PROVE  IsFiniteSet(ShownIn(s)) /\ Cardinality(ShownIn(s)) \in Nat
      OBVIOUS
    <2>1. IsFiniteSet(messages) /\ ShownIn(s) \in SUBSET messages
      BY DEF Countable, ShownIn, events, Events
    <2> QED BY <2>1, FS_Subset, FS_CardinalityType
  <1>2. ASSUME NEW s \in SUBSET (1..N), NEW x \in s
        PROVE  W[s] = bars[x].prompts + bars[x].subagent + bars[x].replies + W[s \ {x}]
    <2>1. x \in 1..Len(timeline.bars)
      OBVIOUS
    <2>2. Cardinality(ShownIn({x})) = bars[x].prompts + bars[x].subagent + bars[x].replies
      BY <2>1, BarCounts
    <2>3. /\ ShownIn(s) = ShownIn({x}) \cup ShownIn(s \ {x})
          /\ ShownIn({x}) \cap ShownIn(s \ {x}) = {}
      BY DEF ShownIn
    <2>4. Cardinality(ShownIn(s)) = Cardinality(ShownIn({x})) + Cardinality(ShownIn(s \ {x}))
      BY <1>1, <2>3, DisjointUnion
    <2>5. W[s] = Cardinality(ShownIn(s)) /\ W[s \ {x}] = Cardinality(ShownIn(s \ {x}))
      OBVIOUS
    <2> HIDE DEF W, bars
    <2> QED BY <2>2, <2>4, <2>5
  <1>3. W[{}] = 0
    <2>1. ShownIn({}) = {}
      BY DEF ShownIn
    <2> QED BY <2>1, FS_EmptySet
  <1>4. W = [s \in SUBSET (1..N) |-> W[s]]
    OBVIOUS
  <1>5. W[1..N] = Cardinality(ShownIn(1..N))
    OBVIOUS
  <1> HIDE DEF W
  <1>6. InBars(bars) = W[1..N]
    <2>1. \A s \in SUBSET (1..N) : \A x \in s :
             W[s] = bars[x].prompts + bars[x].subagent + bars[x].replies + W[s \ {x}]
      BY <1>2
    <2>2. Len(bars) = N
      OBVIOUS
    <2>3. GrowsByBar(W, bars, N)
      BY <1>3, <1>4, <2>1 DEF GrowsByBar
    <2> HIDE DEF bars
    <2> QED BY <2>2, <2>3, InBarsIs
  <1> QED BY <1>5, <1>6

\* An instant is in one of the first N bars just if it is before their end.
LEMMA InFirstBars ==
    ASSUME NEW a \in Int, NEW w \in Nat \ {0}, NEW N \in Nat \ {0}, -w < a
    PROVE  Quo(a, w) + 1 \in 1..N <=> a < N * w
  <1>1. w * N \in Nat /\ N * w = w * N /\ w <= w * N
    OBVIOUS
  <1>2. CASE a < 0
    <2>1. Quo(a, w) = 0
      BY <1>2, QuoIs
    <2> QED BY <1>1, <1>2, <2>1
  <1>3. CASE a >= 0
    <2> DEFINE q == a \div w
    <2>1. a \in Nat /\ Quo(a, w) = q
      BY <1>3 DEF Quo
    <2>2. q \in Nat /\ w * q \in Nat /\ w * q <= a /\ a < w * q + w
      BY <2>1, Quotient
    <2> HIDE DEF q
    <2>3. q < N => w * q + w <= w * N
      BY <2>2, Times
    <2>4. N <= q => w * N <= w * q
      BY <2>2
    <2>5. q + 1 \in 1..N <=> q < N
      BY <2>2
    <2>6. q < N <=> a < w * N
      BY <1>1, <2>1, <2>2, <2>3, <2>4
    <2> QED BY <1>1, <2>1, <2>5, <2>6
  <1> QED BY <1>2, <1>3

LEMMA NoEventDroppedHolds == TypeOK /\ Countable => NoEventDropped
  <1> DEFINE within == {e \in events : e.ts < Ends(timeline)}
  <1> SUFFICES ASSUME TypeOK, Countable, events # {}
               PROVE  /\ Len(timeline.bars) < 2 * MaxBars => within = events
                      /\ within # events => timeline.width = Steps[Len(Steps)]
                      /\ InBars(timeline.bars) = Cardinality({e \in within : Shown(e)})
    BY DEF NoEventDropped
  <1>1. PICK n \in Nat \ {0} :
           /\ timeline.width \in Nat \ {0} /\ timeline.origin \in Int
           /\ \A e \in events : /\ e.ts \in Nat
                                /\ timeline.origin < e.ts + timeline.width
                                /\ e.ts < timeline.origin + n * timeline.width
           /\ Len(timeline.bars) = IF n > 2 * MaxBars THEN 2 * MaxBars ELSE n
           /\ timeline.width # Steps[Len(Steps)] =>
                n <= MaxBars + (IF Min(Stamps) < timeline.origin + timeline.width
                                THEN 1 ELSE 2)
    BY BarsOfTimeline
  <1>2. PICK w \in Nat \ {0}, o \in Int : w = timeline.width /\ o = timeline.origin
    BY <1>1
  <1>3. MaxBars \in Nat /\ MaxBars >= 2
    BY ConstantsOk
  <1>4. PICK N \in Nat \ {0} : N = Len(timeline.bars)
    BY <1>1, <1>3
  <1>5. Ends(timeline) = o + N * w
    BY <1>2, <1>4 DEF Ends
  <1>6. ASSUME N = n PROVE within = events
    <2>1. \A e \in events : e.ts < o + N * w
      BY <1>1, <1>2, <1>6
    <2> QED BY <1>5, <2>1
  <1>7. Len(timeline.bars) < 2 * MaxBars => N = n
    BY <1>1, <1>3, <1>4
  <1>8. w # Steps[Len(Steps)] => N = n
    <2>1. timeline.width # Steps[Len(Steps)] => n <= MaxBars + 2
      BY <1>1, <1>3
    <2> QED BY <1>1, <1>2, <1>3, <1>4, <2>1
  <1>9. ShownIn(1..N) = {e \in within : Shown(e)}
    <2>1. ASSUME NEW e \in events
          PROVE  Quo(e.ts - timeline.origin, timeline.width) + 1 \in 1..N <=> e.ts < Ends(timeline)
      <3> DEFINE a == e.ts - o
      <3>1. e.ts \in Nat /\ o < e.ts + w
        BY <1>1, <1>2
      <3>2. a \in Int /\ e.ts = o + a /\ -w < a
        BY <3>1
      <3> HIDE DEF a
      <3>3. Quo(a, w) + 1 \in 1..N <=> a < N * w
        BY <3>2, InFirstBars
      <3>4. N * w \in Nat
        OBVIOUS
      <3>5. a < N * w <=> e.ts < o + N * w
        BY <3>2, <3>4
      <3>6. Quo(a, w) = Quo(e.ts - timeline.origin, timeline.width)
        BY <1>2 DEF a
      <3> QED BY <1>5, <3>3, <3>5, <3>6
    <2> QED BY <2>1 DEF ShownIn
  <1>10. InBars(timeline.bars) = Cardinality(ShownIn(1..N))
    BY <1>1, <1>4, SumOfBars
  <1> HIDE DEF within
  <1> QED BY <1>1, <1>2, <1>6, <1>7, <1>8, <1>9, <1>10

\* NoEventDropped: each prompt and reply is counted in the one bar of its time; an event
\* is in none only beyond twice maxBars of the widest bars (pages_sessions.go:270-301).
THEOREM TimelineIsComplete == Spec => []NoEventDropped
  BY NoEventDroppedHolds, TypeCorrect, PTL

=============================================================================
