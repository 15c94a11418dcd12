----------------------------- MODULE Pages_proofs -----------------------------
(***************************************************************************)
(* Proofs about Pages, for any contents, filters, page sizes, numbers in   *)
(* the query, passes and commits.                                          *)
(***************************************************************************)
EXTENDS Pages, FiniteSetTheorems, TLAPS

-----------------------------------------------------------------------------
\* What handlers read.

Names(s) == {s[i] : i \in 1..Len(s)}

\* What never follows a read: nothing is looked for after the count of Status, and the
\* page is fixed once the list has been read.
Barred(a) == IF a = "CountSessions" THEN {"Stats", "Summary", "Detail", "GetProject"}
             ELSE IF a = "Clamp" THEN {"Count", "Rows", "Clamp"} ELSE {}

InOrder(s) == \A i, j \in 1..Len(s) : i < j => s[j] \notin Barred(s[i])

\* Rows are queried after they are counted.
RowsFollow(s) ==
    \A i \in 1..Len(s) : s[i] = "Count" => \E j \in i + 1..Len(s) : s[j] = "Rows"

Sound(s) == s \in Seq(Reads) /\ InOrder(s) /\ RowsFollow(s)

LEMMA JoinNames ==
    ASSUME NEW s \in Seq(Reads), NEW t \in Seq(Reads)
    PROVE  s \o t \in Seq(Reads) /\ Names(s \o t) = Names(s) \cup Names(t)
<1>1. s \o t \in Seq(Reads) /\ Len(s \o t) = Len(s) + Len(t)
  OBVIOUS
<1>2. \A i \in 1..Len(s) : i \in 1..Len(s \o t) /\ (s \o t)[i] = s[i]
  OBVIOUS
<1>3. \A i \in 1..Len(t) : Len(s) + i \in 1..Len(s \o t) /\ (s \o t)[Len(s) + i] = t[i]
  OBVIOUS
<1>4. \A i \in 1..Len(s \o t) : i \in 1..Len(s) \/ \E j \in 1..Len(t) : i = Len(s) + j
  <2> TAKE i \in 1..Len(s \o t)
  <2>1. CASE i > Len(s)
    <3>1. i - Len(s) \in 1..Len(t) /\ i = Len(s) + (i - Len(s)) BY <1>1, <2>1
    <3> QED BY <3>1
  <2> QED BY <1>1, <2>1
<1> QED BY <1>1, <1>2, <1>3, <1>4, Z3 DEF Names

\* What may be put together.
LEMMA JoinSound ==
    ASSUME NEW s, NEW t, Sound(s), Sound(t),
           \A a \in Names(s) : Names(t) \cap Barred(a) = {}
    PROVE  Sound(s \o t)
<1> DEFINE u == s \o t
<1>1. /\ s \in Seq(Reads) /\ t \in Seq(Reads)
      /\ u \in Seq(Reads) /\ Len(u) = Len(s) + Len(t)
  BY DEF Sound
<1>2. \A i \in 1..Len(u) :
        \/ i \in 1..Len(s) /\ u[i] = s[i] /\ u[i] \in Names(s)
        \/ i - Len(s) \in 1..Len(t) /\ i > Len(s) /\ u[i] = t[i - Len(s)] /\ u[i] \in Names(t)
  BY <1>1 DEF Names
<1>3. /\ \A i \in 1..Len(s) : u[i] = s[i]
      /\ \A i \in 1..Len(t) : Len(s) + i \in 1..Len(u) /\ u[Len(s) + i] = t[i]
  BY <1>1
<1> HIDE DEF u
<1>4. InOrder(u)
  <2> SUFFICES ASSUME NEW i \in 1..Len(u), NEW j \in 1..Len(u), i < j,
                      u[j] \in Barred(u[i])
               PROVE  FALSE
    BY DEF InOrder
  <2>1. CASE i > Len(s)
    <3>1. /\ i - Len(s) \in 1..Len(t) /\ j - Len(s) \in 1..Len(t)
          /\ u[i] = t[i - Len(s)] /\ u[j] = t[j - Len(s)] /\ i - Len(s) < j - Len(s)
      BY <1>1, <1>2, <2>1
    <3> QED BY <3>1 DEF Sound, InOrder
  <2>2. CASE i <= Len(s) /\ j <= Len(s)
    <3>1. i \in 1..Len(s) /\ j \in 1..Len(s) /\ u[i] = s[i] /\ u[j] = s[j]
      BY <1>1, <1>2, <2>2
    <3> QED BY <3>1 DEF Sound, InOrder
  <2>3. CASE i <= Len(s) /\ j > Len(s)
    BY <1>1, <1>2, <2>3
  <2> QED BY <1>1, <2>1, <2>2, <2>3
<1>5. RowsFollow(u)
  <2> SUFFICES ASSUME NEW i \in 1..Len(u), u[i] = "Count"
               PROVE  \E j \in i + 1..Len(u) : u[j] = "Rows"
    BY DEF RowsFollow
  <2>1. CASE i \in 1..Len(s) /\ u[i] = s[i]
    <3>1. PICK j \in i + 1..Len(s) : s[j] = "Rows" BY <2>1 DEF Sound, RowsFollow
    <3>2. j \in 1..Len(s) /\ j \in i + 1..Len(u) BY <1>1, <2>1
    <3> QED BY <1>3, <3>1, <3>2
  <2>2. CASE i - Len(s) \in 1..Len(t) /\ u[i] = t[i - Len(s)]
    <3>1. PICK j \in (i - Len(s)) + 1..Len(t) : t[j] = "Rows" BY <2>2 DEF Sound, RowsFollow
    <3>2. j \in 1..Len(t) /\ Len(s) + j \in i + 1..Len(u) BY <1>1, <2>2
    <3> QED BY <1>3, <3>1, <3>2
  <2> QED BY <1>2, <2>1, <2>2
<1> QED BY <1>1, <1>4, <1>5 DEF Sound, u

\* What is left to read after the first.
LEMMA TailSound ==
    ASSUME NEW s, Sound(s), s # << >>
    PROVE  /\ Sound(Tail(s))
           /\ Names(s) = {Head(s)} \cup Names(Tail(s))
           /\ Names(Tail(s)) \cap Barred(Head(s)) = {}
           /\ Head(s) = "Count" => "Rows" \in Names(Tail(s))
<1> DEFINE t == Tail(s)
<1>1. /\ s \in Seq(Reads) /\ t \in Seq(Reads) /\ Len(s) = Len(t) + 1 /\ Head(s) = s[1]
      /\ 1 \in 1..Len(s)
  BY DEF Sound
<1>2. \A i \in 1..Len(t) : i + 1 \in 1..Len(s) /\ t[i] = s[i + 1]
  BY <1>1
<1> HIDE DEF t
<1>3. \A i \in 1..Len(s) : i # 1 => i - 1 \in 1..Len(t) /\ s[i] = t[i - 1]
  <2> SUFFICES ASSUME NEW i \in 1..Len(s), i # 1
               PROVE  i - 1 \in 1..Len(t) /\ s[i] = t[i - 1]
    OBVIOUS
  <2>1. PICK k \in 1..Len(t) : k = i - 1 /\ k + 1 = i
    BY <1>1
  <2>2. t[k] = s[i]
    BY <1>2, <2>1
  <2> QED BY <2>1, <2>2
<1>4. InOrder(t)
  <2> SUFFICES ASSUME NEW i \in 1..Len(t), NEW j \in 1..Len(t), i < j,
                      t[j] \in Barred(t[i])
               PROVE  FALSE
    BY DEF InOrder
  <2>1. i + 1 \in 1..Len(s) /\ j + 1 \in 1..Len(s) /\ i + 1 < j + 1 /\ t[i] = s[i + 1] /\ t[j] = s[j + 1]
    BY <1>1, <1>2
  <2> QED BY <2>1 DEF Sound, InOrder
<1>5. RowsFollow(t)
  <2> SUFFICES ASSUME NEW i \in 1..Len(t), t[i] = "Count"
               PROVE  \E j \in i + 1..Len(t) : t[j] = "Rows"
    BY DEF RowsFollow
  <2>1. PICK j \in (i + 1) + 1..Len(s) : s[j] = "Rows"
    BY <1>2 DEF Sound, RowsFollow
  <2>2. j - 1 \in i + 1..Len(t) /\ t[j - 1] = s[j]
    BY <1>1, <1>3
  <2> QED BY <2>1, <2>2
<1>6. Names(s) = {Head(s)} \cup Names(t)
  <2>1. \A i \in 1..Len(s) : s[i] \in {Head(s)} \cup Names(t)
    BY <1>1, <1>3 DEF Names
  <2>2. \A i \in 1..Len(t) : t[i] \in Names(s)
    BY <1>2 DEF Names
  <2>3. Head(s) \in Names(s)
    BY <1>1 DEF Names
  <2> QED BY <2>1, <2>2, <2>3 DEF Names
<1>7. Names(t) \cap Barred(Head(s)) = {}
  <2> SUFFICES ASSUME NEW i \in 1..Len(t), t[i] \in Barred(Head(s)) PROVE FALSE
    BY DEF Names
  <2>1. i + 1 \in 1..Len(s) /\ 1 < i + 1 /\ t[i] = s[i + 1] BY <1>1, <1>2
  <2> QED BY <1>1, <2>1 DEF Sound, InOrder
<1>8. ASSUME Head(s) = "Count" PROVE "Rows" \in Names(t)
  <2>1. PICK j \in 2..Len(s) : s[j] = "Rows" BY <1>1, <1>8 DEF Sound, RowsFollow
  <2>2. j - 1 \in 1..Len(t) /\ t[j - 1] = "Rows" BY <1>1, <1>3, <2>1
  <2> QED BY <2>2 DEF Names
<1> QED BY <1>1, <1>4, <1>5, <1>6, <1>7, <1>8 DEF Sound, t

\* The sequences that handlers are made of.
LEMMA PlainSound ==
    ASSUME NEW s \in Seq(Reads), Names(s) \cap {"CountSessions", "Count", "Clamp"} = {}
    PROVE  Sound(s)
<1>1. \A i \in 1..Len(s) : s[i] # "CountSessions" /\ s[i] # "Count" /\ s[i] # "Clamp"
  BY DEF Names
<1> QED BY <1>1 DEF Sound, InOrder, Barred, RowsFollow

LEMMA NamesOfFew ==
    ASSUME NEW s
    PROVE  /\ Len(s) = 1 => Names(s) = {s[1]}
           /\ Len(s) = 2 => Names(s) = {s[1], s[2]}
           /\ Len(s) = 3 => Names(s) = {s[1], s[2], s[3]}
           /\ Len(s) = 4 => Names(s) = {s[1], s[2], s[3], s[4]}
           /\ Len(s) = 5 => Names(s) = {s[1], s[2], s[3], s[4], s[5]}
           /\ Len(s) = 6 => Names(s) = {s[1], s[2], s[3], s[4], s[5], s[6]}
<1>1. Len(s) = 1 => Names(s) = {s[1]}
  BY DEF Names
<1>2. Len(s) = 2 => Names(s) = {s[1], s[2]}
  BY DEF Names
<1>3. Len(s) = 3 => Names(s) = {s[1], s[2], s[3]}
  BY DEF Names
<1>4. Len(s) = 4 => Names(s) = {s[1], s[2], s[3], s[4]}
  BY DEF Names
<1>5. Len(s) = 5 => Names(s) = {s[1], s[2], s[3], s[4], s[5]}
  BY DEF Names
<1>6. Len(s) = 6 => Names(s) = {s[1], s[2], s[3], s[4], s[5], s[6]}
  BY DEF Names
<1> QED BY <1>1, <1>2, <1>3, <1>4, <1>5, <1>6

LEMMA StatusSound ==
    /\ Sound(Layout) /\ Names(Layout) = {"Meta", "Stats", "Scanning", "CountSessions", "Account"}
    /\ Sound(StatusReads) /\ Names(StatusReads) = {"Stats", "Scanning", "CountSessions"}
<1>1. Layout \in Seq(Reads)
  BY DEF Layout, Reads, Optional, Local
<1>2. Len(Layout) = 5
  BY DEF Layout
<1>3. Names(Layout) = {"Meta", "Stats", "Scanning", "CountSessions", "Account"}
  <2>1. Names(Layout) = {Layout[1], Layout[2], Layout[3], Layout[4], Layout[5]}
    BY <1>2, NamesOfFew
  <2> QED BY <2>1 DEF Layout
<1>4. \A i \in 1..5 : /\ Layout[i] # "Count" /\ (i < 4 => Barred(Layout[i]) = {})
                       /\ (i > 4 => Layout[i] \notin Barred("CountSessions"))
                       /\ (i = 4 => Layout[i] = "CountSessions")
  BY DEF Layout, Barred
<1>5. StatusReads \in Seq(Reads)
  BY DEF StatusReads, Reads, Optional, Local
<1>6. Len(StatusReads) = 3
  BY DEF StatusReads
<1>7. Names(StatusReads) = {"Stats", "Scanning", "CountSessions"}
  <2>1. Names(StatusReads) = {StatusReads[1], StatusReads[2], StatusReads[3]}
    BY <1>6, NamesOfFew
  <2> QED BY <2>1 DEF StatusReads
<1>8. \A i \in 1..3 : StatusReads[i] # "Count" /\ (i < 3 => Barred(StatusReads[i]) = {})
  BY DEF StatusReads, Barred
<1>9. Sound(Layout)
  BY <1>1, <1>2, <1>4 DEF Sound, InOrder, RowsFollow
<1>10. Sound(StatusReads)
  BY <1>5, <1>6, <1>8 DEF Sound, InOrder, RowsFollow
<1> QED BY <1>3, <1>7, <1>9, <1>10

LEMMA SummarySound ==
    /\ Sound(SummaryReads)
    /\ Names(SummaryReads) = {"Totals", "ModelUsage", "DailyUsage", "HourCounts", "ToolUsage"}
<1>1. SummaryReads \in Seq(Reads)
  BY DEF SummaryReads, Reads, Plain
<1>2. Len(SummaryReads) = 5
  BY DEF SummaryReads
<1>3. Names(SummaryReads) = {"Totals", "ModelUsage", "DailyUsage", "HourCounts", "ToolUsage"}
  <2>1. Names(SummaryReads) = {SummaryReads[1], SummaryReads[2], SummaryReads[3],
                               SummaryReads[4], SummaryReads[5]}
    BY <1>2, NamesOfFew
  <2> QED BY <2>1 DEF SummaryReads
<1> QED BY <1>1, <1>3, PlainSound

LEMMA SessionSound ==
    /\ Sound(SessionPage)
    /\ Names(SessionPage) = {"Summary", "Detail"} \cup SessionParts
<1>1. SessionPage \in Seq(Reads)
  BY DEF SessionPage, Reads, SessionParts
<1>2. Len(SessionPage) = 6
  BY DEF SessionPage
<1>3. Names(SessionPage) = {"Summary", "Detail"} \cup SessionParts
  <2>1. Names(SessionPage) = {SessionPage[1], SessionPage[2], SessionPage[3],
                              SessionPage[4], SessionPage[5], SessionPage[6]}
    BY <1>2, NamesOfFew
  <2> QED BY <2>1 DEF SessionPage, SessionParts
<1> QED BY <1>1, <1>3, PlainSound DEF SessionParts

\* Reads that bar nothing, so that anything may follow.
Free(s) == Sound(s) /\ Names(s) \cap {"CountSessions", "Clamp"} = {}

LEMMA FreePlain ==
    ASSUME NEW s \in Seq(Reads), Names(s) \cap {"CountSessions", "Count", "Clamp"} = {}
    PROVE  Free(s)
BY PlainSound DEF Free

LEMMA FreeJoin ==
    ASSUME NEW s, NEW t, Free(s), Free(t)
    PROVE  Free(s \o t) /\ Names(s \o t) = Names(s) \cup Names(t)
<1>1. \A a \in Names(s) : Barred(a) = {}
  BY DEF Free, Barred
<1>2. s \in Seq(Reads) /\ t \in Seq(Reads) /\ Sound(s) /\ Sound(t)
  BY DEF Free, Sound
<1>3. Sound(s \o t) /\ Names(s \o t) = Names(s) \cup Names(t)
  BY <1>1, <1>2, JoinSound, JoinNames
<1> QED BY <1>3 DEF Free

LEMMA PagesFree ==
    /\ Free(SummaryReads) /\ Free(SessionPage)
    /\ Free(ProjectsPage)
    /\ Free(ProjectPage)
    /\ Free(SettingsPage)
    /\ Free(SkillsPage)
    /\ Free(SystemPage)
    /\ Free(UsageJSON)
    /\ Free(<<"DailyUsage">>) /\ Free(<<"LiveSessions">>)
<1>1. Free(SummaryReads)
  BY SummarySound DEF Free
<1>2. Free(SessionPage)
  BY SessionSound DEF Free, SessionParts
<1>3. Free(ProjectsPage)
  <2>1. ProjectsPage \in Seq(Reads)
    BY DEF ProjectsPage, Reads, Plain, Optional
  <2>2. Len(ProjectsPage) = 1
    BY DEF ProjectsPage
  <2>3. Names(ProjectsPage) = {ProjectsPage[1]}
    BY <2>2, NamesOfFew
  <2>4. Names(ProjectsPage) \cap {"CountSessions", "Count", "Clamp"} = {}
    BY <2>3 DEF ProjectsPage
  <2> QED BY <2>1, <2>4, FreePlain
<1>4. Free(ProjectPage)
  <2>1. ProjectPage \in Seq(Reads)
    BY DEF ProjectPage, Reads, Plain, Optional
  <2>2. Len(ProjectPage) = 4
    BY DEF ProjectPage
  <2>3. Names(ProjectPage) = {ProjectPage[1], ProjectPage[2], ProjectPage[3], ProjectPage[4]}
    BY <2>2, NamesOfFew
  <2>4. Names(ProjectPage) \cap {"CountSessions", "Count", "Clamp"} = {}
    BY <2>3 DEF ProjectPage
  <2> QED BY <2>1, <2>4, FreePlain
<1>5. Free(SettingsPage)
  <2>1. SettingsPage \in Seq(Reads)
    BY DEF SettingsPage, Reads, Plain, Optional
  <2>2. Len(SettingsPage) = 3
    BY DEF SettingsPage
  <2>3. Names(SettingsPage) = {SettingsPage[1], SettingsPage[2], SettingsPage[3]}
    BY <2>2, NamesOfFew
  <2>4. Names(SettingsPage) \cap {"CountSessions", "Count", "Clamp"} = {}
    BY <2>3 DEF SettingsPage
  <2> QED BY <2>1, <2>4, FreePlain
<1>6. Free(SkillsPage)
  <2>1. SkillsPage \in Seq(Reads)
    BY DEF SkillsPage, Reads, Plain, Optional
  <2>2. Len(SkillsPage) = 4
    BY DEF SkillsPage
  <2>3. Names(SkillsPage) = {SkillsPage[1], SkillsPage[2], SkillsPage[3], SkillsPage[4]}
    BY <2>2, NamesOfFew
  <2>4. Names(SkillsPage) \cap {"CountSessions", "Count", "Clamp"} = {}
    BY <2>3 DEF SkillsPage
  <2> QED BY <2>1, <2>4, FreePlain
<1>7. Free(SystemPage)
  <2>1. SystemPage \in Seq(Reads)
    BY DEF SystemPage, Reads, Plain, Optional
  <2>2. Len(SystemPage) = 4
    BY DEF SystemPage
  <2>3. Names(SystemPage) = {SystemPage[1], SystemPage[2], SystemPage[3], SystemPage[4]}
    BY <2>2, NamesOfFew
  <2>4. Names(SystemPage) \cap {"CountSessions", "Count", "Clamp"} = {}
    BY <2>3 DEF SystemPage
  <2> QED BY <2>1, <2>4, FreePlain
<1>8. Free(UsageJSON)
  <2>1. UsageJSON \in Seq(Reads)
    BY DEF UsageJSON, Reads, Plain, Optional
  <2>2. Len(UsageJSON) = 2
    BY DEF UsageJSON
  <2>3. Names(UsageJSON) = {UsageJSON[1], UsageJSON[2]}
    BY <2>2, NamesOfFew
  <2>4. Names(UsageJSON) \cap {"CountSessions", "Count", "Clamp"} = {}
    BY <2>3 DEF UsageJSON
  <2> QED BY <2>1, <2>4, FreePlain
<1>9. Free(<<"DailyUsage">>)
  <2> DEFINE s == <<"DailyUsage">>
  <2>1. s \in Seq(Reads)
    BY DEF Reads, Plain
  <2>2. Len(s) = 1
    OBVIOUS
  <2>3. s[1] = "DailyUsage"
    OBVIOUS
  <2> HIDE DEF s
  <2>4. Names(s) \cap {"CountSessions", "Count", "Clamp"} = {}
    BY <2>2, <2>3, NamesOfFew
  <2>5. Free(s)
    BY <2>1, <2>4, FreePlain
  <2> QED BY <2>5 DEF s
<1>10. Free(<<"LiveSessions">>)
  <2> DEFINE s == <<"LiveSessions">>
  <2>1. s \in Seq(Reads)
    BY DEF Reads, Plain
  <2>2. Len(s) = 1
    OBVIOUS
  <2>3. s[1] = "LiveSessions"
    OBVIOUS
  <2> HIDE DEF s
  <2>4. Names(s) \cap {"CountSessions", "Count", "Clamp"} = {}
    BY <2>2, <2>3, NamesOfFew
  <2>5. Free(s)
    BY <2>1, <2>4, FreePlain
  <2> QED BY <2>5 DEF s
<1> QED BY <1>1, <1>2, <1>3, <1>4, <1>5, <1>6, <1>7, <1>8, <1>9, <1>10

LEMMA ListsSound ==
    /\ Sound(SessionsPage) /\ "CountSessions" \notin Names(SessionsPage)
    /\ Sound(PlansPage) /\ "CountSessions" \notin Names(PlansPage)
    /\ {"Count", "Clamp"} \subseteq Names(SessionsPage)
    /\ {"Count", "Clamp"} \subseteq Names(PlansPage)
    /\ Sound(SessionsJSON)
<1>1. /\ Sound(SessionsPage) /\ "CountSessions" \notin Names(SessionsPage)
      /\ {"Count", "Clamp"} \subseteq Names(SessionsPage)
  <2>1. SessionsPage \in Seq(Reads)
    BY DEF SessionsPage, Reads, Plain, Local
  <2>2. Len(SessionsPage) = 5
    BY DEF SessionsPage
  <2>3. Names(SessionsPage) = {"Count", "Rows", "ProjectOptions", "ModelOptions", "Clamp"}
    <3>1. Names(SessionsPage) = {SessionsPage[1], SessionsPage[2], SessionsPage[3], SessionsPage[4], SessionsPage[5]}
      BY <2>2, NamesOfFew
    <3> QED BY <3>1 DEF SessionsPage
  <2>4. \A i \in 1..5 : (i < 5 => Barred(SessionsPage[i]) = {}) /\ (SessionsPage[i] = "Count" => i = 1)
    BY DEF SessionsPage, Barred
  <2>5. 2 \in 1 + 1..5 /\ SessionsPage[2] = "Rows"
    BY DEF SessionsPage
  <2>6. Sound(SessionsPage)
    BY <2>1, <2>2, <2>4, <2>5 DEF Sound, InOrder, RowsFollow
  <2> QED BY <2>3, <2>6
<1>2. /\ Sound(PlansPage) /\ "CountSessions" \notin Names(PlansPage)
      /\ {"Count", "Clamp"} \subseteq Names(PlansPage)
  <2>1. PlansPage \in Seq(Reads)
    BY DEF PlansPage, Reads, Plain, Local
  <2>2. Len(PlansPage) = 4
    BY DEF PlansPage
  <2>3. Names(PlansPage) = {"ListPlans", "Count", "Rows", "Clamp"}
    <3>1. Names(PlansPage) = {PlansPage[1], PlansPage[2], PlansPage[3], PlansPage[4]}
      BY <2>2, NamesOfFew
    <3> QED BY <3>1 DEF PlansPage
  <2>4. \A i \in 1..4 : (i < 4 => Barred(PlansPage[i]) = {}) /\ (PlansPage[i] = "Count" => i = 2)
    BY DEF PlansPage, Barred
  <2>5. 3 \in 2 + 1..4 /\ PlansPage[3] = "Rows"
    BY DEF PlansPage
  <2>6. Sound(PlansPage)
    BY <2>1, <2>2, <2>4, <2>5 DEF Sound, InOrder, RowsFollow
  <2> QED BY <2>3, <2>6
<1>3. Sound(SessionsJSON)
  <2>1. SessionsJSON \in Seq(Reads)
    BY DEF SessionsJSON, Reads, Plain, Local
  <2>2. Len(SessionsJSON) = 2
    BY DEF SessionsJSON
  <2>3. Names(SessionsJSON) = {"Count", "Rows"}
    <3>1. Names(SessionsJSON) = {SessionsJSON[1], SessionsJSON[2]}
      BY <2>2, NamesOfFew
    <3> QED BY <3>1 DEF SessionsJSON
  <2>4. \A i \in 1..2 : (i < 2 => Barred(SessionsJSON[i]) = {}) /\ (SessionsJSON[i] = "Count" => i = 1)
    BY DEF SessionsJSON, Barred
  <2>5. 2 \in 1 + 1..2 /\ SessionsJSON[2] = "Rows"
    BY DEF SessionsJSON
  <2>6. Sound(SessionsJSON)
    BY <2>1, <2>2, <2>4, <2>5 DEF Sound, InOrder, RowsFollow
  <2> QED BY <2>3, <2>6
<1> QED BY <1>1, <1>2, <1>3

LEMMA DashboardFree == Free(DashboardPage)
<1> DEFINE rest == <<"RecentSessions", "LiveSessions", "DirStats", "Meta", "Account", "Activity">>
<1>1. rest \in Seq(Reads)
  BY DEF Reads, Plain, Optional
<1>2. Len(rest) = 6
  OBVIOUS
<1>3. \A i \in 1..6 : rest[i] \notin {"CountSessions", "Count", "Clamp"}
  OBVIOUS
<1>4. DashboardPage = SummaryReads \o rest
  BY DEF DashboardPage
<1> HIDE DEF rest
<1>5. Names(rest) \cap {"CountSessions", "Count", "Clamp"} = {}
  BY <1>2, <1>3 DEF Names
<1>6. Free(rest)
  BY <1>1, <1>5, FreePlain
<1> QED BY <1>4, <1>6, PagesFree, FreeJoin

LEMMA SummaryJSONSound == Sound(SummaryJSON)
<1> DEFINE rest == <<"LiveSessions", "Meta">>
<1>1. rest \in Seq(Reads)
  BY DEF Reads, Plain, Optional
<1>2. Len(rest) = 2
  OBVIOUS
<1>3. \A i \in 1..2 : rest[i] \notin {"CountSessions", "Count", "Clamp"}
  OBVIOUS
<1>4. SummaryJSON = (SummaryReads \o rest) \o StatusReads
  BY DEF SummaryJSON
<1> HIDE DEF rest
<1>5. Names(rest) \cap {"CountSessions", "Count", "Clamp"} = {}
  BY <1>2, <1>3 DEF Names
<1>6. Free(rest)
  BY <1>1, <1>5, FreePlain
<1>7. Free(SummaryReads \o rest)
  BY <1>6, PagesFree, FreeJoin
<1>8. \A a \in Names(SummaryReads \o rest) : Barred(a) = {}
  BY <1>7 DEF Free, Barred
<1> QED BY <1>4, <1>7, <1>8, StatusSound, JoinSound DEF Free

LEMMA SystemJSONSound == Sound(SystemJSON)
<1> DEFINE a == <<"DirStats">>
           b == <<"Meta">>
<1>1. a \in Seq(Reads)
  BY DEF Reads, Plain
<1>2. b \in Seq(Reads)
  BY DEF Reads, Optional
<1>3. Len(a) = 1 /\ Len(b) = 1
  OBVIOUS
<1>4. a[1] = "DirStats" /\ b[1] = "Meta"
  OBVIOUS
<1>5. SystemJSON = (a \o StatusReads) \o b
  BY DEF SystemJSON
<1> HIDE DEF a, b
<1>6. Names(a) = {"DirStats"} /\ Names(b) = {"Meta"}
  BY <1>3, <1>4, NamesOfFew
<1>7. Free(a) /\ Free(b)
  BY <1>1, <1>2, <1>6, FreePlain
<1>8. Sound(a \o StatusReads)
  <2>1. \A r \in Names(a) : Barred(r) = {}
    BY <1>6 DEF Barred
  <2> QED BY <1>7, <2>1, StatusSound, JoinSound DEF Free
<1>9. \A r : Names(b) \cap Barred(r) = {}
  BY <1>6 DEF Barred
<1> QED BY <1>5, <1>7, <1>8, <1>9, JoinSound DEF Free

\* What is known of the reads of a handler when the request comes.
Starts(h, s) ==
    /\ Sound(s)
    /\ h \in OfOneSession => "GetProject" \notin Names(s)
    /\ h \in Paged => {"Count", "Clamp"} \subseteq Names(s)

LEMMA HTMLStarts == ASSUME NEW h \in HTML PROVE Starts(h, ReadsOf(h))
<1>1. h \in {"dashboard", "projects", "project", "sessions", "session", "settings",
             "skills", "plans", "system"}
  BY DEF HTML, PageReads
<1>2. Sound(PageReads[h]) /\ "CountSessions" \notin Names(PageReads[h])
  <2>1. CASE h = "dashboard" BY <2>1, DashboardFree DEF PageReads, Free
  <2>2. CASE h = "projects" BY <2>2, PagesFree DEF PageReads, Free
  <2>3. CASE h = "project" BY <2>3, PagesFree DEF PageReads, Free
  <2>4. CASE h = "sessions" BY <2>4, ListsSound DEF PageReads
  <2>5. CASE h = "session" BY <2>5, PagesFree DEF PageReads, Free
  <2>6. CASE h = "settings" BY <2>6, PagesFree DEF PageReads, Free
  <2>7. CASE h = "skills" BY <2>7, PagesFree DEF PageReads, Free
  <2>8. CASE h = "plans" BY <2>8, ListsSound DEF PageReads
  <2>9. CASE h = "system" BY <2>9, PagesFree DEF PageReads, Free
  <2> QED BY <1>1, <2>1, <2>2, <2>3, <2>4, <2>5, <2>6, <2>7, <2>8, <2>9
<1>3. /\ ReadsOf(h) = PageReads[h] \o Layout
      /\ Sound(ReadsOf(h))
      /\ Names(ReadsOf(h)) = Names(PageReads[h]) \cup Names(Layout)
  <2>1. \A a \in Names(PageReads[h]) : Names(Layout) \cap Barred(a) = {}
    BY <1>2, StatusSound DEF Barred
  <2>2. PageReads[h] \in Seq(Reads) /\ Layout \in Seq(Reads)
    BY <1>2, StatusSound DEF Sound
  <2>3. ReadsOf(h) = PageReads[h] \o Layout
    BY DEF ReadsOf
  <2> QED BY <1>2, <2>1, <2>2, <2>3, StatusSound, JoinSound, JoinNames
<1>4. ASSUME h \in OfOneSession PROVE "GetProject" \notin Names(ReadsOf(h))
  <2>1. h = "session" BY <1>1, <1>4 DEF OfOneSession
  <2>2. PageReads[h] = SessionPage BY <2>1 DEF PageReads
  <2> QED BY <1>3, <2>2, StatusSound, SessionSound DEF SessionParts
<1>5. ASSUME h \in Paged PROVE {"Count", "Clamp"} \subseteq Names(ReadsOf(h))
  <2>1. h = "sessions" \/ h = "plans" BY <1>5 DEF Paged
  <2>2. PageReads[h] \in {SessionsPage, PlansPage} BY <2>1 DEF PageReads
  <2> QED BY <1>3, <2>2, ListsSound
<1> QED BY <1>3, <1>4, <1>5 DEF Starts

LEMMA OtherStarts == ASSUME NEW h \in DOMAIN OtherReads PROVE Starts(h, OtherReads[h])
<1>1. h \in {"healthz", "summaryJSON", "dailyJSON", "liveJSON", "systemJSON", "sessionsJSON",
             "sessionJSON", "usageJSON", "livePartial", "indexPartial", "usagePartial"}
  BY DEF OtherReads
<1>2. Sound(OtherReads[h])
  <2>1. CASE h \in {"healthz", "indexPartial"} BY <2>1, StatusSound DEF OtherReads
  <2>2. CASE h = "summaryJSON" BY <2>2, SummaryJSONSound DEF OtherReads
  <2>3. CASE h = "dailyJSON" BY <2>3, PagesFree DEF OtherReads, Free
  <2>4. CASE h \in {"liveJSON", "livePartial"} BY <2>4, PagesFree DEF OtherReads, Free
  <2>5. CASE h = "systemJSON" BY <2>5, SystemJSONSound DEF OtherReads
  <2>6. CASE h = "sessionsJSON" BY <2>6, ListsSound DEF OtherReads, Free
  <2>7. CASE h = "sessionJSON" BY <2>7, PagesFree DEF OtherReads, Free, SessionJSON
  <2>8. CASE h \in {"usageJSON", "usagePartial"} BY <2>8, PagesFree DEF OtherReads, Free
  <2> QED BY <1>1, <2>1, <2>2, <2>3, <2>4, <2>5, <2>6, <2>7, <2>8
<1>3. h \notin Paged
  BY <1>1 DEF Paged
<1>4. ASSUME h \in OfOneSession PROVE "GetProject" \notin Names(OtherReads[h])
  <2>1. h = "sessionJSON" BY <1>1, <1>4 DEF OfOneSession
  <2>2. OtherReads[h] = SessionPage BY <2>1 DEF OtherReads, SessionJSON
  <2> QED BY <2>2, SessionSound DEF SessionParts
<1> QED BY <1>2, <1>3, <1>4 DEF Starts

LEMMA ReadsStart == ASSUME NEW h \in Handlers PROVE Starts(h, ReadsOf(h))
BY HTMLStarts, OtherStarts DEF Handlers, ReadsOf

\* Without a row, a page goes on with the layout and anything else ends.
LEMMA NotFoundStarts ==
    ASSUME NEW h
    PROVE  /\ Sound(NotFoundReads(h))
           /\ Names(NotFoundReads(h)) \subseteq {"Meta", "Stats", "Scanning", "CountSessions", "Account"}
<1>1. << >> \in Seq(Reads)
  OBVIOUS
<1>2. Names(<< >>) = {}
  BY DEF Names
<1>3. Sound(<< >>)
  BY <1>1, <1>2, PlainSound
<1> QED BY <1>2, <1>3, StatusSound DEF NotFoundReads

-----------------------------------------------------------------------------
\* Pages of a list.

\* How many of S come before x on the pages.
Newer(S, x) == Cardinality({y \in S : y > x})

LEMMA NewerIsRank ==
    ASSUME NEW S \in SUBSET Nat, IsFiniteSet(S)
    PROVE  /\ \A x \in S : Newer(S, x) \in 0..Cardinality(S) - 1
           /\ \A x, y \in S : x < y => Newer(S, y) < Newer(S, x)
<1> DEFINE above(x) == {y \in S : y > x}
<1>1. Cardinality(S) \in Nat
  BY FS_CardinalityType
<1>2. ASSUME NEW x \in S
      PROVE  /\ IsFiniteSet(above(x)) /\ Cardinality(above(x)) \in Nat
             /\ Cardinality(above(x)) < Cardinality(S)
  <2>1. above(x) \in SUBSET S /\ above(x) # S
    <3>1. x \notin above(x) OBVIOUS
    <3> QED BY <3>1
  <2> HIDE DEF above
  <2>2. /\ IsFiniteSet(above(x)) /\ Cardinality(above(x)) <= Cardinality(S)
        /\ Cardinality(S) # Cardinality(above(x))
    BY <2>1, FS_Subset
  <2>3. Cardinality(above(x)) \in Nat
    BY <2>2, FS_CardinalityType
  <2> QED BY <1>1, <2>2, <2>3
<1>3. ASSUME NEW x \in S, NEW y \in S, x < y
      PROVE  Cardinality(above(y)) < Cardinality(above(x))
  <2>1. above(y) \in SUBSET above(x)
    <3>1. \A z \in S : z \in Nat /\ x \in Nat /\ y \in Nat
      OBVIOUS
    <3>2. \A z \in S : z > y => z > x
      BY <1>3, <3>1
    <3> QED BY <3>2
  <2>2. above(y) # above(x)
    <3>1. y \in above(x) /\ y \notin above(y) BY <1>3
    <3> QED BY <3>1
  <2>3. IsFiniteSet(above(x)) /\ Cardinality(above(x)) \in Nat /\ Cardinality(above(y)) \in Nat
    BY <1>2
  <2> HIDE DEF above
  <2>4. Cardinality(above(y)) <= Cardinality(above(x)) /\ Cardinality(above(x)) # Cardinality(above(y))
    BY <2>1, <2>2, <2>3, FS_Subset
  <2> QED BY <2>3, <2>4
<1> QED BY <1>1, <1>2, <1>3 DEF Newer

LEMMA SliceIsPart ==
    ASSUME NEW S, NEW lim, NEW off
    PROVE  Slice(S, lim, off) = {x \in S : off <= Newer(S, x) /\ (lim = 0 \/ Newer(S, x) < off + lim)}
BY DEF Slice, Newer

\* A limit bounds what is shown.
LEMMA SliceBounded ==
    ASSUME NEW S \in SUBSET Nat, IsFiniteSet(S), NEW lim \in Nat \ {0}, NEW off \in Nat
    PROVE  Cardinality(Slice(S, lim, off)) <= lim
<1> DEFINE T == Slice(S, lim, off)
           f == [x \in T |-> Newer(S, x)]
<1>1. \A x \in T : x \in S /\ Newer(S, x) \in off..off + lim - 1
  BY SliceIsPart, NewerIsRank
<1>2. \A x, y \in T : Newer(S, x) = Newer(S, y) => x = y
  <2> SUFFICES ASSUME NEW x \in T, NEW y \in T, x # y PROVE Newer(S, x) # Newer(S, y)
    OBVIOUS
  <2>1. x \in S /\ y \in S
    BY <1>1
  <2>2. Newer(S, x) \in Nat /\ Newer(S, y) \in Nat
    BY <2>1, NewerIsRank
  <2>3. x \in Nat /\ y \in Nat
    BY <2>1
  <2>4. x < y \/ y < x
    BY <2>3
  <2> QED BY <2>1, <2>2, <2>4, NewerIsRank
<1> HIDE DEF T
<1>3. f \in Injection(T, off..off + lim - 1)
  BY <1>1, <1>2 DEF Injection, IsInjective
<1>4. IsFiniteSet(off..off + lim - 1) /\ Cardinality(off..off + lim - 1) = lim
  <2>1. off + lim - 1 \in Int /\ ~(off > off + lim - 1) /\ off + lim - 1 - off + 1 = lim
    OBVIOUS
  <2> QED BY <2>1, FS_Interval
<1> HIDE DEF f
<1>5. Cardinality(T) <= Cardinality(off..off + lim - 1)
  BY <1>3, <1>4, FS_Injection
<1> QED BY <1>4, <1>5 DEF T

\* An offset within the list shows something.
LEMMA SliceShows ==
    ASSUME NEW S \in SUBSET Nat, IsFiniteSet(S), NEW lim \in Nat \ {0},
           NEW off \in Nat, off < Cardinality(S)
    PROVE  Slice(S, lim, off) # {}
<1> DEFINE n == Cardinality(S)
           f == [x \in S |-> Newer(S, x)]
<1>1. n \in Nat
  BY FS_CardinalityType
<1>2. \A x, y \in S : Newer(S, x) = Newer(S, y) => x = y
  <2> SUFFICES ASSUME NEW x \in S, NEW y \in S, x # y PROVE Newer(S, x) # Newer(S, y)
    OBVIOUS
  <2>1. x < y \/ y < x
    OBVIOUS
  <2>2. Newer(S, x) \in Nat /\ Newer(S, y) \in Nat
    BY NewerIsRank
  <2> QED BY <2>1, <2>2, NewerIsRank
<1>3. f \in Injection(S, 0..n - 1)
  BY <1>2, NewerIsRank DEF Injection, IsInjective
<1>4. IsFiniteSet(0..n - 1) /\ Cardinality(0..n - 1) = n
  <2>1. n - 1 \in Int /\ 0 \in Int /\ (IF 0 > n - 1 THEN 0 ELSE n - 1 - 0 + 1) = n
    BY <1>1
  <2> HIDE DEF n
  <2> QED BY <2>1, FS_Interval
<1>5. f \in Surjection(S, 0..n - 1)
  <2> HIDE DEF f
  <2> QED BY <1>3, <1>4, FS_Injection
<1>6. PICK x \in S : Newer(S, x) = off
  <2>1. off \in 0..n - 1 BY <1>1
  <2> QED BY <1>5, <2>1 DEF Surjection
<1>7. off <= Newer(S, x) /\ Newer(S, x) < off + lim
  BY <1>6
<1> QED BY <1>7, SliceIsPart

LEMMA DivBounds ==
    ASSUME NEW a \in Nat, NEW P \in Nat \ {0}
    PROVE  a \div P \in Nat /\ P * (a \div P) <= a /\ a < P * (a \div P) + P
OBVIOUS

LEMMA TimesMonotone ==
    ASSUME NEW k \in Nat, NEW q \in Nat, NEW P \in Nat \ {0}
    PROVE  /\ k <= q => P * k <= P * q
           /\ k >= q + 1 => P * k >= P * q + P
OBVIOUS

\* A page is one of those of n rows when it is the first or n rows reach it.
LEMMA PageOfRows ==
    ASSUME NEW n \in Nat, NEW k \in Nat \ {0}
    PROVE  /\ LastPage(n) \in Nat \ {0}
           /\ k <= LastPage(n) <=> k = 1 \/ (k - 1) * PerPage < n
<1> DEFINE a == n + PerPage - 1
           q == a \div PerPage
<1>1. PerPage \in Nat \ {0} /\ a \in Nat
  BY ConstantsOk
<1>2. q \in Nat /\ PerPage * q <= a /\ a < PerPage * q + PerPage
  BY <1>1, DivBounds
<1>3. LastPage(n) = IF q < 1 THEN 1 ELSE q
  BY DEF LastPage
<1>4. (k - 1) * PerPage = PerPage * k - PerPage /\ PerPage * k \in Nat /\ PerPage * q \in Nat
  BY <1>1, <1>2
<1>5. /\ k <= q => PerPage * k <= PerPage * q
      /\ k >= q + 1 => PerPage * k >= PerPage * q + PerPage
  BY <1>1, <1>2, TimesMonotone
<1> HIDE DEF q
<1>6. k <= q <=> (k - 1) * PerPage < n
  <2>1. k <= q => PerPage * k <= a
    BY <1>1, <1>2, <1>4, <1>5
  <2>2. ~(k <= q) => PerPage * k > a
    BY <1>1, <1>2, <1>4, <1>5
  <2>3. PerPage * k <= a <=> PerPage * k - PerPage < n
    BY <1>1, <1>4
  <2> QED BY <1>1, <1>2, <1>4, <2>1, <2>2, <2>3
<1>7. k = 1 => (k - 1) * PerPage = 0
  BY <1>1
<1> QED BY <1>2, <1>3, <1>6, <1>7

LEMMA AskedPageType ==
    ASSUME NEW n \in Int
    PROVE  AskedPage(n) \in Nat \ {0}
BY ConstantsOk DEF AskedPage, QueryInt

LEMMA LimitType ==
    ASSUME NEW n \in Int
    PROVE  /\ Limit(n) \in Nat \ {0} /\ Limit(n) <= MaxLimit
           /\ QueryInt(n, 0) \in Nat
BY ConstantsOk DEF Limit, QueryInt

LEMMA MatchingType ==
    ASSUME TypeOK
    PROVE  /\ Matching \in SUBSET Nat /\ IsFiniteSet(Matching)
           /\ Cardinality(Matching) \in Nat
<1>1. Matching \subseteq Ids
  BY DEF TypeOK, Matching, Query
<1>2. IsFiniteSet(Matching)
  BY <1>1, ConstantsOk, FS_Subset
<1>3. Matching \in SUBSET Nat
  BY <1>1, ConstantsOk
<1> QED BY <1>2, <1>3, FS_CardinalityType

LEMMA CountType ==
    ASSUME TypeOK
    PROVE  Cardinality(sessions) \in Nat
<1>1. IsFiniteSet(sessions)
  <2>1. sessions \subseteq Ids
    BY DEF TypeOK
  <2>2. IsFiniteSet(Ids)
    BY ConstantsOk
  <2> QED BY <2>1, <2>2, FS_Subset
<1> QED BY <1>1, FS_CardinalityType

-----------------------------------------------------------------------------
\* Type correctness.

LEMMA InitType == Init => TypeOK
<1> SUFFICES ASSUME Init PROVE TypeOK
  OBVIOUS
<1>1. sessions \subseteq Ids /\ history \subseteq Ids /\ label \in [Ids -> Labels]
  BY ConstantsOk DEF Init
<1>6. rows \subseteq Looked \X SessionParts
  BY DEF Init
<1>2. reads \in Seq(Reads)
  BY DEF Init
<1>3. query \in Query
  BY DEF Init, Query
<1>4. status \in [pass : Nat, upTo : Nat, scanning : BOOLEAN, at : Nat, sessions : Nat]
  BY DEF Init, NoStatus
<1>5. stats \in [pass : Nat, upTo : Nat]
  BY DEF Init
<1> QED BY <1>1, <1>2, <1>3, <1>4, <1>5, <1>6 DEF Init, TypeOK

\* What a request may ask.
LEMMA QueriesType ==
    ASSUME NEW h, NEW q \in Queries(h)
    PROVE  q \in Query
BY ConstantsOk DEF Queries, Query

LEMMA TailReads ==
    ASSUME reads \in Seq(Reads), reads # << >>
    PROVE  Tail(reads) \in Seq(Reads) /\ Head(reads) \in Reads
OBVIOUS

LEMMA LacksType ==
    ASSUME NEW id, NEW ss, NEW rs
    PROVE  Lacks(id, ss, rs) \subseteq {"gone"} \cup SessionParts
BY DEF Lacks

\* What a commit leaves alone, and what it notes.
LEMMA CommitType ==
    ASSUME TypeOK, Commit, Noted,
           sessions' \subseteq Ids, history' \subseteq Ids,
           rows' \subseteq Looked \X SessionParts, label' \in [Ids -> Labels]
    PROVE  TypeOK'
<1> DEFINE found == Lacks(query.id, sessions', rows')
           lost  == IF Matching \subseteq Matching' THEN {} ELSE {"loss"}
<1>1. happened' = happened \cup {"commit"} \cup lost \cup found
  BY DEF Noted
<1>2. lost \subseteq {"loss"} /\ found \subseteq {"gone"} \cup SessionParts
  BY LacksType
<1> HIDE DEF found, lost
<1>3. happened' \subseteq {"commit", "loss", "failure", "gone"} \cup SessionParts
  BY <1>1, <1>2 DEF TypeOK
<1> QED BY <1>3 DEF TypeOK, Commit, answerVars, listVars

LEMMA PassType == ASSUME TypeOK, Pass PROVE TypeOK'
<1>1. CASE BeginPass
  BY <1>1 DEF TypeOK, BeginPass, dbVars, answerVars, listVars
<1>2. CASE StoreStats
  <2>1. stats' \in [pass : Nat, upTo : Nat]
    BY <1>2 DEF StoreStats, TypeOK
  <2> QED BY <1>2, <2>1 DEF TypeOK, StoreStats, dbVars, answerVars, listVars
<1>3. CASE EndPass
  BY <1>3 DEF TypeOK, EndPass, dbVars, answerVars, listVars
<1>4. ASSUME NEW s \in Ids, NEW l \in Labels, NEW T \in Brings, IndexTranscript(s, l, T)
      PROVE  TypeOK'
  <2>1. T \subseteq SessionParts
    BY BringsOk
  <2>2. /\ sessions' = sessions \cup {s} /\ history' = history
        /\ rows' = rows \cup (({s} \cap Looked) \X T) /\ label' = [label EXCEPT ![s] = l]
    BY <1>4 DEF IndexTranscript
  <2>3. rows' \subseteq Looked \X SessionParts
    BY <2>1, <2>2 DEF TypeOK
  <2>4. sessions' \subseteq Ids /\ history' \subseteq Ids /\ label' \in [Ids -> Labels]
    BY <2>2 DEF TypeOK
  <2> QED BY <1>4, <2>3, <2>4, CommitType DEF IndexTranscript
<1>5. ASSUME NEW s \in sessions, RecordSubagent(s) PROVE TypeOK'
  <2>1. rows' = rows \cup (({s} \cap Looked) \X {"SessionSubagents"})
    BY <1>5 DEF RecordSubagent
  <2>2. rows' \subseteq Looked \X SessionParts
    BY <2>1 DEF TypeOK, SessionParts
  <2>3. sessions' \subseteq Ids /\ history' \subseteq Ids /\ label' \in [Ids -> Labels]
    BY <1>5 DEF TypeOK, RecordSubagent
  <2> QED BY <1>5, <2>2, <2>3, CommitType DEF RecordSubagent
<1>6. ASSUME NEW L, WipeTranscript(L) PROVE TypeOK'
  <2>1. rows' \subseteq Looked \X SessionParts
    BY <1>6 DEF TypeOK, WipeTranscript
  <2>2. sessions' \subseteq Ids /\ history' \subseteq Ids /\ label' \in [Ids -> Labels]
    BY <1>6 DEF TypeOK, WipeTranscript
  <2> QED BY <1>6, <2>1, <2>2, CommitType DEF WipeTranscript
<1>7. ASSUME NEW S, NEW L, PruneMissing(S, L) PROVE TypeOK'
  <2>1. rows' \subseteq Looked \X SessionParts
    BY <1>7 DEF TypeOK, PruneMissing
  <2>2. label' \in [Ids -> Labels]
    BY <1>7, ConstantsOk DEF TypeOK, PruneMissing
  <2>3. sessions' \subseteq Ids /\ history' \subseteq Ids
    BY <1>7 DEF TypeOK, PruneMissing
  <2> QED BY <1>7, <2>1, <2>2, <2>3, CommitType DEF PruneMissing
<1>8. ASSUME NEW f \in [Ids -> Labels], RebuildRollups(f) PROVE TypeOK'
  <2>1. label' \in [Ids -> Labels]
    BY <1>8 DEF TypeOK, RebuildRollups
  <2>2. sessions' \subseteq Ids /\ history' \subseteq Ids /\ rows' \subseteq Looked \X SessionParts
    BY <1>8 DEF TypeOK, RebuildRollups
  <2> QED BY <1>8, <2>1, <2>2, CommitType DEF RebuildRollups
<1>9. ASSUME NEW H \in Histories, ReplaceHistory(H) PROVE TypeOK'
  <2>1. H \subseteq Ids
    BY ConstantsOk
  <2>2. /\ sessions' \subseteq Ids /\ history' \subseteq Ids /\ label' \in [Ids -> Labels]
        /\ rows' \subseteq Looked \X SessionParts
    BY <1>9, <2>1 DEF TypeOK, ReplaceHistory
  <2> QED BY <1>9, <2>2, CommitType DEF ReplaceHistory
<1> QED BY <1>1, <1>2, <1>3, <1>4, <1>5, <1>6, <1>7, <1>8, <1>9 DEF Pass

LEMMA RequestType ==
    ASSUME TypeOK, NEW h \in Handlers, NEW q \in Queries(h), Request(h, q)
    PROVE  TypeOK'
<1>1. q \in Query /\ q.n \in Int
  BY QueriesType DEF Query
<1>2. reads' \in Seq(Reads) /\ code' \in {0, 200, 404, 500}
  <2>1. ReadsOf(h) \in Seq(Reads) /\ NotFoundReads(h) \in Seq(Reads)
    BY ReadsStart, NotFoundStarts DEF Starts, Sound
  <2> QED BY <2>1 DEF Request
<1>3. page' \in Nat \ {0}
  BY <1>1, AskedPageType DEF Request
<1>4. status' \in [pass : Nat, upTo : Nat, scanning : BOOLEAN, at : Nat, sessions : Nat]
  BY DEF Request, NoStatus
<1>5. happened' \subseteq {"commit", "loss", "failure", "gone"} \cup SessionParts
  <2>1. happened' = Lacks(q.id, sessions, rows)
    BY DEF Request
  <2> QED BY <2>1, LacksType
<1> QED BY <1>1, <1>2, <1>3, <1>4, <1>5 DEF TypeOK, Request, passVars, dbVars

LEMMA AnswerType == ASSUME TypeOK, Answer PROVE TypeOK'
<1> USE DEF passVars, dbVars, answerVars, listVars
<1>1. CASE ReadFails
  <2>1. << >> \in Seq(Reads) OBVIOUS
  <2> QED BY <1>1, <2>1 DEF TypeOK, ReadFails
<1>2. CASE ReadOptional
  BY <1>2, TailReads DEF TypeOK, ReadOptional
<1>3. CASE ReadPlain
  BY <1>3, TailReads DEF TypeOK, ReadPlain
<1>4. CASE ReadNoProject
  <2>1. NotFoundReads(handler) \in Seq(Reads) BY NotFoundStarts DEF Sound
  <2>2. reads' \in Seq(Reads) /\ (code' = 404 \/ code' = code)
    <3>1. CASE reads' = NotFoundReads(handler) /\ code' = 404
      BY <2>1, <3>1
    <3>2. CASE reads # << >> /\ reads' = Tail(reads) /\ code' = code
      BY <3>2, TailReads DEF TypeOK
    <3> QED BY <1>4, <3>1, <3>2 DEF ReadNoProject, Asks
  <2> QED BY <1>4, <2>2 DEF TypeOK, ReadNoProject
<1>5. CASE ReadSession
  <2>1. NotFoundReads(handler) \in Seq(Reads) BY NotFoundStarts DEF Sound
  <2>2. reads' \in Seq(Reads) /\ (code' = 404 \/ code' = code)
    <3>1. CASE reads' = NotFoundReads(handler) /\ code' = 404
      BY <2>1, <3>1
    <3>2. CASE reads # << >> /\ reads' = Tail(reads) /\ code' = code
      BY <3>2, TailReads DEF TypeOK
    <3> QED BY <1>5, <3>1, <3>2 DEF ReadSession, Asks
  <2> QED BY <1>5, <2>2 DEF TypeOK, ReadSession
<1>6. CASE ReadSessionPart
  BY <1>6, TailReads DEF TypeOK, ReadSessionPart
<1>7. CASE ReadCount
  BY <1>7, TailReads, MatchingType DEF TypeOK, ReadCount, Asks
<1>8. CASE ReadRows
  <2>1. list' \subseteq Ids
    BY <1>8 DEF TypeOK, ReadRows, Slice, Matching
  <2> QED BY <1>8, <2>1, TailReads DEF TypeOK, ReadRows, Asks
<1>9. CASE Clamp
  <2>1. LastPage(total) \in Nat \ {0}
    BY PageOfRows DEF TypeOK
  <2>2. Tail(reads) \in Seq(Reads)
    BY <1>9, TailReads DEF TypeOK, Clamp, Asks
  <2>3. <<"Count", "Rows">> \o Tail(reads) \in Seq(Reads)
    <3>1. SessionsJSON \in Seq(Reads) BY ListsSound DEF Sound
    <3> QED BY <2>2, <3>1 DEF SessionsJSON
  <2>4. page' \in Nat \ {0} /\ last' \in Nat \ {0} /\ reads' \in Seq(Reads)
    <3>1. last' \in Nat \ {0} BY <1>9, <2>1 DEF Clamp
    <3>2. CASE page > last'
      <4>1. page' = last' /\ reads' = <<"Count", "Rows">> \o Tail(reads)
        BY <1>9, <3>2 DEF Clamp
      <4> QED BY <2>3, <3>1, <4>1
    <3>3. CASE ~(page > last')
      <4>1. page' = page /\ reads' = Tail(reads)
        BY <1>9, <3>3 DEF Clamp
      <4> QED BY <2>2, <3>1, <4>1 DEF TypeOK
    <3> QED BY <3>1, <3>2, <3>3
  <2> QED BY SMTT(30), <1>9, <2>4 DEF TypeOK, Clamp
<1>10. CASE ReadStats
  <2>1. status' \in [pass : Nat, upTo : Nat, scanning : BOOLEAN, at : Nat, sessions : Nat]
    BY <1>10 DEF TypeOK, ReadStats
  <2> QED BY SMTT(30), <1>10, <2>1, TailReads DEF TypeOK, ReadStats, Asks
<1>11. CASE ReadScanning
  <2>1. status' \in [pass : Nat, upTo : Nat, scanning : BOOLEAN, at : Nat, sessions : Nat]
    <3>1. status \in [pass : Nat, upTo : Nat, scanning : BOOLEAN, at : Nat, sessions : Nat]
      BY DEF TypeOK
    <3>2. \E b \in BOOLEAN : status' = [status EXCEPT !.scanning = b]
      BY <1>11 DEF ReadScanning
    <3> QED BY <3>1, <3>2
  <2> QED BY SMTT(30), <1>11, <2>1, TailReads DEF TypeOK, ReadScanning, Asks
<1>12. CASE ReadCountSessions
  <2>1. status' \in [pass : Nat, upTo : Nat, scanning : BOOLEAN, at : Nat, sessions : Nat]
    BY <1>12, CountType DEF TypeOK, ReadCountSessions
  <2> QED BY <1>12, <2>1, TailReads DEF TypeOK, ReadCountSessions, Asks
<1>13. CASE Finish
  <2>1. query' \in Query
    BY <1>13 DEF Finish, Query
  <2>2. status' \in [pass : Nat, upTo : Nat, scanning : BOOLEAN, at : Nat, sessions : Nat]
    BY <1>13 DEF Finish, NoStatus
  <2> QED BY <1>13, <2>1, <2>2 DEF TypeOK, Finish
<1> QED BY <1>1, <1>2, <1>3, <1>4, <1>5, <1>6, <1>7, <1>8, <1>9, <1>10, <1>11, <1>12, <1>13
        DEF Answer

LEMMA NextType == TypeOK /\ [Next]_vars => TypeOK'
<1> SUFFICES ASSUME TypeOK, [Next]_vars PROVE TypeOK'
  OBVIOUS
<1>1. CASE Cancel \/ CloseStore
  <2>1. phase' \in {"serving", "stopping", "closed", "exited"}
    BY <1>1 DEF Cancel, CloseStore
  <2>2. UNCHANGED <<passVars, handler, query, reads, answerVars, happened>>
    BY <1>1 DEF Cancel, CloseStore
  <2> QED BY <2>1, <2>2 DEF TypeOK, passVars, dbVars, answerVars, listVars
<1>2. CASE Exit
  <2>1. << >> \in Seq(Reads) OBVIOUS
  <2> QED BY <1>2, <2>1 DEF TypeOK, Exit, passVars, dbVars, listVars
<1>3. CASE UNCHANGED vars
  BY <1>3 DEF TypeOK, vars, passVars, dbVars, answerVars, listVars
<1> QED BY <1>1, <1>2, <1>3, PassType, RequestType, AnswerType DEF Next, Requests

\* Every variable has its type: what is still to be read is a sequence of reads, and the
\* page, the number of pages and the limit stay numbers a list can be cut by.
THEOREM TypeCorrect == Spec => []TypeOK
<1> QED BY InitType, NextType, PTL DEF Spec

-----------------------------------------------------------------------------
\* The inductive invariant, by what it is for.  What the handler will still read ...
ReadsInv ==
    /\ handler = None => reads = << >>
    /\ Sound(reads)
    /\ handler \in OfOneSession => "GetProject" \notin Names(reads)

\* ... what its status tells ...
HonestInv ==
    /\ code = 500 <=> "failure" \in happened
    /\ code = 500 => reads = << >>
    /\ handler # None => Lacks(query.id, sessions, rows) \subseteq happened
    /\ code = 404 /\ handler \in OfOneSession => "gone" \in happened
    /\ blank \subseteq happened

\* ... what Status has copied ...
StatusInv ==
    /\ stats.upTo <= commits
    /\ status.upTo <= stats.upTo
    /\ status.at > 0 => /\ status.upTo <= status.at
                        /\ Names(reads) \cap Barred("CountSessions") = {}

\* ... how long a list is ...
ListInv ==
    /\ handler \in Paged => Cardinality(list) <= PerPage
    /\ handler = "sessionsJSON" => Cardinality(list) <= MaxLimit
    /\ handler \in Paged /\ code = 200 /\ "Clamp" \notin Names(reads) => page <= last

\* ... that matches only came, so that a page that has been counted has some ...
ShownInv ==
    handler \in Paged /\ "loss" \notin happened =>
        /\ total <= Cardinality(Matching)
        /\ code = 200 /\ "Clamp" \notin Names(reads) => page = 1 \/ Offset < total
        /\ code = 200 /\ "Rows" \notin Names(reads) /\ Offset < total => list # {}

\* ... and that they stood still.
ExactInv ==
    handler \in Paged /\ "commit" \notin happened /\ code = 200 =>
        /\ "Count" \notin Names(reads) => total = Cardinality(Matching)
        /\ "Rows" \notin Names(reads) => list = Slice(Matching, PerPage, Offset)
        /\ "Clamp" \in Names(reads) => page = AskedPage(query.n)
        /\ "Clamp" \notin Names(reads) =>
              /\ last = LastPage(Cardinality(Matching))
              /\ page = IF AskedPage(query.n) <= last THEN AskedPage(query.n) ELSE last

-----------------------------------------------------------------------------
\* The shapes of steps.

\* The request stands still.
Around == UNCHANGED <<handler, query, reads, code, page, last, total, list, blank, status>>

\* A pass goes on without a commit, or commits.
Rests ==
    /\ UNCHANGED <<sessions, rows, label, history, commits, happened>>
    /\ stats' = stats \/ stats'.upTo = commits

Commits ==
    /\ commits' = commits + 1 /\ stats' = stats
    /\ happened \cup {"commit"} \cup Lacks(query.id, sessions', rows') \subseteq happened'
    /\ "failure" \in happened' => "failure" \in happened
    /\ "loss" \notin happened' => Matching \subseteq Matching'

\* A read shows nothing that is modelled.
Skips ==
    /\ reads # << >> /\ reads' = Tail(reads)
    /\ Head(reads) \notin {"Count", "Rows", "Clamp", "CountSessions"}
    /\ UNCHANGED <<handler, query, code, page, last, total, list, blank, status, happened>>
    /\ UNCHANGED <<sessions, rows, label, history, commits, stats>>

\* There is no row.
Misses ==
    /\ reads # << >> /\ Head(reads) \in {"GetProject", "Summary", "Detail"}
    /\ Head(reads) # "GetProject" => query.id \notin sessions
    /\ code' = 404 /\ reads' = NotFoundReads(handler)
    /\ UNCHANGED <<handler, query, page, last, total, list, blank, status, happened>>
    /\ UNCHANGED <<sessions, rows, label, history, commits, stats>>

LEMMA CommitShape ==
    ASSUME Commit, Noted
    PROVE  Around /\ Commits
<1> DEFINE found == Lacks(query.id, sessions', rows')
           lost  == IF Matching \subseteq Matching' THEN {} ELSE {"loss"}
<1>1. found \subseteq {"gone"} \cup SessionParts
  BY LacksType
<1>2. happened' = happened \cup {"commit"} \cup lost \cup found
  BY DEF Noted
<1>3. Around /\ commits' = commits + 1 /\ stats' = stats
  BY DEF Commit, Around, answerVars, listVars
<1>4. lost \subseteq {"loss"} /\ ("loss" \notin lost => Matching \subseteq Matching')
  OBVIOUS
<1> HIDE DEF found, lost
<1>5. "failure" \in happened' => "failure" \in happened
  BY <1>1, <1>2, <1>4 DEF SessionParts
<1>6. "loss" \notin happened' => Matching \subseteq Matching'
  BY <1>2, <1>4
<1>7. happened \cup {"commit"} \cup found \subseteq happened'
  BY <1>2
<1> QED BY <1>3, <1>5, <1>6, <1>7 DEF Commits, found

LEMMA PassSteps ==
    ASSUME Pass
    PROVE  Around /\ (Rests \/ Commits)
<1>1. CASE BeginPass \/ EndPass
  BY <1>1 DEF BeginPass, EndPass, Around, Rests, dbVars, answerVars, listVars
<1>2. CASE StoreStats
  BY <1>2 DEF StoreStats, Around, Rests, dbVars, answerVars, listVars
<1>3. ASSUME \/ \E s, l, T : IndexTranscript(s, l, T)
             \/ \E s : RecordSubagent(s)
             \/ \E L : WipeTranscript(L)
             \/ \E S, L : PruneMissing(S, L)
             \/ \E f : RebuildRollups(f)
             \/ \E H : ReplaceHistory(H)
      PROVE  Around /\ Commits
  <2>1. Commit /\ Noted
    BY <1>3 DEF IndexTranscript, RecordSubagent, WipeTranscript, PruneMissing,
                RebuildRollups, ReplaceHistory
  <2> QED BY <2>1, CommitShape
<1> QED BY <1>1, <1>2, <1>3 DEF Pass

LEMMA AnswerSteps ==
    ASSUME Answer
    PROVE  \/ Skips \/ Misses \/ ReadFails \/ ReadSessionPart
           \/ ReadCount \/ ReadRows \/ Clamp
           \/ ReadStats \/ ReadScanning \/ ReadCountSessions \/ Finish
<1> USE DEF passVars, dbVars, answerVars, listVars
<1>1. CASE ReadOptional
  BY <1>1 DEF ReadOptional, Skips, Optional
<1>2. CASE ReadPlain
  BY <1>2 DEF ReadPlain, Skips, Plain
<1>3. CASE ReadNoProject
  <2>1. CASE Asks("GetProject") /\ reads' = NotFoundReads(handler) /\ code' = 404
    BY <1>3, <2>1 DEF ReadNoProject, Misses, Asks
  <2>2. CASE Asks("ProjectSettings") /\ reads' = Tail(reads) /\ UNCHANGED code
    BY <1>3, <2>2 DEF ReadNoProject, Skips, Asks
  <2> QED BY <1>3, <2>1, <2>2 DEF ReadNoProject
<1>4. CASE ReadSession
  <2>1. reads # << >> /\ Head(reads) \in {"Summary", "Detail"}
    BY <1>4 DEF ReadSession, Asks
  <2>2. CASE query.id \in sessions
    BY <1>4, <2>1, <2>2 DEF ReadSession, Skips
  <2>3. CASE query.id \notin sessions
    BY <1>4, <2>1, <2>3 DEF ReadSession, Misses
  <2> QED BY <2>2, <2>3
<1> QED BY <1>1, <1>2, <1>3, <1>4 DEF Answer

LEMMA Steps ==
    ASSUME [Next]_vars
    PROVE  \/ Around /\ (Rests \/ Commits)
           \/ Exit
           \/ \E h \in Handlers : \E q \in Queries(h) : Request(h, q)
           \/ Skips \/ Misses \/ ReadFails \/ ReadSessionPart
           \/ ReadCount \/ ReadRows \/ Clamp
           \/ ReadStats \/ ReadScanning \/ ReadCountSessions \/ Finish
<1>1. CASE Cancel \/ CloseStore
  <2>1. UNCHANGED <<passVars, handler, query, reads, answerVars, happened>>
    BY <1>1 DEF Cancel, CloseStore
  <2> QED BY <2>1 DEF Around, Rests, passVars, dbVars, answerVars, listVars
<1>2. CASE UNCHANGED vars
  BY <1>2 DEF vars, Around, Rests, passVars, dbVars, answerVars, listVars
<1> QED BY <1>1, <1>2, PassSteps, AnswerSteps DEF Next, Requests

\* The reads that go on to the next, and what they leave alone.
LEMMA Onward ==
    ASSUME \/ Skips \/ ReadSessionPart \/ ReadCount \/ ReadRows
           \/ ReadStats \/ ReadScanning \/ ReadCountSessions
    PROVE  /\ reads # << >> /\ reads' = Tail(reads)
           /\ UNCHANGED <<handler, query, code, page, last, happened>>
           /\ UNCHANGED <<sessions, rows, label, history, commits, stats>>
<1> USE DEF passVars, dbVars, answerVars, listVars, Asks
<1>1. CASE Skips BY <1>1 DEF Skips
<1>2. CASE ReadSessionPart BY <1>2 DEF ReadSessionPart
<1>3. CASE ReadCount BY <1>3 DEF ReadCount
<1>4. CASE ReadRows BY <1>4 DEF ReadRows
<1>5. CASE ReadStats BY <1>5 DEF ReadStats
<1>6. CASE ReadScanning BY <1>6 DEF ReadScanning
<1>7. CASE ReadCountSessions BY <1>7 DEF ReadCountSessions
<1> QED BY <1>1, <1>2, <1>3, <1>4, <1>5, <1>6, <1>7

\* Past the end the list is read again, and not a third time.
LEMMA ClampReads ==
    ASSUME Sound(reads), Clamp
    PROVE  /\ Names(reads) = {"Clamp"} \cup Names(Tail(reads))
           /\ Names(Tail(reads)) \cap {"Count", "Rows", "Clamp"} = {}
           /\ Sound(reads')
           /\ page > last' => Names(reads') = {"Count", "Rows"} \cup Names(Tail(reads))
           /\ ~(page > last') => reads' = Tail(reads)
<1>1. reads # << >> /\ Head(reads) = "Clamp"
  BY DEF Clamp, Asks
<1>2. /\ Sound(Tail(reads))
      /\ Names(reads) = {"Clamp"} \cup Names(Tail(reads))
      /\ Names(Tail(reads)) \cap {"Count", "Rows", "Clamp"} = {}
  BY <1>1, TailSound DEF Barred
<1>3. CASE page > last'
  <2>1. reads' = SessionsJSON \o Tail(reads)
    BY <1>3 DEF Clamp, SessionsJSON
  <2>2. Sound(SessionsJSON) /\ Names(SessionsJSON) = {"Count", "Rows"}
    <3>1. Len(SessionsJSON) = 2
      BY DEF SessionsJSON
    <3>2. Names(SessionsJSON) = {SessionsJSON[1], SessionsJSON[2]}
      BY <3>1, NamesOfFew
    <3> QED BY <3>2, ListsSound DEF SessionsJSON
  <2>3. \A a \in Names(SessionsJSON) : Barred(a) = {}
    BY <2>2 DEF Barred
  <2>4. Sound(reads')
    BY <1>2, <2>1, <2>2, <2>3, JoinSound
  <2>5. Names(reads') = {"Count", "Rows"} \cup Names(Tail(reads))
    BY <1>2, <2>1, <2>2, JoinNames DEF Sound
  <2> QED BY <1>2, <1>3, <2>4, <2>5
<1>4. CASE ~(page > last')
  <2>1. reads' = Tail(reads)
    BY <1>4 DEF Clamp
  <2> QED BY <1>2, <1>4, <2>1
<1> QED BY <1>3, <1>4

LEMMA ReadsNext ==
    ASSUME TypeOK, ReadsInv, [Next]_vars
    PROVE  ReadsInv'
<1>1. CASE Around
  BY <1>1 DEF Around, ReadsInv, Sound, InOrder, RowsFollow, Names
<1>2. CASE reads' = << >>
  <2>1. << >> \in Seq(Reads) /\ Names(<< >>) = {}
    BY DEF Names
  <2>2. Sound(<< >>)
    BY <2>1, PlainSound
  <2> QED BY <1>2, <2>1, <2>2 DEF ReadsInv
<1>3. ASSUME NEW h \in Handlers, NEW q \in Queries(h), Request(h, q)
      PROVE  ReadsInv'
  <2>1. handler' = h /\ handler' # None
    BY <1>3, NoneIsNoHandler DEF Request
  <2>2. reads' = ReadsOf(h) \/ reads' = NotFoundReads(h)
    BY <1>3 DEF Request
  <2>3. Sound(reads') /\ (h \in OfOneSession => "GetProject" \notin Names(reads'))
    BY <2>2, ReadsStart, NotFoundStarts DEF Starts
  <2> QED BY <2>1, <2>3 DEF ReadsInv
<1>4. CASE Misses
  <2>1. handler' = handler /\ handler # None /\ reads' = NotFoundReads(handler)
    BY <1>4 DEF Misses, ReadsInv
  <2>2. Sound(reads') /\ "GetProject" \notin Names(reads')
    BY <2>1, NotFoundStarts
  <2> QED BY <2>1, <2>2 DEF ReadsInv
<1>5. CASE \/ Skips \/ ReadSessionPart \/ ReadCount \/ ReadRows
           \/ ReadStats \/ ReadScanning \/ ReadCountSessions
  <2>1. reads # << >> /\ reads' = Tail(reads) /\ handler' = handler
    BY <1>5, Onward
  <2>2. Sound(reads') /\ Names(reads') \subseteq Names(reads)
    BY <2>1, TailSound DEF ReadsInv
  <2> QED BY <2>1, <2>2 DEF ReadsInv
<1>6. CASE Clamp
  <2>1. handler' = handler /\ reads # << >>
    BY <1>6 DEF Clamp, Asks
  <2>2. Sound(reads') /\ Names(reads') \subseteq {"Count", "Rows"} \cup Names(reads)
    BY <1>6, ClampReads DEF ReadsInv
  <2> QED BY <2>1, <2>2 DEF ReadsInv
<1>7. CASE Exit \/ ReadFails
  BY <1>2, <1>7 DEF Exit, ReadFails
<1>8. CASE Finish
  BY <1>2, <1>8 DEF Finish
<1> QED BY <1>1, <1>3, <1>4, <1>5, <1>6, <1>7, <1>8, Steps

-----------------------------------------------------------------------------
\* What a status code tells.

\* Each read leaves code as it is, and a page goes blank where there are no rows.
LEMMA HonestOnward ==
    ASSUME HonestInv, ReadsInv,
           \/ Skips \/ ReadSessionPart \/ ReadCount \/ ReadRows
           \/ ReadStats \/ ReadScanning \/ ReadCountSessions
    PROVE  HonestInv'
<1>1. /\ reads # << >>
      /\ handler' = handler /\ query' = query /\ code' = code /\ happened' = happened
      /\ sessions' = sessions /\ rows' = rows
  BY Onward
<1>2. handler # None /\ code # 500
  BY <1>1 DEF ReadsInv, HonestInv
<1>3. blank' \subseteq happened
  <2>1. CASE ReadSessionPart
    <3> DEFINE part == Head(reads)
    <3>1. part \in SessionParts /\ blank' \subseteq blank \cup {part}
          /\ (<<query.id, part>> \in rows => blank' = blank)
      BY <2>1 DEF ReadSessionPart
    <3>2. <<query.id, part>> \notin rows => part \in happened
      BY <1>2, <3>1 DEF HonestInv, Lacks
    <3> HIDE DEF part
    <3> QED BY <3>1, <3>2 DEF HonestInv
  <2>2. CASE ~ReadSessionPart
    <3>1. blank' = blank
      BY <2>2 DEF Skips, ReadCount, ReadRows, ReadStats, ReadScanning, ReadCountSessions
    <3> QED BY <3>1 DEF HonestInv
  <2> QED BY <2>1, <2>2
<1> QED BY <1>1, <1>2, <1>3 DEF HonestInv

LEMMA HonestNext ==
    ASSUME TypeOK, ReadsInv, HonestInv, [Next]_vars
    PROVE  HonestInv'
<1>1. CASE Around /\ Rests
  BY <1>1 DEF Around, Rests, HonestInv, Lacks
<1>2. CASE Around /\ Commits
  <2>1. happened \subseteq happened' /\ Lacks(query.id, sessions', rows') \subseteq happened'
    BY <1>2 DEF Commits
  <2>2. "failure" \in happened' <=> "failure" \in happened
    BY <1>2, <2>1 DEF Commits
  <2> HIDE DEF Commits
  <2> QED BY <1>2, <2>1, <2>2 DEF Around, HonestInv
<1>3. CASE Exit
  <2>1. code' = (IF reads = << >> THEN code ELSE 0) /\ reads' = << >>
    BY <1>3 DEF Exit
  <2>2. UNCHANGED <<handler, query, sessions, rows, blank, happened>>
    BY <1>3 DEF Exit, passVars, dbVars
  <2>3. reads # << >> => code # 500
    BY DEF HonestInv
  <2>4. CASE reads = << >>
    BY <2>1, <2>2, <2>4 DEF HonestInv
  <2>5. CASE reads # << >>
    BY <2>1, <2>2, <2>3, <2>5 DEF HonestInv
  <2> QED BY <2>4, <2>5
<1>4. ASSUME NEW h \in Handlers, NEW q \in Queries(h), Request(h, q)
      PROVE  HonestInv'
  <2>1. /\ code' \in {200, 404} /\ blank' = {}
        /\ happened' = Lacks(q.id, sessions, rows)
        /\ query' = q /\ sessions' = sessions /\ rows' = rows /\ handler' = h
    BY <1>4 DEF Request, passVars, dbVars
  <2>2. "failure" \notin happened'
    BY <2>1, LacksType DEF SessionParts
  <2>3. ASSUME code' = 404 PROVE "gone" \in happened'
    <3>1. q.id = 0
      BY <1>4, <2>3 DEF Request
    <3>2. q.id \notin sessions
      BY <3>1, ConstantsOk DEF TypeOK
    <3> QED BY <2>1, <3>2 DEF Lacks
  <2> QED BY <2>1, <2>2, <2>3 DEF HonestInv
<1>5. CASE Misses
  <2>1. handler # None /\ code # 500
    BY <1>5 DEF Misses, ReadsInv, HonestInv
  <2>2. ASSUME handler \in OfOneSession PROVE "gone" \in happened
    <3>1. Head(reads) \in Names(reads)
      BY <1>5, TailSound DEF Misses, ReadsInv
    <3>2. query.id \notin sessions
      BY <1>5, <2>2, <3>1 DEF Misses, ReadsInv
    <3> QED BY <2>1, <3>2 DEF HonestInv, Lacks
  <2>3. "failure" \notin happened
    BY <2>1 DEF HonestInv
  <2> QED BY <1>5, <2>1, <2>2, <2>3 DEF Misses, HonestInv
<1>6. CASE ReadFails
  <2>1. reads # << >> /\ handler # None
    BY <1>6 DEF ReadFails, ReadsInv
  <2>2. /\ code' = 500 /\ reads' = << >> /\ happened' = happened \cup {"failure"}
        /\ UNCHANGED <<handler, query, sessions, rows, blank>>
    BY <1>6 DEF ReadFails, passVars, dbVars
  <2> QED BY <2>1, <2>2 DEF HonestInv
<1>7. CASE Clamp
  <2>1. reads # << >> /\ handler # None /\ code # 500
    BY <1>7 DEF Clamp, Asks, ReadsInv, HonestInv
  <2>2. UNCHANGED <<handler, query, code, sessions, rows, blank, happened>>
    BY <1>7 DEF Clamp, passVars, dbVars
  <2> QED BY <2>1, <2>2 DEF HonestInv
<1>8. CASE Finish
  BY <1>8 DEF Finish, HonestInv
<1> QED BY <1>1, <1>2, <1>3, <1>4, <1>5, <1>6, <1>7, <1>8, HonestOnward, Steps

-----------------------------------------------------------------------------
\* What Status has copied.

LEMMA StatusOnward ==
    ASSUME TypeOK, ReadsInv, StatusInv,
           \/ Skips \/ ReadSessionPart \/ ReadCount \/ ReadRows
           \/ ReadStats \/ ReadScanning \/ ReadCountSessions
    PROVE  StatusInv'
<1>1. reads # << >> /\ reads' = Tail(reads) /\ commits' = commits /\ stats' = stats
  BY Onward
<1>2. /\ Names(reads) = {Head(reads)} \cup Names(Tail(reads))
      /\ Names(Tail(reads)) \cap Barred(Head(reads)) = {}
  BY <1>1, TailSound DEF ReadsInv
<1>3. CASE ReadStats
  <2>1. Head(reads) = "Stats" /\ status' = [status EXCEPT !.pass = stats.pass, !.upTo = stats.upTo]
    BY <1>3 DEF ReadStats, Asks
  <2>2. status.at = 0
    <3>1. "Stats" \in Names(reads) \cap Barred("CountSessions")
      BY <1>2, <2>1 DEF Barred
    <3>2. status.at \in Nat
      BY DEF TypeOK
    <3> QED BY <3>1, <3>2 DEF StatusInv
  <2>3. status'.at = 0 /\ status'.upTo = stats.upTo
    BY <2>1, <2>2 DEF TypeOK
  <2>4. stats.upTo \in Nat
    BY DEF TypeOK
  <2> QED BY <1>1, <2>3, <2>4 DEF StatusInv
<1>4. CASE ReadCountSessions
  <2>1. Head(reads) = "CountSessions"
    BY <1>4 DEF ReadCountSessions, Asks
  <2>2. status'.upTo = status.upTo /\ status'.at \in {status.at, commits}
    BY <1>4 DEF ReadCountSessions, TypeOK
  <2>3. Names(reads') \cap Barred("CountSessions") = {}
    BY <1>1, <1>2, <2>1
  <2>4. status.upTo <= commits
    BY DEF StatusInv, TypeOK
  <2>5. status'.at > 0 => status'.upTo <= status'.at
    BY <2>2, <2>4 DEF StatusInv, TypeOK
  <2> QED BY <1>1, <2>2, <2>3, <2>5 DEF StatusInv
<1>5. CASE ~ReadStats /\ ~ReadCountSessions
  <2>1. status'.upTo = status.upTo /\ status'.at = status.at
    BY <1>5 DEF Skips, ReadSessionPart, ReadCount, ReadRows, ReadScanning, TypeOK
  <2>2. Names(reads') \subseteq Names(reads)
    BY <1>1, <1>2
  <2> QED BY <1>1, <2>1, <2>2 DEF StatusInv
<1> QED BY <1>3, <1>4, <1>5

LEMMA StatusNext ==
    ASSUME TypeOK, ReadsInv, StatusInv, [Next]_vars
    PROVE  StatusInv'
<1>0. /\ stats.upTo \in Nat /\ commits \in Nat
      /\ status.upTo \in Nat /\ status.at \in Nat
  BY DEF TypeOK
<1>1. CASE Around /\ (Rests \/ Commits)
  <2>1. status' = status /\ reads' = reads
    BY <1>1 DEF Around
  <2>2. /\ commits' \in {commits, commits + 1}
        /\ stats' = stats \/ stats'.upTo = commits
    BY <1>1 DEF Rests, Commits
  <2>3. stats.upTo <= stats'.upTo /\ stats'.upTo <= commits'
    BY <1>0, <2>2 DEF StatusInv
  <2>4. status.upTo <= stats'.upTo
    <3>1. stats'.upTo \in Nat
      BY <1>0, <2>2
    <3> QED BY <1>0, <2>3, <3>1 DEF StatusInv
  <2> QED BY <2>1, <2>3, <2>4 DEF StatusInv, Names
<1>2. CASE reads' = << >> /\ UNCHANGED <<commits, stats, status>>
  BY <1>2 DEF StatusInv, Names
<1>3. CASE UNCHANGED <<commits, stats>> /\ status' = NoStatus
  BY <1>0, <1>3 DEF StatusInv, NoStatus
<1>4. CASE Misses
  <2>1. Head(reads) \in Names(reads) \cap Barred("CountSessions")
    BY <1>4, TailSound DEF Misses, ReadsInv, Barred
  <2>2. status.at = 0
    BY <1>0, <2>1 DEF StatusInv
  <2> QED BY <1>4, <2>2 DEF Misses, StatusInv
<1>5. CASE Clamp
  <2>1. UNCHANGED <<commits, stats, status>>
    BY <1>5 DEF Clamp, passVars, dbVars
  <2>2. Names(reads') \subseteq {"Count", "Rows"} \cup Names(reads)
    BY <1>5, ClampReads DEF ReadsInv
  <2>3. Names(reads') \cap Barred("CountSessions") \subseteq Names(reads) \cap Barred("CountSessions")
    BY <2>2 DEF Barred
  <2> QED BY <2>1, <2>3 DEF StatusInv
<1>6. CASE Exit \/ ReadFails
  BY <1>2, <1>6 DEF Exit, ReadFails, passVars, dbVars
<1>7. CASE Finish
  BY <1>3, <1>7 DEF Finish, passVars, dbVars
<1>8. ASSUME NEW h \in Handlers, NEW q \in Queries(h), Request(h, q)
      PROVE  StatusInv'
  BY <1>3, <1>8 DEF Request, passVars, dbVars
<1> QED BY <1>1, <1>4, <1>5, <1>6, <1>7, <1>8, StatusOnward, Steps

-----------------------------------------------------------------------------
\* The pages of a list.

LEMMA RowsBefore ==
    ASSUME NEW k \in Nat \ {0}, NEW P \in Nat \ {0}
    PROVE  (k - 1) * P \in Nat
<1> DEFINE j == k - 1
<1>1. j \in Nat
  OBVIOUS
<1> HIDE DEF j
<1>2. j * P \in Nat
  BY <1>1
<1> QED BY <1>2 DEF j

LEMMA OffsetType ==
    ASSUME TypeOK
    PROVE  Offset \in Nat /\ (page = 1 => Offset = 0)
<1>1. page \in Nat \ {0} /\ PerPage \in Nat \ {0}
  BY ConstantsOk DEF TypeOK
<1>2. (page - 1) * PerPage \in Nat
  BY <1>1
<1>3. page = 1 => (page - 1) * PerPage = 0
  BY <1>1
<1> QED BY <1>2, <1>3 DEF Offset

\* What a page reads of its list, and what it reads besides.
LEMMA ListReads ==
    ASSUME ReadsInv,
           \/ Skips \/ ReadSessionPart \/ ReadCount \/ ReadRows
           \/ ReadStats \/ ReadScanning \/ ReadCountSessions
    PROVE  /\ "Clamp" \in Names(reads') <=> "Clamp" \in Names(reads)
           /\ ReadCount => /\ "Rows" \in Names(reads')
                           /\ "Rows" \in Names(reads)
                           /\ total' = Cardinality(Matching) /\ list' = list
           /\ ReadRows => /\ "Count" \in Names(reads') <=> "Count" \in Names(reads)
                          /\ total' = total
           /\ ~ReadCount /\ ~ReadRows =>
                 /\ Names(reads) \cap {"Count", "Rows"} = Names(reads') \cap {"Count", "Rows"}
                 /\ total' = total /\ list' = list
<1>1. reads # << >> /\ reads' = Tail(reads)
  BY Onward
<1>2. /\ Names(reads) = {Head(reads)} \cup Names(reads')
      /\ Head(reads) = "Count" => "Rows" \in Names(reads')
  BY <1>1, TailSound DEF ReadsInv
<1>3. CASE ReadCount
  <2>1. Head(reads) = "Count" /\ total' = Cardinality(Matching) /\ list' = list
    BY <1>3 DEF ReadCount, Asks
  <2>2. ~ReadRows
    BY <2>1 DEF ReadRows, Asks
  <2> QED BY <1>2, <1>3, <2>1, <2>2
<1>4. CASE ReadRows
  <2>1. Head(reads) = "Rows" /\ total' = total
    BY <1>4 DEF ReadRows, Asks
  <2>2. ~ReadCount
    BY <2>1 DEF ReadCount, Asks
  <2> QED BY <1>2, <1>4, <2>1, <2>2
<1>5. CASE ~ReadCount /\ ~ReadRows
  <2>1. Head(reads) \notin {"Count", "Rows", "Clamp"}
    BY <1>5 DEF Skips, ReadSessionPart, SessionParts, ReadStats, ReadScanning, ReadCountSessions, Asks
  <2>2. total' = total /\ list' = list
    BY <1>5 DEF Skips, ReadSessionPart, ReadStats, ReadScanning, ReadCountSessions, listVars
  <2> QED BY <1>2, <1>5, <2>1, <2>2
<1> QED BY <1>3, <1>4, <1>5

LEMMA RowsCut ==
    ASSUME TypeOK, ReadRows
    PROVE  /\ handler \in Paged => /\ list' = Slice(Matching, PerPage, Offset)
                                   /\ Cardinality(list') <= PerPage
           /\ handler = "sessionsJSON" => Cardinality(list') <= MaxLimit
<1>1. PerPage \in Nat \ {0} /\ MaxLimit \in Nat /\ query.n \in Int /\ query.offset \in Int
  BY ConstantsOk DEF TypeOK, Query
<1>2. ASSUME handler \in Paged
      PROVE  list' = Slice(Matching, PerPage, Offset)
  <2>1. handler # "sessionsJSON"
    BY <1>2 DEF Paged
  <2> QED BY <2>1 DEF ReadRows
<1>3. Cardinality(Slice(Matching, PerPage, Offset)) <= PerPage
  BY <1>1, MatchingType, OffsetType, SliceBounded
<1>4. ASSUME handler = "sessionsJSON"
      PROVE  Cardinality(list') <= MaxLimit
  <2> DEFINE lim == Limit(query.n)
             off == QueryInt(query.offset, 0)
  <2>1. list' = Slice(Matching, lim, off)
    BY <1>4 DEF ReadRows
  <2>2. lim \in Nat \ {0} /\ lim <= MaxLimit /\ off \in Nat
    BY <1>1, LimitType
  <2> HIDE DEF lim, off
  <2>3. Cardinality(Slice(Matching, lim, off)) <= lim
    BY <2>2, MatchingType, SliceBounded
  <2>4. Cardinality(list') \in Nat
    <3>1. list' \subseteq Matching
      BY <2>1 DEF Slice
    <3>2. IsFiniteSet(list')
      BY <3>1, MatchingType, FS_Subset
    <3> QED BY <3>2, FS_CardinalityType
  <2> QED BY <1>1, <2>1, <2>2, <2>3, <2>4
<1> QED BY <1>2, <1>3, <1>4

\* A page of a list starts with its rows to count, to query and to clamp.
LEMMA PagedStarts ==
    ASSUME NEW h \in Handlers, NEW q \in Queries(h), Request(h, q), h \in Paged
    PROVE  {"Count", "Rows", "Clamp"} \subseteq Names(reads')
<1>1. reads' = ReadsOf(h)
  BY DEF Request, Paged, OfOneSession
<1>2. Starts(h, reads')
  BY <1>1, ReadsStart
<1>3. PICK i \in 1..Len(reads') : reads'[i] = "Count"
  BY <1>2 DEF Starts, Names
<1>4. PICK j \in i + 1..Len(reads') : reads'[j] = "Rows"
  BY <1>2, <1>3 DEF Starts, Sound, RowsFollow
<1>5. j \in 1..Len(reads')
  <2>1. Len(reads') \in Nat
    BY <1>2 DEF Starts, Sound
  <2> QED BY <1>3, <1>4, <2>1
<1> QED BY <1>2, <1>4, <1>5 DEF Starts, Names

LEMMA ListNext ==
    ASSUME TypeOK, ReadsInv, ListInv, [Next]_vars
    PROVE  ListInv'
<1>0. PerPage \in Nat /\ MaxLimit \in Nat /\ Cardinality({}) = 0
  BY ConstantsOk, FS_EmptySet
<1>1. CASE Around
  BY <1>1 DEF Around, ListInv, Names
<1>2. CASE Exit
  <2>1. code' = 200 => code = 200 /\ reads' = reads
    BY <1>2 DEF Exit
  <2>2. UNCHANGED <<handler, page, last, list>>
    BY <1>2 DEF Exit, listVars
  <2> QED BY <2>1, <2>2 DEF ListInv, Names
<1>3. ASSUME NEW h \in Handlers, NEW q \in Queries(h), Request(h, q)
      PROVE  ListInv'
  <2>1. list' = {} /\ handler' = h
    BY <1>3 DEF Request
  <2>2. h \in Paged => "Clamp" \in Names(reads')
    BY <1>3, PagedStarts
  <2> QED BY <1>0, <2>1, <2>2 DEF ListInv
<1>4. CASE Misses \/ ReadFails
  <2>1. UNCHANGED <<handler, list>> /\ code' # 200
    BY <1>4 DEF Misses, ReadFails, listVars
  <2> QED BY <2>1 DEF ListInv
<1>5. CASE \/ Skips \/ ReadSessionPart \/ ReadCount \/ ReadRows
           \/ ReadStats \/ ReadScanning \/ ReadCountSessions
  <2>1. UNCHANGED <<handler, code, page, last>>
    BY <1>5, Onward
  <2>2. "Clamp" \in Names(reads') <=> "Clamp" \in Names(reads)
    BY <1>5, ListReads
  <2>3. ReadRows \/ list' = list
    BY <1>5, ListReads
  <2> QED BY <2>1, <2>2, <2>3, RowsCut DEF ListInv
<1>6. CASE Clamp
  <2>1. UNCHANGED <<handler, list>> /\ last' = LastPage(total)
    BY <1>6 DEF Clamp
  <2>2. last' \in Nat \ {0} /\ page \in Nat
    BY <2>1, PageOfRows DEF TypeOK
  <2>3. page' = IF page > last' THEN last' ELSE page
    BY <1>6 DEF Clamp
  <2>4. page' <= last'
    BY <2>2, <2>3
  <2> QED BY <2>1, <2>4 DEF ListInv
<1>7. CASE Finish
  <2>1. list' = {} /\ code' = 0
    BY <1>7 DEF Finish
  <2> QED BY <1>0, <2>1 DEF ListInv
<1> QED BY <1>1, <1>2, <1>3, <1>4, <1>5, <1>6, <1>7, Steps

LEMMA ShownNext ==
    ASSUME TypeOK, TypeOK', ReadsInv, ShownInv, [Next]_vars
    PROVE  ShownInv'
<1> SUFFICES ASSUME (handler \in Paged /\ "loss" \notin happened)'
             PROVE  /\ (total <= Cardinality(Matching))'
                    /\ (code = 200 /\ "Clamp" \notin Names(reads) => page = 1 \/ Offset < total)'
                    /\ (code = 200 /\ "Rows" \notin Names(reads) /\ Offset < total => list # {})'
  BY DEF ShownInv
<1>0. /\ Cardinality(Matching) \in Nat /\ Cardinality(Matching)' \in Nat
      /\ total \in Nat /\ total' \in Nat /\ page \in Nat \ {0} /\ page' \in Nat \ {0}
      /\ Offset \in Nat /\ Offset' \in Nat
  <2>1. Cardinality(Matching) \in Nat /\ Offset \in Nat
    BY MatchingType, OffsetType
  <2>2. Cardinality(Matching)' \in Nat
    <3>1. Matching' \subseteq Ids
      BY DEF TypeOK, Matching, Query
    <3>2. IsFiniteSet(Matching')
      BY <3>1, ConstantsOk, FS_Subset
    <3> QED BY <3>2, FS_CardinalityType
  <2>3. Offset' \in Nat
    <3>1. page' \in Nat \ {0} /\ PerPage \in Nat \ {0}
      BY ConstantsOk DEF TypeOK
    <3>2. (page' - 1) * PerPage \in Nat
      BY <3>1, RowsBefore
    <3> QED BY <3>2 DEF Offset
  <2> QED BY <2>1, <2>2, <2>3 DEF TypeOK
<1>1. CASE Around /\ Rests
  <2>1. UNCHANGED <<handler, query, reads, code, page, total, list, happened, sessions, label, history>>
    BY <1>1 DEF Around, Rests
  <2>2. Matching' = Matching /\ Offset' = Offset /\ Names(reads)' = Names(reads)
    BY <2>1 DEF Matching, Offset, Names
  <2> QED BY <2>1, <2>2 DEF ShownInv
<1>2. CASE Around /\ Commits
  <2>1. UNCHANGED <<handler, query, reads, code, page, total, list>>
    BY <1>2 DEF Around
  <2>2. "loss" \notin happened /\ Matching \subseteq Matching'
    BY <1>2 DEF Commits
  <2>3. Offset' = Offset /\ Names(reads)' = Names(reads)
    BY <2>1 DEF Offset, Names
  <2>4. Cardinality(Matching) <= Cardinality(Matching')
    <3>1. IsFiniteSet(Matching')
      <4>1. Matching' \subseteq Ids
        BY DEF TypeOK, Matching, Query
      <4> QED BY <4>1, ConstantsOk, FS_Subset
    <3> QED BY <2>2, <3>1, FS_Subset
  <2>5. total <= Cardinality(Matching)
    BY <2>1, <2>2 DEF ShownInv
  <2>6. total' <= Cardinality(Matching)'
    BY <1>0, <2>1, <2>4, <2>5
  <2> QED BY <2>1, <2>2, <2>3, <2>6 DEF ShownInv
<1>3. CASE Exit
  <2>1. code' = 200 => code = 200 /\ reads' = reads
    BY <1>3 DEF Exit
  <2>2. UNCHANGED <<handler, query, page, total, list, happened, sessions, label, history>>
    BY <1>3 DEF Exit, listVars, passVars, dbVars
  <2>3. Matching' = Matching /\ Offset' = Offset
    BY <2>2 DEF Matching, Offset
  <2>4. code' = 200 => Names(reads)' = Names(reads)
    BY <2>1 DEF Names
  <2> QED BY <2>1, <2>2, <2>3, <2>4 DEF ShownInv
<1>4. ASSUME NEW h \in Handlers, NEW q \in Queries(h), Request(h, q)
      PROVE  ShownInv'
  <2>1. total' = 0 /\ handler' = h
    BY <1>4 DEF Request
  <2>2. "Clamp" \in Names(reads)'
    BY <1>4, <2>1, PagedStarts DEF Names
  <2>3. ~(Offset' < total')
    BY <1>0, <2>1
  <2>4. total' <= Cardinality(Matching)'
    BY <1>0, <2>1
  <2> QED BY <2>2, <2>3, <2>4 DEF ShownInv
<1>5. CASE Misses \/ ReadFails
  <2>1. UNCHANGED <<handler, query, total, sessions, label, history>> /\ code' # 200
    BY <1>5 DEF Misses, ReadFails, listVars, passVars, dbVars
  <2>2. Matching' = Matching /\ "loss" \notin happened
    BY <1>5, <2>1 DEF Matching, Misses, ReadFails
  <2> QED BY <2>1, <2>2 DEF ShownInv
<1>6. CASE \/ Skips \/ ReadSessionPart \/ ReadCount \/ ReadRows
           \/ ReadStats \/ ReadScanning \/ ReadCountSessions
  <2>1. UNCHANGED <<handler, query, code, page, happened, sessions, label, history>>
    BY <1>6, Onward
  <2>2. Matching' = Matching /\ Offset' = Offset
    BY <2>1 DEF Matching, Offset
  <2>3. /\ total <= Cardinality(Matching)
        /\ code = 200 /\ "Clamp" \notin Names(reads') => page = 1 \/ Offset < total
    BY <1>6, <2>1, ListReads DEF ShownInv
  <2>4. CASE ReadCount
    <3>1. "Rows" \in Names(reads') /\ total' = Cardinality(Matching)
      BY <1>6, <2>4, ListReads
    <3>2. Offset < total => Offset < total'
      BY <1>0, <2>3, <3>1
    <3> QED BY <1>0, <2>1, <2>2, <2>3, <3>1, <3>2
  <2>5. CASE ReadRows
    <3>1. total' = total /\ list' = Slice(Matching, PerPage, Offset)
      BY <1>6, <2>1, <2>5, ListReads, RowsCut
    <3>2. ASSUME Offset < total PROVE list' # {}
      <4>1. Offset < Cardinality(Matching) /\ PerPage \in Nat \ {0}
        BY <1>0, <2>3, <3>2, ConstantsOk
      <4> QED BY <1>0, <3>1, <4>1, MatchingType, SliceShows
    <3> QED BY <2>1, <2>2, <2>3, <3>1, <3>2
  <2>6. CASE ~ReadCount /\ ~ReadRows
    <3>1. total' = total /\ list' = list /\ ("Rows" \in Names(reads) <=> "Rows" \in Names(reads'))
      BY <1>6, <2>6, ListReads
    <3> QED BY <2>1, <2>2, <2>3, <3>1 DEF ShownInv
  <2> QED BY <2>4, <2>5, <2>6
<1>7. CASE Clamp
  <2>1. UNCHANGED <<handler, query, code, total, list, happened, sessions, label, history>>
    BY <1>7 DEF Clamp, passVars, dbVars
  <2>2. Matching' = Matching
    BY <2>1 DEF Matching
  <2>3. last' = LastPage(total) /\ page' = IF page > last' THEN last' ELSE page
    BY <1>7 DEF Clamp
  <2>4. last' \in Nat \ {0}
    BY <1>0, <2>3, PageOfRows
  <2>5. page' <= LastPage(total)
    BY <1>0, <2>3, <2>4
  <2>6. page' = 1 \/ Offset' < total'
    BY <1>0, <2>1, <2>5, PageOfRows DEF Offset
  <2>7. ASSUME "Rows" \notin Names(reads') PROVE page' = page /\ "Rows" \notin Names(reads)
    <3>1. ~(page > last') /\ reads' = Tail(reads)
      BY <1>7, <2>7, ClampReads DEF ReadsInv
    <3> QED BY <1>7, <2>3, <2>7, <3>1, ClampReads DEF ReadsInv
  <2>8. page' = page => Offset' = Offset
    BY DEF Offset
  <2> QED BY <2>1, <2>2, <2>6, <2>7, <2>8 DEF ShownInv
<1>8. CASE Finish
  <2>1. total' = 0 /\ code' = 0
    BY <1>8 DEF Finish
  <2> QED BY <1>0, <2>1
<1> QED BY <1>1, <1>2, <1>3, <1>4, <1>5, <1>6, <1>7, <1>8, Steps DEF ShownInv

LEMMA ExactNext ==
    ASSUME TypeOK, ReadsInv, ExactInv, [Next]_vars
    PROVE  ExactInv'
<1> SUFFICES ASSUME (handler \in Paged /\ "commit" \notin happened /\ code = 200)'
             PROVE  ExactInv'
  BY DEF ExactInv
<1>1. CASE Around /\ Rests
  <2>1. UNCHANGED <<handler, query, reads, code, page, last, total, list, happened, sessions, label, history>>
    BY <1>1 DEF Around, Rests
  <2>2. Matching' = Matching /\ Offset' = Offset /\ Names(reads)' = Names(reads)
    BY <2>1 DEF Matching, Offset, Names
  <2> QED BY <2>1, <2>2 DEF ExactInv
<1>2. CASE Commits
  BY <1>2 DEF Commits
<1>3. CASE Exit
  <2>1. code = 200 /\ reads' = reads
    BY <1>3 DEF Exit
  <2>2. UNCHANGED <<handler, query, page, last, total, list, happened, sessions, label, history>>
    BY <1>3 DEF Exit, listVars, passVars, dbVars
  <2>3. Matching' = Matching /\ Offset' = Offset /\ Names(reads)' = Names(reads)
    BY <2>1, <2>2 DEF Matching, Offset, Names
  <2> QED BY <2>1, <2>2, <2>3 DEF ExactInv
<1>4. ASSUME NEW h \in Handlers, NEW q \in Queries(h), Request(h, q)
      PROVE  ExactInv'
  <2>1. handler' = h /\ query' = q
    BY <1>4 DEF Request
  <2>2. page' = AskedPage(q.n)
    BY <1>4, <2>1 DEF Request
  <2>3. {"Count", "Rows", "Clamp"} \subseteq Names(reads')
    BY <1>4, <2>1, PagedStarts
  <2> QED BY <2>1, <2>2, <2>3 DEF ExactInv
<1>5. CASE Misses \/ ReadFails
  BY <1>5 DEF Misses, ReadFails
<1>6. CASE \/ Skips \/ ReadSessionPart \/ ReadCount \/ ReadRows
           \/ ReadStats \/ ReadScanning \/ ReadCountSessions
  <2>1. UNCHANGED <<handler, query, code, page, last, happened, sessions, label, history>>
    BY <1>6, Onward
  <2>2. Matching' = Matching /\ Offset' = Offset
    BY <2>1 DEF Matching, Offset
  <2>3. "Clamp" \in Names(reads') <=> "Clamp" \in Names(reads)
    BY <1>6, ListReads
  <2>4. "Count" \notin Names(reads') => total' = Cardinality(Matching)
    <3>1. CASE ReadCount
      BY <1>6, <3>1, ListReads
    <3>2. CASE ~ReadCount
      <4>1. total' = total /\ ("Count" \in Names(reads) <=> "Count" \in Names(reads'))
        BY <1>6, <3>2, ListReads
      <4> QED BY <2>1, <4>1 DEF ExactInv
    <3> QED BY <3>1, <3>2
  <2>5. "Rows" \notin Names(reads') => list' = Slice(Matching, PerPage, Offset)
    <3>1. CASE ReadRows
      BY <2>1, <3>1, RowsCut
    <3>2. CASE ~ReadRows
      <4>1. CASE ReadCount
        BY <1>6, <4>1, ListReads
      <4>2. CASE ~ReadCount
        <5>1. list' = list /\ ("Rows" \in Names(reads) <=> "Rows" \in Names(reads'))
          BY <1>6, <3>2, <4>2, ListReads
        <5> QED BY <2>1, <5>1 DEF ExactInv
      <4> QED BY <4>1, <4>2
    <3> QED BY <3>1, <3>2
  <2>6. /\ "Clamp" \in Names(reads) => page = AskedPage(query.n)
        /\ "Clamp" \notin Names(reads) =>
              /\ last = LastPage(Cardinality(Matching))
              /\ page = IF AskedPage(query.n) <= last THEN AskedPage(query.n) ELSE last
    BY <2>1 DEF ExactInv
  <2> QED BY <2>1, <2>2, <2>3, <2>4, <2>5, <2>6 DEF ExactInv
<1>7. CASE Clamp
  <2>1. UNCHANGED <<handler, query, code, total, list, happened, sessions, label, history>>
    BY <1>7 DEF Clamp, passVars, dbVars
  <2>2. Matching' = Matching
    BY <2>1 DEF Matching
  <2>3. last' = LastPage(total) /\ page' = IF page > last' THEN last' ELSE page
    BY <1>7 DEF Clamp
  <2>4. /\ Names(reads) = {"Clamp"} \cup Names(Tail(reads))
        /\ Names(Tail(reads)) \cap {"Count", "Rows", "Clamp"} = {}
        /\ page > last' => Names(reads') = {"Count", "Rows"} \cup Names(Tail(reads))
        /\ ~(page > last') => reads' = Tail(reads)
    BY <1>7, ClampReads DEF ReadsInv
  <2>5. /\ total = Cardinality(Matching) /\ page = AskedPage(query.n)
        /\ list = Slice(Matching, PerPage, Offset)
    BY <2>1, <2>4 DEF ExactInv
  <2>6. page' = IF AskedPage(query.n) <= last' THEN AskedPage(query.n) ELSE last'
    <3>1. last' \in Nat /\ page \in Nat
      BY <2>3, PageOfRows DEF TypeOK
    <3> QED BY <2>3, <2>5, <3>1
  <2>7. "Clamp" \notin Names(reads')
    BY <2>4
  <2>8. "Rows" \notin Names(reads') => page' = page
    BY <2>3, <2>4
  <2>9. page' = page => Offset' = Offset
    BY DEF Offset
  <2> QED BY <2>1, <2>2, <2>3, <2>5, <2>6, <2>7, <2>8, <2>9 DEF ExactInv
<1>8. CASE Finish
  BY <1>8 DEF Finish
<1> QED BY <1>1, <1>2, <1>3, <1>4, <1>5, <1>6, <1>7, <1>8, Steps

-----------------------------------------------------------------------------
\* What follows for answers.

Inv == TypeOK /\ ReadsInv /\ HonestInv /\ StatusInv /\ ListInv /\ ShownInv /\ ExactInv

LEMMA InitInv == Init => Inv
<1> SUFFICES ASSUME Init PROVE Inv
  OBVIOUS
<1>1. TypeOK
  BY InitType
<1>2. reads = << >> /\ Names(reads) = {} /\ handler = None
  BY DEF Init, Names
<1>3. ReadsInv
  <2>1. << >> \in Seq(Reads)
    OBVIOUS
  <2>2. Sound(reads)
    BY <1>2, <2>1, PlainSound
  <2> QED BY <1>2, <2>2 DEF ReadsInv
<1>4. HonestInv
  BY <1>2 DEF Init, HonestInv
<1>5. StatusInv
  BY DEF Init, StatusInv, NoStatus
<1>6. ListInv /\ ShownInv /\ ExactInv
  <2>1. handler \notin Paged /\ handler # "sessionsJSON"
    <3>1. {"sessions", "plans", "sessionsJSON"} \subseteq Handlers
      BY DEF Handlers, HTML, PageReads, OtherReads
    <3> QED BY <1>2, <3>1, NoneIsNoHandler DEF Paged
  <2> QED BY <2>1 DEF ListInv, ShownInv, ExactInv
<1> QED BY <1>1, <1>3, <1>4, <1>5, <1>6 DEF Inv

LEMMA InvNext == Inv /\ [Next]_vars => Inv'
<1> SUFFICES ASSUME Inv, [Next]_vars PROVE Inv'
  OBVIOUS
<1>1. TypeOK /\ ReadsInv /\ HonestInv /\ StatusInv /\ ListInv /\ ShownInv /\ ExactInv
  BY DEF Inv
<1>2. TypeOK'
  BY <1>1, NextType
<1>3. ReadsInv'
  BY <1>1, ReadsNext
<1>4. HonestInv'
  BY <1>1, HonestNext
<1>5. StatusInv'
  BY <1>1, StatusNext
<1>6. ListInv'
  BY <1>1, ListNext
<1>7. ShownInv'
  BY <1>1, <1>2, ShownNext
<1>8. ExactInv'
  BY <1>1, ExactNext
<1> QED BY <1>2, <1>3, <1>4, <1>5, <1>6, <1>7, <1>8 DEF Inv

LEMMA NoReads == ASSUME reads = << >> PROVE Names(reads) = {}
BY DEF Names

\* A page is whole or an error, and "not found" and the blank parts of the page of a
\* session are what was missing at some moment since it was asked for, whenever commits
\* and the end of the process fall between the queries (failPage and fail, store.GetSession).
THEOREM AnswersHonest == Spec => []AnswerHonest
<1>1. Inv => AnswerHonest
  BY DEF Inv, HonestInv, AnswerHonest, Answered
<1> QED BY <1>1, InitInv, InvNext, PTL DEF Spec

\* Status never gives the number of sessions of a moment before the end of the pass
\* whose stats it gives, though it reads the stats, the flag and the number one after
\* the other (Status of the indexer).
THEOREM StatusOrdered == Spec => []StatusInOrder
<1>1. Inv => StatusInOrder
  <2> SUFFICES ASSUME Inv, status.at > 0 PROVE status.at >= status.upTo
    BY DEF StatusInOrder
  <2>1. status.at \in Nat /\ status.upTo \in Nat
    BY DEF Inv, TypeOK
  <2> QED BY <2>1 DEF Inv, StatusInv
<1> QED BY <1>1, InitInv, InvNext, PTL DEF Spec

\* No page is longer than a page, none is past the number of pages it gives, and no
\* limit gets more than the maximum of /api/sessions (pages_sessions.go, api.go).
THEOREM ListsBounded == Spec => []ListBounded
<1>1. Inv => ListBounded
  <2> SUFFICES ASSUME Inv, Answered(200)
               PROVE  /\ handler \in Paged => 1 <= page /\ page <= last /\ Cardinality(list) <= PerPage
                      /\ handler = "sessionsJSON" => Cardinality(list) <= MaxLimit
    BY DEF ListBounded
  <2>1. code = 200 /\ Names(reads) = {}
    BY NoReads DEF Answered
  <2>2. 1 <= page
    BY DEF Inv, TypeOK
  <2> QED BY <2>1, <2>2 DEF Inv, ListInv
<1> QED BY <1>1, InitInv, InvNext, PTL DEF Spec

\* A list that counts matches and shows none has lost a match to a commit between its
\* count and its rows: a row that was removed, or one that a new title, project, start
\* or model keeps from the filter.  Otherwise asking again for the last page is enough.
THEOREM EmptyByLoss == Spec => []EmptyOnlyAfterLoss
<1>1. Inv => EmptyOnlyAfterLoss
  <2> SUFFICES ASSUME Inv, Answered(200), handler \in Paged, list = {}, total > 0,
                      "loss" \notin happened
               PROVE  FALSE
    BY DEF EmptyOnlyAfterLoss
  <2>1. code = 200 /\ Names(reads) = {}
    BY NoReads DEF Answered
  <2>2. (page = 1 \/ Offset < total) /\ ~(Offset < total)
    BY <2>1 DEF Inv, ShownInv
  <2>3. page = 1 => Offset = 0
    BY OffsetType DEF Inv
  <2> QED BY <2>2, <2>3
<1> QED BY <1>1, InitInv, InvNext, PTL DEF Spec

LEMMA PagesThereAre ==
    ASSUME NEW n \in Nat
    PROVE  /\ (IF n = 0 THEN {1} ELSE {k \in 1..n : (k - 1) * PerPage < n}) = 1..LastPage(n)
           /\ Cardinality(1..LastPage(n)) = LastPage(n)
<1> DEFINE last0 == LastPage(n)
<1>1. last0 \in Nat \ {0}
  BY PageOfRows
<1>2. \A k \in Nat \ {0} : k <= last0 <=> k = 1 \/ (k - 1) * PerPage < n
  BY PageOfRows
<1>3. \A k \in Nat \ {0} : (k - 1) * PerPage \in Nat /\ (k - 1) * PerPage >= k - 1
  <2> SUFFICES ASSUME NEW k \in Nat \ {0}
               PROVE  (k - 1) * PerPage \in Nat /\ (k - 1) * PerPage >= k - 1
    OBVIOUS
  <2>1. PerPage \in Nat \ {0}
    BY ConstantsOk
  <2> DEFINE j == k - 1
             m == PerPage - 1
  <2>2. j \in Nat /\ m \in Nat /\ PerPage = m + 1
    BY <2>1
  <2> HIDE DEF j, m
  <2>3. j * m \in Nat /\ j * (m + 1) = j * m + j
    BY <2>2
  <2>4. j * PerPage \in Nat /\ j * PerPage >= j
    BY <2>2, <2>3
  <2> QED BY <2>4 DEF j
<1> HIDE DEF last0
<1>4. Cardinality(1..last0) = last0
  <2>1. 1 \in Int /\ last0 \in Int /\ ~(1 > last0) /\ last0 - 1 + 1 = last0
    BY <1>1
  <2> QED BY <2>1, FS_Interval
<1>5. CASE n = 0
  <2>1. \A k \in Nat \ {0} : k <= last0 <=> k = 1
    <3> TAKE k \in Nat \ {0}
    <3>1. ~((k - 1) * PerPage < n)
      BY <1>3, <1>5
    <3> QED BY <1>2, <3>1
  <2>2. last0 = 1
    BY <1>1, <2>1
  <2>3. 1..1 = {1}
    OBVIOUS
  <2> QED BY <1>4, <1>5, <2>2, <2>3 DEF last0
<1>6. CASE n # 0
  <2>1. \A k \in 1..n : k <= last0 <=> (k - 1) * PerPage < n
    <3> TAKE k \in 1..n
    <3>1. k = 1 => (k - 1) * PerPage < n
      <4>1. PerPage \in Nat
        BY ConstantsOk
      <4> QED BY <1>6, <4>1
    <3> QED BY <1>2, <3>1
  <2>2. \A k \in 1..last0 : k \in 1..n
    <3> TAKE k \in 1..last0
    <3>1. k \in Nat \ {0} /\ k <= last0
      BY <1>1
    <3>2. CASE k = 1
      BY <1>6, <3>2
    <3>3. CASE (k - 1) * PerPage < n
      <4>1. k - 1 < n
        <5> DEFINE m == (k - 1) * PerPage
        <5>1. m \in Nat /\ m >= k - 1 /\ m < n
          BY <1>3, <3>1, <3>3
        <5> HIDE DEF m
        <5> QED BY <3>1, <5>1
      <4> QED BY <3>1, <4>1
    <3> QED BY <1>2, <3>1, <3>2, <3>3
  <2>3. {k \in 1..n : (k - 1) * PerPage < n} = 1..last0
    <3>1. \A k \in 1..last0 : k <= last0
      BY <1>1
    <3>2. \A k \in 1..n : k <= last0 => k \in 1..last0
      BY <1>1
    <3> QED BY <2>1, <2>2, <3>1, <3>2
  <2> QED BY <1>4, <1>6, <2>3 DEF last0
<1> QED BY <1>5, <1>6

\* Rows on a page are those with its ranks.
LEMMA SliceIsRanks ==
    ASSUME NEW S \in SUBSET Nat, IsFiniteSet(S), NEW k \in Nat \ {0}
    PROVE  Slice(S, PerPage, (k - 1) * PerPage)
           = {x \in S : LET rank == Cardinality({y \in S : y >= x})
                        IN  (k - 1) * PerPage < rank /\ rank <= k * PerPage}
<1>1. PerPage \in Nat \ {0} /\ (k - 1) * PerPage \in Nat
  BY ConstantsOk, RowsBefore
<1>2. k * PerPage = (k - 1) * PerPage + PerPage
  BY <1>1
<1>3. ASSUME NEW x \in S
      PROVE  /\ Newer(S, x) \in Nat
             /\ Cardinality({y \in S : y >= x}) = Newer(S, x) + 1
  <2> DEFINE above == {y \in S : y > x}
  <2>1. {y \in S : y >= x} = above \cup {x} /\ x \notin above
    <3>1. \A y \in S : y >= x <=> y > x \/ y = x
      OBVIOUS
    <3>2. ~(x > x)
      OBVIOUS
    <3> QED BY <3>1, <3>2
  <2>2. above \subseteq S
    OBVIOUS
  <2> HIDE DEF above
  <2>3. IsFiniteSet(above)
    BY <2>2, FS_Subset
  <2>4. Cardinality(above \cup {x}) = Cardinality(above) + 1 /\ Cardinality(above) \in Nat
    BY <2>1, <2>3, FS_AddElement, FS_CardinalityType
  <2> QED BY <2>1, <2>4 DEF Newer, above
<1> DEFINE off == (k - 1) * PerPage
<1>4. ASSUME NEW x \in S
      PROVE  (off <= Newer(S, x) /\ (PerPage = 0 \/ Newer(S, x) < off + PerPage))
             <=> (off < Newer(S, x) + 1 /\ Newer(S, x) + 1 <= off + PerPage)
  <2>1. off \in Nat /\ Newer(S, x) \in Nat
    BY <1>1, <1>3
  <2> HIDE DEF off
  <2> QED BY <1>1, <2>1
<1>5. Slice(S, PerPage, off)
      = {x \in S : off <= Newer(S, x) /\ (PerPage = 0 \/ Newer(S, x) < off + PerPage)}
  BY SliceIsPart
<1> QED BY <1>2, <1>3, <1>4, <1>5

\* When nothing is committed meanwhile, a page is exactly the one that was asked for, or
\* the last, with the total and the number of pages (handleSessions, handlePlans,
\* store.ListSessions, store.ListHistory).
THEOREM PagesExact == Spec => []PageExact
<1>1. Inv => PageExact
  <2> SUFFICES ASSUME Inv, Answered(200), handler \in Paged, "commit" \notin happened
               PROVE  PageExact
    BY DEF PageExact
  <2>1. code = 200 /\ Names(reads) = {}
    BY NoReads DEF Answered
  <2>2. /\ total = Cardinality(Matching)
        /\ list = Slice(Matching, PerPage, Offset)
        /\ last = LastPage(Cardinality(Matching))
        /\ page = IF AskedPage(query.n) <= last THEN AskedPage(query.n) ELSE last
    BY <2>1 DEF Inv, ExactInv
  <2>3. /\ Matching \in SUBSET Nat /\ IsFiniteSet(Matching)
        /\ total \in Nat /\ page \in Nat \ {0} /\ last \in Nat \ {0}
    BY MatchingType DEF Inv, TypeOK
  <2>4. AskedPage(query.n) \in Nat \ {0}
    <3>1. query.n \in Int
      BY DEF Inv, TypeOK, Query
    <3> QED BY <3>1, AskedPageType
  <2> DEFINE pages == IF total = 0 THEN {1} ELSE {k \in 1..total : (k - 1) * PerPage < total}
  <2>5. pages = 1..last /\ Cardinality(pages) = last
    BY <2>2, <2>3, PagesThereAre
  <2>6. list = {x \in Matching :
                  LET rank == Cardinality({y \in Matching : y >= x})
                  IN  (page - 1) * PerPage < rank /\ rank <= page * PerPage}
    BY <2>2, <2>3, SliceIsRanks DEF Offset
  <2> HIDE DEF pages
  <2>7. AskedPage(query.n) \in pages <=> AskedPage(query.n) <= last
    BY <2>3, <2>4, <2>5
  <2>8. page = IF AskedPage(query.n) \in pages THEN AskedPage(query.n) ELSE last
    BY <2>2, <2>7
  <2>9. last = Cardinality(pages)
    BY <2>5
  <2> QED BY <2>2, <2>6, <2>8, <2>9 DEF PageExact, pages
<1> QED BY <1>1, InitInv, InvNext, PTL DEF Spec
=============================================================================
