----------------------------- MODULE PlanningProofs -----------------------------
(* That the plans of internal/engine keep their promises, for any requests,     *)
(* catalogs, configurations and inputs.                                         *)
EXTENDS PlanningProperties, FiniteSetTheorems, SequenceTheorems, TLAPS

--------------------------------------------------------------------------------
(* Versions.                                                                    *)

LEMMA PartsAreText == ASSUME NEW text \in Text PROVE Parts(text) \in Text
<1> DEFINE t == Trimmed(text)
           n == Cardinality(BeforeDash(t))
<1>1. t \in Text
  BY DEF Trimmed, Text
<1>2. n \in Nat /\ n <= Len(t)
  <2>1. Len(t) \in Nat BY <1>1 DEF Text
  <2>2. ASSUME NEW m \in Nat PROVE IsFiniteSet(1 .. m) /\ Cardinality(1 .. m) = m
    <3>1. IsFiniteSet(1 .. m) /\ Cardinality(1 .. m) = IF 1 > m THEN 0 ELSE m - 1 + 1
      BY FS_Interval
    <3> QED BY <3>1
  <2>3. BeforeDash(t) \subseteq 1 .. Len(t) BY DEF BeforeDash
  <2>4. IsFiniteSet(1 .. Len(t)) /\ Cardinality(1 .. Len(t)) = Len(t)
    BY <2>1, <2>2
  <2> QED BY <2>3, <2>4, FS_Subset, FS_CardinalityType
<1>3. SubSeq(t, 1, n) \in Seq(Nat \cup {LetterV, Dash, Junk})
  BY <1>1, <1>2 DEF Text
<1> QED BY <1>3 DEF Parts, Text

LEMMA NumbersAreNatural ==
    ASSUME NEW text \in Text, Parses(text)
    PROVE  /\ Numbers(text)[1] \in Nat /\ Numbers(text)[2] \in Nat
           /\ Numbers(text)[3] \in Nat
<1> DEFINE p == Parts(text)
<1>1. p \in Seq(Nat \cup {LetterV, Dash, Junk}) BY PartsAreText DEF Text
<1>2. Len(p) \in Nat /\ Len(p) >= 2 BY <1>1 DEF Parses
<1>3. ASSUME NEW i \in {1, 2, 3}, i <= Len(p) PROVE p[i] \in Nat
  BY <1>1, <1>2, <1>3 DEF Parses
<1> HIDE DEF p
<1>4. p[1] \in Nat /\ p[2] \in Nat /\ (Len(p) >= 3 => p[3] \in Nat)
  BY <1>2, <1>3
<1> QED BY <1>4, <1>2 DEF Numbers, p

(* What the code compares is the order of versions (VersionAtLeast).            *)
LEMMA AtLeastIsReaches ==
    ASSUME NEW text \in Text, NEW minimum \in Text
    PROVE  VersionAtLeast(text, minimum) <=> Reaches(text, minimum)
<1> SUFFICES ASSUME Parses(text), Parses(minimum)
             PROVE  GreaterOrEqual(Numbers(text), Numbers(minimum)) <=>
                    \A k \in 1 .. 3 :
                       (\A j \in 1 .. k - 1 : Numbers(text)[j] = Numbers(minimum)[j])
                         => Numbers(text)[k] >= Numbers(minimum)[k]
  BY DEF VersionAtLeast, Reaches
<1> DEFINE v == Numbers(text)
           w == Numbers(minimum)
<1>1. v[1] \in Nat /\ v[2] \in Nat /\ v[3] \in Nat /\ w[1] \in Nat /\ w[2] \in Nat /\ w[3] \in Nat
  BY NumbersAreNatural
<1> HIDE DEF v, w
<1>2. GreaterOrEqual(v, w) <=>
        /\ v[1] >= w[1]
        /\ v[1] = w[1] => v[2] >= w[2]
        /\ v[1] = w[1] /\ v[2] = w[2] => v[3] >= w[3]
  BY <1>1 DEF GreaterOrEqual
<1>3. (\A k \in 1 .. 3 : (\A j \in 1 .. k - 1 : v[j] = w[j]) => v[k] >= w[k]) <=>
        /\ v[1] >= w[1]
        /\ v[1] = w[1] => v[2] >= w[2]
        /\ v[1] = w[1] /\ v[2] = w[2] => v[3] >= w[3]
  <2>1. 1 .. 3 = {1, 2, 3} /\ 1 .. 1 - 1 = {} /\ 1 .. 2 - 1 = {1} /\ 1 .. 3 - 1 = {1, 2}
    OBVIOUS
  <2>2. (\A k \in 1 .. 3 : (\A j \in 1 .. k - 1 : v[j] = w[j]) => v[k] >= w[k]) <=>
          /\ (\A j \in 1 .. 1 - 1 : v[j] = w[j]) => v[1] >= w[1]
          /\ (\A j \in 1 .. 2 - 1 : v[j] = w[j]) => v[2] >= w[2]
          /\ (\A j \in 1 .. 3 - 1 : v[j] = w[j]) => v[3] >= w[3]
    BY <2>1
  <2> QED BY <2>1, <2>2
<1> QED BY <1>2, <1>3 DEF v, w

LEMMA FloorIsText == SupportedMinimumVersion \in Text
BY DEF SupportedMinimumVersion, Text

LEMMA NothingDoesNotParse == <<>> \in Text /\ ~Parses(<<>>)
<1>1. <<>> \in Text BY DEF Text
<1>2. BeforeDash(<<>>) = {} BY DEF BeforeDash
<1>3. Cardinality(BeforeDash(<<>>)) = 0 BY <1>2, FS_EmptySet
<1>4. Len(SubSeq(<<>>, 1, 0)) = 0 BY <1>1 DEF Text
<1> QED BY <1>1, <1>3, <1>4 DEF Parses, Parts, Trimmed

--------------------------------------------------------------------------------
(* The Podman client.                                                           *)

CacheType == [apiData : BOOLEAN, apiSize : BOOLEAN, data : Reports \cup {Nil}, size : Nat]

ClientType ==
    /\ podman \in Reports /\ reported \subseteq Reports
    /\ cache \in CacheType
    /\ stage \in [Requests -> Stages]
    /\ told \in [Requests -> Text]
    /\ words \in [Requests -> SUBSET Words]
    /\ listed \in [Requests -> BOOLEAN] /\ raced \in [Requests -> BOOLEAN]

ReportedSizes == {Size[text] : text \in reported}

(* A word that is stored is of a version that was reported; a request that      *)
(* stores has left nothing unset behind it, so that no word is missing when     *)
(* nobody stores any more.                                                      *)
WordsAreReported ==
    /\ cache.data \in reported \cup {Nil} /\ cache.size \in ReportedSizes \cup {0}
    /\ \A r \in Requests : Storing(r) =>
          /\ told[r] \in reported
          /\ "data" \notin words[r] => cache.data \in reported
          /\ "size" \notin words[r] => cache.size \in ReportedSizes
    /\ cache.apiSize /\ (\A q \in Requests : ~Storing(q)) =>
          cache.data \in reported /\ cache.size \in ReportedSizes

(* With versions of one size, a request has one that was reported, or has none  *)
(* because it read the fields during a store.                                   *)
Informed ==
    OneSize => \A r \in Requests :
        /\ told[r] \in reported \cup {<<>>}
        /\ stage[r] \in {"list", "decide"} => told[r] \in reported \/ raced[r]

Client == ClientType /\ WordsAreReported /\ Informed

LEMMA SizesAreNatural ==
    ASSUME reported \subseteq Reports
    PROVE  /\ ReportedSizes \subseteq Nat
           /\ OneSize => \A text \in reported : ReportedSizes = {Size[text]}
BY SizeAssumption DEF ReportedSizes, OneSize

LEMMA OneSizeWasSo == ASSUME reported \subseteq reported' PROVE OneSize' => OneSize
BY DEF OneSize

LEMMA ClientBegins == ASSUME ClientInit PROVE Client
<1>1. <<>> \in Text BY NothingDoesNotParse
<1> QED BY <1>1 DEF ClientInit, Client, ClientType, WordsAreReported, Informed, Unset,
                    CacheType, Stages, Storing

(* What the two words make is a text; with versions of one size, it is the      *)
(* version whose data it is, or nothing.                                        *)
LEMMA WhatIsRead ==
    ASSUME Client, NEW text \in Read(cache.data, cache.size), cache.size = 0 \/ cache.data # Nil
    PROVE  /\ text \in Text
           /\ OneSize => text \in reported \cup {<<>>}
           /\ OneSize /\ cache.data \in reported /\ cache.size \in ReportedSizes => text \in reported
<1> USE DEF Client, ClientType, WordsAreReported
<1>1. CASE cache.size = 0
  <2>1. text = <<>> BY <1>1 DEF Read
  <2>2. ASSUME OneSize, cache.data \in reported, cache.size \in ReportedSizes
        PROVE  cache.data = <<>>
    BY <1>1, <2>2, SizesAreNatural, SizeAssumption
  <2> QED BY <2>1, <2>2, NothingDoesNotParse
<1>2. CASE cache.size # 0
  <2>1. cache.data \in reported /\ cache.size \in ReportedSizes BY <1>2
  <2>2. text = cache.data \/ text \in Torn[cache.data] BY <1>2 DEF Read
  <2>3. Torn[cache.data] \subseteq Text BY <2>1, SizeAssumption
  <2>4. text \in Text BY <2>1, <2>2, <2>3, ReportsAssumption
  <2>5. OneSize => cache.size = Size[cache.data] BY <2>1, SizesAreNatural
  <2>6. OneSize => text = cache.data BY <1>2, <2>5 DEF Read
  <2> QED BY <2>1, <2>4, <2>6
<1> QED BY <1>1, <1>2

LEMMA EnsuringKeepsClient == ASSUME Client, NEW r \in Requests, EnsureVersion(r) PROVE Client'
<1> USE DEF Client, ClientType, EnsureVersion, Go, Tell
<1>1. /\ raced' \in [Requests -> BOOLEAN] /\ stage' \in [Requests -> Stages]
      /\ UNCHANGED <<podman, cache, words, listed, reported>>
      /\ stage'[r] \in {"broken", "list"} /\ stage[r] = "ensure"
      /\ \A s \in Requests : s # r =>
            told'[s] = told[s] /\ stage'[s] = stage[s] /\ raced'[s] = raced[s]
  BY DEF Stages
<1>2. raced'[r] = (\E q \in Requests : Storing(q)) OBVIOUS
<1>3. \/ stage'[r] = "broken" /\ told' = told
      \/ /\ stage'[r] = "list"
         /\ cache.size = 0 \/ cache.data # Nil
         /\ \E text \in Read(cache.data, cache.size) : told' = [told EXCEPT ![r] = text]
  OBVIOUS
<1>4. told' \in [Requests -> Text] BY <1>3, WhatIsRead
<1>5. ReportedSizes' = ReportedSizes /\ OneSize' = OneSize BY <1>1 DEF ReportedSizes, OneSize
<1>6. \A s \in Requests : Storing(s)' <=> Storing(s) BY <1>1 DEF Storing
<1>7. WordsAreReported'
  <2>1. \A s \in Requests : Storing(s) => told'[s] = told[s] BY <1>1 DEF Storing
  <2> QED BY <1>1, <1>5, <1>6, <2>1 DEF WordsAreReported
<1>8. ASSUME OneSize
      PROVE  /\ told'[r] \in reported \cup {<<>>}
             /\ stage'[r] = "list" => told'[r] \in reported \/ raced'[r]
  <2>1. CASE stage'[r] = "broken" BY <1>3, <1>8, <2>1 DEF Informed
  <2>2. CASE stage'[r] = "list"
    <3>1. PICK text \in Read(cache.data, cache.size) : told' = [told EXCEPT ![r] = text]
      BY <1>3, <2>2
    <3>2. cache.size = 0 \/ cache.data # Nil BY <1>3, <2>2
    <3>3. raced'[r] \/ (cache.data \in reported /\ cache.size \in ReportedSizes)
      BY <1>2 DEF WordsAreReported
    <3> QED BY <1>8, <3>1, <3>2, <3>3, WhatIsRead
  <2> QED BY <1>1, <2>1, <2>2
<1>9. Informed' BY <1>1, <1>5, <1>8 DEF Informed
<1> QED BY <1>1, <1>4, <1>7, <1>9

LEMMA AskingKeepsClient == ASSUME Client, NEW r \in Requests, AskVersion(r) PROVE Client'
<1> USE DEF Client, ClientType, AskVersion, Go, Tell
<1>1. stage' \in [Requests -> Stages] /\ UNCHANGED <<podman, cache, listed, raced>>
      /\ ~cache.apiSize /\ reported \subseteq reported' /\ reported' \subseteq Reports
      /\ \A s \in Requests : s # r =>
            told'[s] = told[s] /\ stage'[s] = stage[s] /\ words'[s] = words[s]
  BY DEF Stages
<1>2. \/ stage'[r] = "broken" /\ told' = told
      \/ stage'[r] = "store" /\ told'[r] \in reported' /\ words'[r] = Words
  OBVIOUS
<1>3. told' \in [Requests -> Text] /\ words' \in [Requests -> SUBSET Words]
  BY ReportsAssumption
<1>4. ReportedSizes \subseteq ReportedSizes' BY <1>1 DEF ReportedSizes
<1>5. WordsAreReported'
  BY <1>1, <1>2, <1>4 DEF WordsAreReported, Storing, Words
<1>6. Informed' BY <1>1, <1>2, OneSizeWasSo DEF Informed
<1> QED BY <1>1, <1>3, <1>5, <1>6

LEMMA StoringKeepsClient ==
    ASSUME Client, NEW r \in Requests, NEW w \in Words, StoreWord(r, w) PROVE Client'
<1> USE DEF Client, ClientType, StoreWord, Go
<1>1. told[r] \in reported /\ told[r] \in Reports /\ told[r] # Nil
  BY ReportsAssumption DEF WordsAreReported
<1>2. Size[told[r]] \in ReportedSizes /\ Size[told[r]] \in Nat
  BY <1>1, SizeAssumption DEF ReportedSizes
<1>3. /\ cache' \in CacheType
      /\ cache'.data = IF w = "data" THEN told[r] ELSE cache.data
      /\ cache'.size = IF w = "size" THEN Size[told[r]] ELSE cache.size
  BY <1>1, <1>2 DEF Words, CacheType
<1>4. stage' \in [Requests -> Stages] /\ words' \in [Requests -> SUBSET Words]
      /\ stage[r] = "store" /\ stage'[r] \in {"store", "list"}
      /\ (stage'[r] = "list" => words[r] = {w})
      /\ words'[r] = words[r] \ {w}
      /\ \A s \in Requests : s # r => stage'[s] = stage[s] /\ words'[s] = words[s]
  BY DEF Stages, Storing
<1>5. UNCHANGED <<podman, told, listed, reported, raced>> OBVIOUS
<1>6. ReportedSizes' = ReportedSizes /\ OneSize' = OneSize
  BY <1>5 DEF ReportedSizes, OneSize
<1>7. /\ cache.data \in reported => cache'.data \in reported
      /\ cache.size \in ReportedSizes => cache'.size \in ReportedSizes
      /\ cache'.data \in reported \cup {Nil} /\ cache'.size \in ReportedSizes \cup {0}
  BY <1>1, <1>2, <1>3 DEF WordsAreReported
<1>8. /\ "data" \notin words'[r] => cache'.data \in reported
      /\ "size" \notin words'[r] => cache'.size \in ReportedSizes
  BY <1>1, <1>2, <1>3, <1>4, <1>7 DEF WordsAreReported, Storing
<1>9. ASSUME NEW s \in Requests, Storing(s)'
      PROVE  /\ told[s] \in reported
             /\ "data" \notin words'[s] => cache'.data \in reported
             /\ "size" \notin words'[s] => cache'.size \in ReportedSizes
  <2>1. Storing(s) BY <1>4, <1>9 DEF Storing
  <2> QED BY <1>4, <1>7, <1>8, <2>1 DEF WordsAreReported
<1>10. ASSUME \A q \in Requests : ~Storing(q)'
       PROVE  cache'.data \in reported /\ cache'.size \in ReportedSizes
  <2>1. stage'[r] = "list" BY <1>4, <1>10 DEF Storing
  <2> QED BY <1>4, <1>8, <2>1
<1>11. WordsAreReported' BY <1>5, <1>6, <1>7, <1>9, <1>10 DEF WordsAreReported
<1>12. Informed' BY <1>1, <1>4, <1>5, <1>6 DEF Informed
<1> QED BY <1>3, <1>4, <1>5, <1>11, <1>12

(* A step that moves no request into a store or out of one, and changes nothing *)
(* that the requests know.                                                      *)
LEMMA KnowledgeStays ==
    ASSUME Client, UNCHANGED <<told, cache, words, reported, raced>>,
           \A s \in Requests : Storing(s)' <=> Storing(s),
           \A s \in Requests : stage'[s] \in {"list", "decide"} => stage[s] \in {"list", "decide"}
    PROVE  (WordsAreReported /\ Informed)'
<1>1. ReportedSizes' = ReportedSizes /\ OneSize' = OneSize BY DEF ReportedSizes, OneSize
<1>2. WordsAreReported' BY <1>1 DEF Client, WordsAreReported
<1>3. Informed' BY <1>1 DEF Client, Informed
<1> QED BY <1>2, <1>3

LEMMA ListingKeepsClient == ASSUME Client, NEW r \in Requests, ListQuadlets(r) PROVE Client'
<1>1. ClientType' BY DEF Client, ClientType, ListQuadlets, cacheVars, Go, Stages
<1>2. /\ UNCHANGED <<told, cache, words, reported, raced>>
      /\ \A s \in Requests : Storing(s)' <=> Storing(s)
      /\ \A s \in Requests : stage'[s] \in {"list", "decide"} => stage[s] \in {"list", "decide"}
  BY DEF Client, ClientType, ListQuadlets, cacheVars, Go, Storing
<1> QED BY <1>1, <1>2, KnowledgeStays DEF Client

LEMMA DiscoveryKeepsClient == ASSUME Client, NEW r \in Requests, Discover(r) PROVE Client'
BY EnsuringKeepsClient, AskingKeepsClient, StoringKeepsClient, ListingKeepsClient DEF Discover

LEMMA IdleKeepsClient == ASSUME Client, UNCHANGED clientVars PROVE Client'
<1>1. ClientType' BY DEF Client, ClientType, clientVars, cacheVars
<1> QED BY <1>1, KnowledgeStays DEF Client, clientVars, cacheVars, Storing

LEMMA UpgradesKeepClient == ASSUME Client, PodmanChanges PROVE Client'
<1>1. ClientType' BY DEF Client, ClientType, PodmanChanges, cacheVars
<1> QED BY <1>1, KnowledgeStays DEF Client, PodmanChanges, cacheVars, Storing

LEMMA RestartKeepsClient == ASSUME Client, ClientRestart PROVE Client'
<1>1. <<>> \in Text BY NothingDoesNotParse
<1> QED BY <1>1 DEF Client, ClientType, WordsAreReported, Informed, ClientRestart, Unset,
                    CacheType, Stages, Storing

(* The planner moves a request on without touching the client's fields.         *)
LEMMA MovingKeepsClient ==
    ASSUME Client, NEW r \in Requests, NEW s \in {"ensure", "answered"}, Go(r, s),
           stage[r] # "store", UNCHANGED <<podman, told, listed, cacheVars>>
    PROVE  Client'
<1>1. ClientType' BY DEF Client, ClientType, Go, cacheVars, Stages
<1> QED BY <1>1, KnowledgeStays DEF Client, ClientType, Go, cacheVars, Storing

LEMMA ForgettingKeepsClient == ASSUME Client, NEW r \in Requests, Forget(r) PROVE Client'
<1>1. <<>> \in Text BY NothingDoesNotParse
<1>2. ClientType' BY <1>1 DEF Client, ClientType, Forget, Go, Stages
<1>3. ReportedSizes' = ReportedSizes /\ OneSize' = OneSize BY DEF Forget, ReportedSizes, OneSize
<1>4. \A s \in Requests : (Storing(s)' <=> Storing(s)) /\ (Storing(s) => told'[s] = told[s])
  BY DEF Client, ClientType, Forget, Go, Storing
<1>5. WordsAreReported' BY <1>3, <1>4 DEF Client, WordsAreReported, Forget
<1>6. Informed' BY <1>3 DEF Client, ClientType, Informed, Forget, Go
<1> QED BY <1>2, <1>5, <1>6 DEF Client

LEMMA DiscoveryIsTheRequests ==
    ASSUME Client, NEW r \in Requests, Discover(r)
    PROVE  /\ stage[r] \in {"ensure", "store", "list"}
           /\ stage'[r] \in {"store", "list", "decide", "broken"}
           /\ \A s \in Requests \ {r} :
                 stage'[s] = stage[s] /\ told'[s] = told[s] /\ raced'[s] = raced[s]
           /\ reported \subseteq reported'
<1> USE DEF Client, ClientType, Go, Tell
<1>1. CASE EnsureVersion(r) BY <1>1 DEF EnsureVersion
<1>2. CASE AskVersion(r) BY <1>2 DEF AskVersion
<1>3. CASE \E w \in Words : StoreWord(r, w) BY <1>3 DEF StoreWord, Storing
<1>4. CASE ListQuadlets(r) BY <1>4 DEF ListQuadlets, cacheVars
<1> QED BY <1>1, <1>2, <1>3, <1>4 DEF Discover

--------------------------------------------------------------------------------
(* The types of what is planned and stored.                                     *)

Names == UNION {InputNames(Editions[v]) : v \in CatalogVersions}
ParameterSets == UNION {[N -> Value] : N \in SUBSET Names}
DirectorySets ==
    {Directories(Editions[v], params, config) :
        v \in CatalogVersions, params \in ParameterSets, config \in Configurations} \cup {{}}

Records == [app : AppIds, removed : BOOLEAN, params : ParameterSets, edition : CatalogVersions]

Jobs ==
    [op : Operations \cup {"none"}, inst : Instances \cup {NoRecord},
     app : AppIds \cup {NoApp}, old : Records \cup {NoRecord}]

Plans ==
    [op : Operations, inst : Instances, app : AppIds, edition : CatalogVersions,
     params : ParameterSets, dirs : DirectorySets, keeps : BOOLEAN, fresh : BOOLEAN]

Stored ==
    /\ answer \in [Requests -> Answers]
    /\ catalog \in Catalogs /\ roots \in Configurations /\ Starts(catalog, roots)
    /\ instances \in [Instances -> Records \cup {NoRecord}]
    /\ job \in [Requests -> Jobs]
    /\ plan \in [Planners -> Plans \cup {NoPlan}]

Asking == {"ensure", "store", "list", "decide"}

(* A request that plans has an application of the catalog, and a record unless  *)
(* it installs; one that has its answer does nothing more.                      *)
Begun ==
    /\ \A r \in Planners : stage[r] \in Asking =>
          /\ job[r].op \in Operations /\ job[r].inst \in Instances
          /\ job[r].app \in AppIds /\ catalog[job[r].app] # NoApp
          /\ job[r].op # "install" => job[r].old \in Records
    /\ \A r \in Requests : answer[r] # "none" => stage[r] = "answered"

Plain(text) == ~Has(text, LineBreak) /\ ~Has(text, Nul)

(* What is assumed of the catalog of the image for one of the theorems.         *)
DefaultsArePlain == \A v \in CatalogVersions : \A in \in Editions[v].inputs : Plain(in.default)

LEMMA CatalogHasEditions ==
    ASSUME Stored, NEW x \in AppIds, catalog[x] # NoApp
    PROVE  catalog[x] \in CatalogVersions /\ ValidApplication(Editions[catalog[x]])
BY PlanningAssumption DEF Stored, Starts

LEMMA DefaultsAreValues ==
    ASSUME NEW v \in CatalogVersions, NEW n \in InputNames(Editions[v])
    PROVE  /\ DefaultOf(Editions[v], n) \in Value
           /\ DefaultsArePlain => Plain(DefaultOf(Editions[v], n))
<1>1. PICK in \in Editions[v].inputs : in.name = n BY DEF InputNames
<1>2. DefaultOf(Editions[v], n) \in {e.default : e \in Editions[v].inputs}
  BY <1>1 DEF DefaultOf
<1> QED BY <1>2, InputsAssumption DEF DefaultsArePlain

LEMMA ResolvedAreValues ==
    ASSUME NEW v \in CatalogVersions, NEW supplied,
           \A n \in DOMAIN supplied : supplied[n] \in Value
    PROVE  /\ Resolved(Editions[v], supplied) \in [InputNames(Editions[v]) -> Value]
           /\ Resolved(Editions[v], supplied) \in ParameterSets
<1>1. Resolved(Editions[v], supplied) \in [InputNames(Editions[v]) -> Value]
  BY DefaultsAreValues DEF Resolved
<1>2. InputNames(Editions[v]) \in SUBSET Names BY DEF Names
<1> QED BY <1>1, <1>2 DEF ParameterSets

LEMMA ParametersAreValues ==
    ASSUME NEW params \in ParameterSets, NEW n \in DOMAIN params PROVE params[n] \in Value
BY DEF ParameterSets

(* What a planner works with when it decides.                                   *)
LEMMA SuppliedAreValues ==
    ASSUME Stored, Begun, NEW r \in Planners, stage[r] = "decide", NEW body \in Bodies
    PROVE  \A n \in DOMAIN Supplied(r, body) : Supplied(r, body)[n] \in Value
<1>1. CASE job[r].op # "install" /\ DOMAIN body = {}
  <2>1. job[r].old \in Records BY <1>1 DEF Begun, Asking
  <2>2. job[r].old.params \in ParameterSets BY <2>1 DEF Records
  <2> QED BY <1>1, <2>2, ParametersAreValues DEF Supplied
<1>2. CASE ~(job[r].op # "install" /\ DOMAIN body = {})
  BY <1>2, InputsAssumption DEF Supplied
<1> QED BY <1>1, <1>2

LEMMA PlannedIsTyped ==
    ASSUME Stored, Begun, NEW r \in Planners, stage[r] = "decide", NEW body \in Bodies
    PROVE  /\ catalog[job[r].app] \in CatalogVersions /\ ValidApplication(App(r))
           /\ ParametersOf(r, body) \in [InputNames(App(r)) -> Value]
           /\ NewPlan(r, body) \in Plans
<1> DEFINE v == catalog[job[r].app]
<1>1. job[r].op \in Operations /\ job[r].inst \in Instances /\ job[r].app \in AppIds /\ v # NoApp
  BY DEF Begun, Asking
<1>2. v \in CatalogVersions /\ ValidApplication(App(r)) BY <1>1, CatalogHasEditions DEF App
<1>3. /\ ParametersOf(r, body) \in [InputNames(App(r)) -> Value]
      /\ ParametersOf(r, body) \in ParameterSets
  BY <1>2, SuppliedAreValues, ResolvedAreValues DEF ParametersOf, App
<1>4. DirectoriesOf(r, ParametersOf(r, body)) \in DirectorySets
  BY <1>2, <1>3 DEF DirectoriesOf, DirectorySets, App, Stored
<1>5. (DOMAIN body = {}) \in BOOLEAN /\ (instances[job[r].inst] = job[r].old) \in BOOLEAN
  OBVIOUS
<1>6. NewPlan(r, body) \in Plans BY <1>1, <1>2, <1>3, <1>4, <1>5 DEF NewPlan, Plans
<1> QED BY <1>2, <1>3, <1>6

--------------------------------------------------------------------------------
(* Each action keeps the types, and where each request is.                      *)

Shape == Client /\ Stored /\ Begun

LEMMA ShapeBegins == ASSUME Init PROVE Shape
<1>1. Client BY ClientBegins DEF Init
<1>2. Stored BY DEF Init, Stored, NoJob, Jobs, Answers
<1>3. Begun BY PlanningAssumption DEF Init, Begun, ClientInit, Asking
<1> QED BY <1>1, <1>2, <1>3 DEF Shape

LEMMA DiscoveryKeepsShape == ASSUME Shape, NEW r \in Requests, AskPodman(r) PROVE Shape'
<1> USE DEF Shape
<1>1. Client' BY DiscoveryKeepsClient DEF AskPodman
<1>2. Stored' BY DEF Stored, AskPodman, planVars
<1>3. Discover(r) /\ UNCHANGED planVars BY DEF AskPodman
<1>4. /\ stage[r] \in Asking /\ stage[r] # "answered"
      /\ \A s \in Requests \ {r} : stage'[s] = stage[s]
  BY <1>3, DiscoveryIsTheRequests DEF Asking
<1>5. Begun' BY <1>3, <1>4, PlanningAssumption DEF Begun, planVars
<1> QED BY <1>1, <1>2, <1>5

LEMMA BreakingKeepsShape == ASSUME Shape, NEW r \in Requests, Broken(r) PROVE Shape'
<1> USE DEF Shape, Broken, Answer
<1>1. Client' BY MovingKeepsClient
<1>2. Stored' BY DEF Stored, Answers
<1>3. Begun' BY DEF Begun, Asking, Go, Client, ClientType, Stored
<1> QED BY <1>1, <1>2, <1>3

LEMMA ReportingKeepsShape == ASSUME Shape, NEW r \in Requests, Capabilities(r) PROVE Shape'
<1> USE DEF Shape, Capabilities, Answer
<1>1. Client' BY MovingKeepsClient
<1>2. Stored' BY DEF Stored, Answers
<1>3. r \notin Planners /\ stage[r] \in {"idle", "decide"} OBVIOUS
<1>4. answer[r] = "none" BY <1>3 DEF Begun
<1>5. \A s \in Requests \ {r} : stage'[s] = stage[s] /\ answer'[s] = answer[s]
  BY DEF Go, Stored, Client, ClientType
<1>6. answer'[r] # "none" => stage'[r] = "answered"
  BY <1>3, <1>4 DEF Go, Client, ClientType
<1>7. Begun' BY <1>3, <1>5, <1>6, PlanningAssumption DEF Begun
<1> QED BY <1>1, <1>2, <1>7

LEMMA BeginningKeepsShape ==
    ASSUME Shape, NEW r \in Planners, NEW op \in Operations, NEW i \in Instances,
           NEW x \in AppIds \cup {NoApp}, BeginPlan(r, op, i, x)
    PROVE  Shape'
<1> USE DEF Shape, BeginPlan, Answer
<1>0. r \in Requests BY PlanningAssumption
<1>1. Client' BY <1>0, MovingKeepsClient
<1>2. Stored' /\ Begun'
  <2> DEFINE old == instances[i]
             new == [op |-> op, inst |-> i, app |-> AppOf(x, old), old |-> old]
  <2>1. CASE Startable(op, x, old)
    <3>1. old \in Records \cup {NoRecord} BY DEF Stored
    <3>2. AppOf(x, old) \in AppIds /\ catalog[AppOf(x, old)] # NoApp BY <2>1 DEF Startable
    <3>3. op # "install" => old \in Records BY <2>1, <3>1 DEF Startable
    <3>4. new \in Jobs BY <3>1, <3>2 DEF Jobs
    <3> HIDE DEF old
    <3>5. job' = [job EXCEPT ![r] = new] /\ answer' = answer /\ Go(r, "ensure")
      BY <2>1 DEF old
    <3>6. Stored' BY <3>4, <3>5 DEF Stored
    <3>7. stage[r] = "idle" /\ answer[r] = "none" BY <1>0 DEF Begun
    <3>8. job'[r] = new BY <1>0, <3>5 DEF Stored
    <3>9. \A s \in Requests \ {r} : stage'[s] = stage[s] /\ job'[s] = job[s]
      BY <3>5 DEF Stored, Go, Client, ClientType
    <3>10. Begun'
      BY <1>0, <3>2, <3>3, <3>5, <3>7, <3>8, <3>9, PlanningAssumption DEF Begun
    <3> QED BY <3>6, <3>10
  <2>2. CASE ~Startable(op, x, old)
    <3>1. answer' = [answer EXCEPT ![r] = "refused"] /\ job' = job /\ Go(r, "answered")
      BY <2>2
    <3>2. Stored' BY <3>1 DEF Stored, Answers
    <3>3. Begun' BY <1>0, <3>1 DEF Begun, Asking, Go, Client, ClientType, Stored
    <3> QED BY <3>2, <3>3
  <2> QED BY <2>1, <2>2
<1> QED BY <1>1, <1>2

LEMMA DecidingKeepsShape ==
    ASSUME Shape, NEW r \in Planners, NEW body \in Bodies, Decide(r, body) PROVE Shape'
<1> USE DEF Shape
<1>0. r \in Requests /\ stage[r] = "decide" BY PlanningAssumption DEF Decide
<1>1. PICK a \in Answers : Answer(r, a) BY DEF Decide, Verdict, Answers
<1>2. Client' BY <1>0, <1>1, MovingKeepsClient DEF Decide, Answer
<1>3. plan' = plan \/ plan' = [plan EXCEPT ![r] = NewPlan(r, body)] BY DEF Decide
<1>4. plan' \in [Planners -> Plans \cup {NoPlan}] BY <1>0, <1>3, PlannedIsTyped DEF Stored
<1>5. Stored' BY <1>1, <1>4 DEF Stored, Decide, Answer
<1>6. Begun' BY <1>0, <1>1 DEF Begun, Asking, Decide, Answer, Go, Client, ClientType, Stored
<1> QED BY <1>2, <1>5, <1>6

LEMMA ForgettingKeepsShape == ASSUME Shape, NEW r \in Requests, Forget(r) PROVE Shape'
<1> USE DEF Shape, Forget
<1>1. Client' BY ForgettingKeepsClient
<1>2. Stored' BY DEF Stored, Answers, NoJob, Jobs
<1>3. Begun' BY PlanningAssumption DEF Begun, Asking, Go, Client, ClientType, Stored
<1> QED BY <1>1, <1>2, <1>3

(* What an execution does to the records and to the plans.                      *)
LEMMA ExecutionIsTyped ==
    ASSUME Stored, NEW r \in Planners, ExecutePlan(r)
    PROVE  LET p == plan[r]
               old == instances[p.inst]
               new == IF p.op = "remove" THEN [old EXCEPT !.removed = TRUE]
                      ELSE [app |-> p.app, removed |-> FALSE, params |-> p.params,
                            edition |-> p.edition]
           IN  /\ p \in Plans
               /\ p.op # "install" => old \in Records
               /\ new \in Records
               /\ instances' = [instances EXCEPT ![p.inst] = new]
               /\ \A q \in Planners :
                     \/ plan'[q] = NoPlan
                     \/ /\ plan[q] \in Plans /\ plan[q] # NoPlan
                        /\ plan'[q] = IF plan[q].inst = p.inst THEN [plan[q] EXCEPT !.fresh = FALSE]
                                      ELSE plan[q]
               /\ plan' \in [Planners -> Plans \cup {NoPlan}]
<1> DEFINE p == plan[r]
           old == instances[p.inst]
           new == IF p.op = "remove" THEN [old EXCEPT !.removed = TRUE]
                  ELSE [app |-> p.app, removed |-> FALSE, params |-> p.params,
                        edition |-> p.edition]
<1>1. p \in Plans BY DEF Stored, ExecutePlan
<1>2. p.inst \in Instances /\ old \in Records \cup {NoRecord} BY <1>1 DEF Stored, Plans
<1>3. p.op # "install" => old \in Records BY <1>2 DEF ExecutePlan
<1>4. new \in Records
  <2>1. CASE p.op = "remove" BY <1>3, <2>1 DEF Records
  <2>2. CASE p.op # "remove" BY <1>1, <2>2 DEF Records, Plans
  <2> QED BY <2>1, <2>2
<1>5. instances' = [instances EXCEPT ![p.inst] = new] BY DEF ExecutePlan
<1>6. PICK kept \in BOOLEAN :
         plan' = [q \in Planners |->
             IF q = r /\ ~kept THEN NoPlan
             ELSE IF plan[q] # NoPlan /\ plan[q].inst = p.inst THEN [plan[q] EXCEPT !.fresh = FALSE]
             ELSE plan[q]]
  BY DEF ExecutePlan
<1>7. ASSUME NEW q \in Planners
      PROVE  \/ plan'[q] = NoPlan
             \/ /\ plan[q] \in Plans /\ plan[q] # NoPlan
                /\ plan'[q] = IF plan[q].inst = p.inst THEN [plan[q] EXCEPT !.fresh = FALSE]
                              ELSE plan[q]
  BY <1>6 DEF Stored
<1>8. \A q \in Planners : plan[q] \in Plans => [plan[q] EXCEPT !.fresh = FALSE] \in Plans
  BY DEF Plans
<1> HIDE DEF p, old, new
<1>9. plan' \in [Planners -> Plans \cup {NoPlan}]
  <2>1. \A q \in Planners : plan'[q] \in Plans \cup {NoPlan} BY <1>7, <1>8
  <2> QED BY <2>1, <1>6
<1>10. \A q \in Planners :
         \/ plan'[q] = NoPlan
         \/ /\ plan[q] \in Plans /\ plan[q] # NoPlan
            /\ plan'[q] = IF plan[q].inst = p.inst THEN [plan[q] EXCEPT !.fresh = FALSE]
                          ELSE plan[q]
  BY <1>7
<1> QED BY <1>1, <1>3, <1>4, <1>5, <1>9, <1>10 DEF p, old, new

LEMMA ExecutingKeepsShape == ASSUME Shape, NEW r \in Planners, ExecutePlan(r) PROVE Shape'
<1> USE DEF Shape
<1>1. UNCHANGED <<clientVars, catalog, roots, job, answer>> BY DEF ExecutePlan
<1>2. Client' BY <1>1, IdleKeepsClient
<1>3. instances' \in [Instances -> Records \cup {NoRecord}]
  BY ExecutionIsTyped DEF Stored
<1>4. plan' \in [Planners -> Plans \cup {NoPlan}] BY ExecutionIsTyped
<1>5. Stored' BY <1>1, <1>3, <1>4 DEF Stored
<1>6. Begun' BY <1>1 DEF Begun, clientVars
<1> QED BY <1>2, <1>5, <1>6

LEMMA RestartKeepsShape == ASSUME Shape, Restart PROVE Shape'
<1> USE DEF Shape, Restart
<1>1. Client' BY RestartKeepsClient
<1>2. Stored' BY DEF Stored, NoJob, Jobs, Answers
<1>3. Begun' BY PlanningAssumption DEF Begun, ClientRestart, Asking
<1> QED BY <1>1, <1>2, <1>3

LEMMA UpgradesKeepShape == ASSUME Shape, PodmanChanges, UNCHANGED planVars PROVE Shape'
<1> USE DEF Shape
<1>1. Client' BY UpgradesKeepClient
<1>2. stage' = stage BY DEF PodmanChanges
<1> QED BY <1>1, <1>2 DEF planVars, Stored, Begun

LEMMA ShapeStays == ASSUME Shape, [Next]_vars PROVE Shape'
<1>1. CASE UNCHANGED vars
  <2>1. Client' BY <1>1, IdleKeepsClient DEF Shape, vars
  <2> QED BY <1>1, <2>1 DEF Shape, vars, clientVars, cacheVars, planVars, Stored, Begun
<1>2. ASSUME NEW r \in Planners, CreatePlan(r) PROVE Shape'
  BY <1>2, BeginningKeepsShape, DecidingKeepsShape DEF CreatePlan
<1> QED BY <1>1, <1>2, DiscoveryKeepsShape, BreakingKeepsShape, ReportingKeepsShape,
           ForgettingKeepsShape, ExecutingKeepsShape, UpgradesKeepShape, RestartKeepsShape DEF Next

(* Every variable keeps its type, and the words of the shared fields are of     *)
(* versions that were reported.  TypeOK alone is not inductive, for a request   *)
(* that stores a version must have been told one (ensureVersion), and a plan is *)
(* made of a record and of an application of the catalog (CreatePlan).          *)
THEOREM Typed == Spec => []TypeOK
<1>1. Init => Shape BY ShapeBegins
<1>2. Shape /\ [Next]_vars => Shape' BY ShapeStays
<1>3. Shape => TypeOK
  <2>1. ASSUME Client
        PROVE  cache \in [apiData : BOOLEAN, apiSize : BOOLEAN, data : reported \cup {Nil},
                          size : {Size[text] : text \in reported} \cup {0}]
    BY <2>1 DEF Client, ClientType, CacheType, WordsAreReported, ReportedSizes
  <2> QED BY <2>1 DEF Shape, Client, ClientType, Stored, TypeOK
<1> QED BY <1>1, <1>2, <1>3, PTL DEF Spec

--------------------------------------------------------------------------------
(* An answer stays founded: what it was given for is not disturbed before the   *)
(* request is forgotten.                                                        *)

Undisturbed(s) ==
    /\ told'[s] = told[s] /\ raced'[s] = raced[s]
    /\ job'[s] = job[s] /\ answer'[s] = answer[s]
    /\ reported \subseteq reported' /\ catalog' = catalog /\ roots' = roots

Decides(s) == s \in Planners /\ \E body \in Bodies : Decide(s, body)

LEMMA AnswersStay ==
    ASSUME Shape, [Next]_vars, NEW s \in Requests
    PROVE  answer'[s] \notin {"planned", "unsupported"} \/ Undisturbed(s) \/ Decides(s)
<1> USE DEF Shape
<1>1. CASE UNCHANGED vars
  BY <1>1 DEF vars, clientVars, cacheVars, planVars, Undisturbed
<1>2. ASSUME NEW r \in Requests, AskPodman(r)
      PROVE  answer'[s] \notin {"planned", "unsupported"} \/ Undisturbed(s)
  <2>1. Discover(r) /\ UNCHANGED planVars BY <1>2 DEF AskPodman
  <2>2. stage[r] # "answered" BY <2>1, DiscoveryIsTheRequests
  <2>3. answer[r] = "none" BY <2>2 DEF Begun
  <2>4. reported \subseteq reported'
        /\ (s # r => told'[s] = told[s] /\ raced'[s] = raced[s])
    BY <2>1, DiscoveryIsTheRequests
  <2> QED BY <2>1, <2>3, <2>4 DEF planVars, Undisturbed
<1>3. ASSUME NEW r \in Requests, Broken(r) \/ Capabilities(r)
      PROVE  answer'[s] \notin {"planned", "unsupported"} \/ Undisturbed(s)
  BY <1>3 DEF Broken, Capabilities, Answer, cacheVars, Undisturbed, Stored
<1>4. ASSUME NEW r \in Requests, Forget(r)
      PROVE  answer'[s] \notin {"planned", "unsupported"} \/ Undisturbed(s)
  BY <1>4 DEF Forget, Undisturbed, Stored, Client, ClientType
<1>5. ASSUME NEW r \in Planners, NEW op \in Operations, NEW i \in Instances,
             NEW x \in AppIds \cup {NoApp}, BeginPlan(r, op, i, x)
      PROVE  answer'[s] \notin {"planned", "unsupported"} \/ Undisturbed(s)
  <2>1. r \in Requests /\ answer[r] = "none"
    BY <1>5, PlanningAssumption DEF Begun, BeginPlan
  <2>2. answer' = answer \/ answer' = [answer EXCEPT ![r] = "refused"]
    BY <1>5 DEF BeginPlan, Answer
  <2>3. s # r => job'[s] = job[s] BY <1>5 DEF BeginPlan, Stored
  <2> QED BY <1>5, <2>1, <2>2, <2>3 DEF BeginPlan, cacheVars, Undisturbed, Stored
<1>6. ASSUME NEW r \in Planners, NEW body \in Bodies, Decide(r, body)
      PROVE  Undisturbed(s) \/ Decides(s)
  <2>1. s = r => Decides(s) BY <1>6 DEF Decides
  <2>2. s # r => answer'[s] = answer[s] BY <1>6 DEF Decide, Answer, Stored
  <2> QED BY <1>6, <2>1, <2>2 DEF Decide, cacheVars, Undisturbed
<1>7. ASSUME NEW r \in Planners, ExecutePlan(r) PROVE Undisturbed(s)
  BY <1>7 DEF ExecutePlan, clientVars, cacheVars, Undisturbed
<1>8. ASSUME PodmanChanges, UNCHANGED planVars PROVE Undisturbed(s)
  BY <1>8 DEF PodmanChanges, cacheVars, planVars, Undisturbed
<1>9. ASSUME Restart PROVE answer'[s] = "none"
  BY <1>9 DEF Restart
<1> QED BY <1>1, <1>2, <1>3, <1>4, <1>5, <1>6, <1>7, <1>8, <1>9 DEF Next, CreatePlan

LEMMA VersionsAreText ==
    ASSUME Shape, NEW r \in Planners, stage[r] = "decide"
    PROVE  /\ told[r] \in Text /\ App(r).minPodmanVersion \in Text
           /\ OneSize => told[r] \in reported \/ (raced[r] /\ told[r] = <<>>)
<1>1. r \in Requests BY PlanningAssumption
<1>2. OneSize => told[r] \in reported \/ (raced[r] /\ told[r] = <<>>)
  BY <1>1 DEF Shape, Client, Informed
<1>3. told[r] \in Text BY <1>1 DEF Shape, Client, ClientType
<1>4. catalog[job[r].app] \in CatalogVersions
  BY CatalogHasEditions DEF Shape, Begun, Asking
<1>5. App(r).minPodmanVersion \in Text BY <1>4, InputsAssumption DEF App
<1> QED BY <1>2, <1>3, <1>5

LEMMA VerdictIsFounded ==
    ASSUME Shape, NEW r \in Planners, NEW body \in Bodies, stage[r] = "decide"
    PROVE  /\ Verdict(r, body) = "planned" =>
                Enough(told[r], App(r)) /\ (OneSize => told[r] \in reported)
           /\ Verdict(r, body) = "unsupported" /\ OneSize =>
                raced[r] \/ \E text \in reported : ~Enough(text, App(r))
<1>1. /\ VersionAtLeast(told[r], SupportedMinimumVersion)
            <=> Reaches(told[r], SupportedMinimumVersion)
      /\ VersionAtLeast(told[r], App(r).minPodmanVersion)
            <=> Reaches(told[r], App(r).minPodmanVersion)
  BY VersionsAreText, FloorIsText, AtLeastIsReaches
<1>2. Verdict(r, body) = "planned" => Enough(told[r], App(r))
  BY <1>1 DEF Verdict, IsSupportedVersion, Enough
<1>3. Verdict(r, body) = "unsupported" => ~Enough(told[r], App(r))
  BY <1>1 DEF Verdict, IsSupportedVersion, Enough
<1>4. Enough(told[r], App(r)) => told[r] # <<>>
  BY NothingDoesNotParse DEF Enough, Reaches
<1> QED BY <1>2, <1>3, <1>4, VersionsAreText

Founded ==
    /\ \A r \in Planners :
          answer[r] = "planned" => Enough(told[r], App(r)) /\ (OneSize => told[r] \in reported)
    /\ RefusalsAreFounded

LEMMA FoundedStays == ASSUME Shape, Founded, [Next]_vars PROVE Founded'
<1>1. ASSUME NEW s \in Requests, Undisturbed(s)
      PROVE  App(s)' = App(s) /\ told'[s] = told[s] /\ raced'[s] = raced[s]
             /\ answer'[s] = answer[s] /\ reported \subseteq reported' /\ (OneSize' => OneSize)
  BY <1>1, OneSizeWasSo DEF Undisturbed, App
<1>2. ASSUME NEW s \in Planners, Decides(s)
      PROVE  /\ App(s)' = App(s) /\ told'[s] = told[s] /\ raced'[s] = raced[s] /\ reported' = reported
             /\ answer'[s] = "planned" =>
                  Enough(told[s], App(s)) /\ (OneSize => told[s] \in reported)
             /\ answer'[s] = "unsupported" /\ OneSize =>
                  raced[s] \/ \E text \in reported : ~Enough(text, App(s))
             /\ OneSize' => OneSize
  <2>1. PICK body \in Bodies : Decide(s, body) BY <1>2 DEF Decides
  <2>2. s \in Requests BY PlanningAssumption
  <2>3. stage[s] = "decide" BY <2>1 DEF Decide
  <2>4. answer'[s] \in {Verdict(s, body), "failed"}
    BY <2>1, <2>2 DEF Decide, Answer, Shape, Stored
  <2>5. UNCHANGED <<told, raced, reported, job, catalog>> BY <2>1 DEF Decide, cacheVars
  <2>6. App(s)' = App(s) BY <2>5 DEF App
  <2>7. OneSize' => OneSize BY <2>5, OneSizeWasSo
  <2> QED BY <2>3, <2>4, <2>5, <2>6, <2>7, VerdictIsFounded
<1>3. ASSUME NEW r \in Planners, answer'[r] = "planned"
      PROVE  Enough(told'[r], App(r)') /\ (OneSize' => told'[r] \in reported')
  BY <1>1, <1>2, <1>3, AnswersStay, PlanningAssumption DEF Founded
<1>4. ASSUME NEW r \in Requests, answer'[r] = "unsupported", OneSize'
      PROVE  raced'[r] \/ \E text \in reported' : ~Enough(text, App(r)')
  <2>1. CASE Undisturbed(r)
    BY <1>1, <1>4, <2>1 DEF Founded, RefusalsAreFounded
  <2>2. CASE Decides(r)
    <3>1. r \in Planners BY <2>2 DEF Decides
    <3> QED BY <1>2, <1>4, <2>2, <3>1
  <2> QED BY <1>4, <2>1, <2>2, AnswersStay
<1>5. RefusalsAreFounded' BY <1>4 DEF RefusalsAreFounded
<1>6. ASSUME NEW r \in Planners PROVE Enough(told[r], App(r))' <=> Enough(told'[r], App(r)')
  BY DEF Enough
<1> QED BY <1>3, <1>5, <1>6 DEF Founded

(* A plan is made only for a version at both floors; and it is one that Podman  *)
(* reported, if no two of different sizes were, for any number of concurrent    *)
(* requests and in whatever order they store the words of the shared fields     *)
(* (ensureVersion, DiscoverCapabilities, CreatePlan).                           *)
THEOREM PlansAreSupportedAlways == Spec => []PlansAreSupported
<1>1. Init => Shape /\ Founded
  BY ShapeBegins, PlanningAssumption DEF Init, Founded, RefusalsAreFounded
<1>2. Shape /\ Founded /\ [Next]_vars => (Shape /\ Founded)' BY ShapeStays, FoundedStays
<1>3. Founded => PlansAreSupported BY DEF Founded, PlansAreSupported, Planned
<1> QED BY <1>1, <1>2, <1>3, PTL DEF Spec

(* A refusal for the version of Podman has its reason, or raced with a store of *)
(* the version, if no two of different sizes were reported (ensureVersion).     *)
THEOREM RefusalsAreFoundedAlways == Spec => []RefusalsAreFounded
<1>1. Init => Shape /\ Founded
  BY ShapeBegins, PlanningAssumption DEF Init, Founded, RefusalsAreFounded
<1>2. Shape /\ Founded /\ [Next]_vars => (Shape /\ Founded)' BY ShapeStays, FoundedStays
<1>3. Founded => RefusalsAreFounded BY DEF Founded
<1> QED BY <1>1, <1>2, <1>3, PTL DEF Spec

--------------------------------------------------------------------------------
(* Directories.                                                                 *)

LEMMA WayDown ==
    ASSUME NEW way \in Seq(Components), way # <<>>,
           \A i \in DOMAIN way : way[i] \notin {Empty, Dot, DotDot}
    PROVE  Depth(way) > 0
<1>1. {i \in DOMAIN way : way[i] \notin {Empty, Dot, DotDot}} = 1 .. Len(way) OBVIOUS
<1>2. {i \in DOMAIN way : way[i] = DotDot} = {} OBVIOUS
<1>3. Len(way) \in Nat /\ Len(way) > 0 OBVIOUS
<1>4. Cardinality(1 .. Len(way)) = Len(way) BY <1>3, FS_Interval
<1>5. Cardinality({}) = 0 BY FS_EmptySet
<1>6. Depth(way) = Cardinality(1 .. Len(way)) - Cardinality({}) BY <1>1, <1>2 DEF Depth
<1> QED BY <1>3, <1>4, <1>5, <1>6

(* What Resolve accepts leads down from any root it is joined to.               *)
LEMMA ResolvedIsBelow ==
    ASSUME NEW root \in Seq(Components), NEW rel \in Value, Resolves(rel)
    PROVE  /\ Below(root \o rel, root)
           /\ SubSeq(root \o rel, Len(root) + 1, Len(root \o rel)) = rel
<1> DEFINE path == root \o rel
           n == Len(root)
<1>1. rel \in Seq(Components) /\ rel # <<>> BY DEF Value
<1>2. path \in Seq(Components) BY <1>1
<1>3. n \in Nat /\ Len(rel) \in Nat /\ Len(rel) > 0 /\ Len(path) = n + Len(rel) BY <1>1
<1>4. \A i \in 1 .. n : path[i] = root[i] BY <1>1
<1>5. \A i \in 1 .. Len(rel) : path[n + i] = rel[i] BY <1>1
<1>6. IsPrefix(root, path) /\ path # root BY <1>2, <1>3, <1>4 DEF IsPrefix
<1>7. \A i \in DOMAIN rel : rel[i] \notin {Empty, Dot, DotDot} BY DEF Resolves, Has
<1>8. ASSUME NEW k \in n + 1 .. Len(path) PROVE Depth(SubSeq(path, n + 1, k)) > 0
  <2> DEFINE way == SubSeq(path, n + 1, k)
  <2>1. k \in Nat /\ k - n \in 1 .. Len(rel) BY <1>3
  <2>2. way \in Seq(Components) /\ Len(way) = k - n BY <1>2, <1>3, <2>1
  <2>3. \A i \in 1 .. k - n : way[i] = path[n + i] BY <1>2, <1>3, <2>1
  <2>4. \A i \in 1 .. k - n : way[i] = rel[i] BY <1>5, <2>1, <2>3
  <2> HIDE DEF way
  <2>5. DOMAIN way = 1 .. k - n /\ DOMAIN rel = 1 .. Len(rel) BY <1>1, <2>2
  <2>6. \A i \in 1 .. k - n : i \in 1 .. Len(rel) BY <1>3, <2>1
  <2>7. \A i \in DOMAIN way : way[i] \notin {Empty, Dot, DotDot}
    BY <1>7, <2>4, <2>5, <2>6
  <2>8. Len(way) > 0 BY <1>3, <2>1, <2>2
  <2>9. way # <<>> BY <2>8
  <2>10. Depth(way) > 0 BY <2>2, <2>7, <2>9, WayDown
  <2> QED BY <2>10 DEF way
<1>9. SubSeq(path, n + 1, Len(path)) = rel
  <2> DEFINE way == SubSeq(path, n + 1, Len(path))
  <2>1. way \in Seq(Components) /\ Len(way) = Len(rel) BY <1>2, <1>3
  <2>2. \A i \in 1 .. Len(rel) : way[i] = path[n + i] BY <1>2, <1>3
  <2>3. \A i \in 1 .. Len(rel) : way[i] = rel[i] BY <1>5, <2>2
  <2> QED BY <1>1, <2>1, <2>3
<1> QED BY <1>6, <1>8, <1>9 DEF Below

(* Each directory is below an approved root, at one place of host and agent.    *)
AllBelow(dirs, config) ==
    \A dir \in dirs : \E root \in config :
        /\ root.id = dir.root
        /\ Below(dir.host, root.host) /\ Below(dir.agent, root.agent)
        /\ SubSeq(dir.host, Len(root.host) + 1, Len(dir.host))
             = SubSeq(dir.agent, Len(root.agent) + 1, Len(dir.agent))

LEMMA DirectoriesAreBelow ==
    ASSUME NEW config \in Configurations, NEW app, ValidApplication(app),
           NEW params \in [InputNames(app) -> Value],
           DirectoriesResolve(app, params, config)
    PROVE  AllBelow(Directories(app, params, config), config)
<1> SUFFICES ASSUME NEW dir \in Directories(app, params, config)
             PROVE  \E root \in config :
                      /\ root.id = dir.root
                      /\ Below(dir.host, root.host) /\ Below(dir.agent, root.agent)
                      /\ SubSeq(dir.host, Len(root.host) + 1, Len(dir.host))
                           = SubSeq(dir.agent, Len(root.agent) + 1, Len(dir.agent))
  BY DEF AllBelow
<1>0. PICK d \in app.directories :
        LET r == CHOOSE root \in config : root.id = d.root
            rel == params[d.input]
        IN  dir = [root |-> r.id, rel |-> rel, host |-> r.host \o rel, agent |-> r.agent \o rel,
                   suffix |-> MountSuffix(d)]
  BY DEF Directories
<1> DEFINE r == CHOOSE root \in config : root.id = d.root
           rel == params[d.input]
<1>1. r \in config /\ r.id = d.root BY DEF DirectoriesResolve
<1>2. r.host \in Seq(Components) /\ r.agent \in Seq(Components)
  BY <1>1, InputsAssumption DEF Value
<1>3. rel \in Value BY DEF ValidApplication
<1>4. Resolves(rel) BY DEF DirectoriesResolve
<1> HIDE DEF r, rel
<1>5. /\ Below(r.host \o rel, r.host) /\ Below(r.agent \o rel, r.agent)
      /\ SubSeq(r.host \o rel, Len(r.host) + 1, Len(r.host \o rel)) = rel
      /\ SubSeq(r.agent \o rel, Len(r.agent) + 1, Len(r.agent \o rel)) = rel
  BY <1>2, <1>3, <1>4, ResolvedIsBelow
<1>6. dir.root = r.id /\ dir.host = r.host \o rel /\ dir.agent = r.agent \o rel
  BY <1>0 DEF r, rel
<1> QED BY <1>1, <1>5, <1>6

Placed ==
    \A r \in Planners : answer[r] = "planned" /\ plan[r] # NoPlan => AllBelow(plan[r].dirs, roots)

(* The directories of a saved plan do not change until it is executed.          *)
LEMMA PlansStay ==
    ASSUME Shape, [Next]_vars, NEW s \in Planners
    PROVE  \/ plan'[s] = NoPlan
           \/ plan'[s] = plan[s]
           \/ /\ plan[s] \in Plans /\ plan[s] # NoPlan
              /\ plan'[s] = [plan[s] EXCEPT !.fresh = FALSE]
           \/ \E body \in Bodies :
                 Decide(s, body) /\ Verdict(s, body) = "planned" /\ plan'[s] = NewPlan(s, body)
<1> USE DEF Shape
<1>1. CASE UNCHANGED vars BY <1>1 DEF vars, planVars
<1>2. CASE \E r \in Requests : AskPodman(r) \/ Broken(r) \/ Capabilities(r) \/ Forget(r)
  BY <1>2 DEF AskPodman, Broken, Capabilities, Forget, planVars
<1>3. ASSUME NEW r \in Planners, CreatePlan(r)
      PROVE  \/ plan'[s] = plan[s]
             \/ \E body \in Bodies :
                   Decide(s, body) /\ Verdict(s, body) = "planned" /\ plan'[s] = NewPlan(s, body)
  BY <1>3 DEF CreatePlan, BeginPlan, Decide, Stored
<1>4. ASSUME NEW r \in Planners, ExecutePlan(r)
      PROVE  \/ plan'[s] = NoPlan
             \/ plan'[s] = plan[s]
             \/ /\ plan[s] \in Plans /\ plan[s] # NoPlan
                /\ plan'[s] = [plan[s] EXCEPT !.fresh = FALSE]
  BY <1>4, ExecutionIsTyped
<1>5. CASE PodmanChanges /\ UNCHANGED planVars BY <1>5 DEF planVars
<1>6. CASE Restart BY <1>6 DEF Restart
<1> QED BY <1>1, <1>2, <1>3, <1>4, <1>5, <1>6 DEF Next

LEMMA PlacedStays == ASSUME Shape, Placed, [Next]_vars PROVE Placed'
<1> SUFFICES ASSUME NEW r \in Planners, answer'[r] = "planned", plan'[r] # NoPlan
             PROVE  AllBelow(plan'[r].dirs, roots')
  BY DEF Placed, AllBelow
<1>0. r \in Requests BY PlanningAssumption
<1>1. ASSUME NEW body \in Bodies, Decide(r, body), Verdict(r, body) = "planned",
             plan'[r] = NewPlan(r, body)
      PROVE  AllBelow(plan'[r].dirs, roots')
  <2> DEFINE params == ParametersOf(r, body)
  <2>1. stage[r] = "decide" /\ roots' = roots BY <1>1 DEF Decide
  <2>2. params \in [InputNames(App(r)) -> Value] /\ ValidApplication(App(r))
    BY <2>1, PlannedIsTyped DEF Shape
  <2>3. plan'[r].dirs = DirectoriesOf(r, params) BY <1>1 DEF NewPlan
  <2>4. Placeable(r, params) BY <1>1 DEF Verdict
  <2>5. CASE job[r].op = "remove" BY <2>3, <2>5 DEF DirectoriesOf, AllBelow
  <2>6. CASE job[r].op # "remove"
    <3>1. DirectoriesResolve(App(r), params, roots) BY <2>4, <2>6 DEF Placeable
    <3>2. roots \in Configurations BY DEF Shape, Stored
    <3>3. AllBelow(Directories(App(r), params, roots), roots)
      BY <2>2, <3>1, <3>2, DirectoriesAreBelow
    <3> QED BY <2>1, <2>3, <2>6, <3>3 DEF DirectoriesOf
  <2> QED BY <2>5, <2>6
<1>2. ASSUME \/ plan'[r] = plan[r]
             \/ /\ plan[r] \in Plans /\ plan[r] # NoPlan
                /\ plan'[r] = [plan[r] EXCEPT !.fresh = FALSE],
             Undisturbed(r)
      PROVE  AllBelow(plan'[r].dirs, roots')
  <2>1. answer[r] = "planned" /\ roots' = roots BY <1>2 DEF Undisturbed
  <2>2. CASE plan'[r] = plan[r] BY <2>1, <2>2 DEF Placed
  <2>3. CASE /\ plan[r] \in Plans /\ plan[r] # NoPlan
             /\ plan'[r] = [plan[r] EXCEPT !.fresh = FALSE]
    <3>1. plan'[r].dirs = plan[r].dirs BY <2>3 DEF Plans
    <3> QED BY <2>1, <2>3, <3>1 DEF Placed
  <2> QED BY <1>2, <2>2, <2>3
<1>3. CASE Undisturbed(r) BY <1>1, <1>2, <1>3, PlansStay
<1>4. CASE Decides(r)
  <2>1. PICK body \in Bodies : Decide(r, body) BY <1>4 DEF Decides
  <2>2. Verdict(r, body) = "planned" /\ plan'[r] = NewPlan(r, body)
    BY <1>0, <2>1 DEF Decide, Answer, Shape, Stored
  <2> QED BY <1>1, <2>1, <2>2
<1> QED BY <1>0, <1>3, <1>4, AnswersStay

(* The directories of a plan are strictly below an approved root, at the same   *)
(* place on the host and in the agent, whatever the catalog, the configuration  *)
(* and the client say (validateInput, paths.Resolve, resolveDirs).              *)
THEOREM PlansStayBelowRootsAlways == Spec => []PlansStayBelowRoots
<1>1. Init => Shape /\ Placed
  BY ShapeBegins DEF Init, Placed
<1>2. Shape /\ Placed /\ [Next]_vars => (Shape /\ Placed)' BY ShapeStays, PlacedStays
<1>3. Placed => PlansStayBelowRoots BY DEF Placed, PlansStayBelowRoots, Planned, AllBelow
<1> QED BY <1>1, <1>2, <1>3, PTL DEF Spec

--------------------------------------------------------------------------------
(* Parameters.                                                                  *)

(* The parameters of an edition resolve to themselves.                          *)
Settled(edition, params) ==
    /\ params \in [InputNames(Editions[edition]) -> Value]
    /\ \A in \in Editions[edition].inputs :
          /\ IF params[in.name] = None THEN ~in.required ELSE ValidInput(in.type, params[in.name])
          /\ DefaultsArePlain => Plain(params[in.name])

(* A plan to update that named no parameters, and whose record was not replaced *)
(* since, has those of the record.                                              *)
Keeps(p, rec) ==
    p.op = "update" /\ p.keeps /\ p.fresh =>
        rec \in Records /\ \A n \in DOMAIN rec.params : p.params[n] = rec.params[n]

Kept ==
    /\ \A r \in Planners : plan[r] # NoPlan =>
          Settled(plan[r].edition, plan[r].params) /\ Keeps(plan[r], instances[plan[r].inst])
    /\ \A i \in Instances : instances[i] # NoRecord => Settled(instances[i].edition, instances[i].params)

LEMMA NewPlanIsKept ==
    ASSUME Shape, NEW r \in Planners, NEW body \in Bodies, stage[r] = "decide",
           Verdict(r, body) = "planned"
    PROVE  LET p == NewPlan(r, body) IN
           Settled(p.edition, p.params) /\ Keeps(p, instances[p.inst])
<1> DEFINE p == NewPlan(r, body)
           supplied == Supplied(r, body)
           v == catalog[job[r].app]
           params == ParametersOf(r, body)
<1>1. v \in CatalogVersions /\ params \in [InputNames(App(r)) -> Value] /\ App(r) = Editions[v]
  BY PlannedIsTyped DEF App, Shape
<1>2. Accepts(App(r), supplied) BY DEF Verdict
<1>3. params = Resolved(App(r), supplied) BY DEF ParametersOf
<1>4. ASSUME NEW n \in InputNames(App(r))
      PROVE  params[n] = IF n \in DOMAIN supplied THEN supplied[n] ELSE DefaultOf(App(r), n)
  BY <1>3 DEF Resolved
<1>5. p.edition = v /\ p.params = params /\ p.op = job[r].op /\ p.inst = job[r].inst
      /\ p.keeps = (DOMAIN body = {}) /\ p.fresh = (instances[job[r].inst] = job[r].old)
  BY DEF NewPlan
<1>6. ASSUME NEW in \in App(r).inputs
      PROVE  /\ IF params[in.name] = None THEN ~in.required ELSE ValidInput(in.type, params[in.name])
             /\ DefaultsArePlain => Plain(params[in.name])
  <2>1. in.name \in InputNames(App(r)) BY DEF InputNames
  <2>2. IF params[in.name] = None THEN ~in.required ELSE ValidInput(in.type, params[in.name])
    BY <1>2, <1>3 DEF Accepts
  <2>3. CASE in.name \in DOMAIN supplied
    <3>1. params[in.name] = supplied[in.name] BY <1>4, <2>1, <2>3
    <3>2. Plain(supplied[in.name]) BY <1>2, <2>3 DEF Accepts, Plain
    <3> QED BY <2>2, <3>1, <3>2
  <2>4. CASE in.name \notin DOMAIN supplied
    <3>1. params[in.name] = DefaultOf(App(r), in.name) BY <1>4, <2>1, <2>4
    <3>2. DefaultsArePlain => Plain(DefaultOf(App(r), in.name))
      BY <1>1, <2>1, DefaultsAreValues
    <3> QED BY <2>2, <3>1, <3>2
  <2> QED BY <2>3, <2>4
<1>7. Settled(v, params) BY <1>1, <1>6 DEF Settled
<1>8. ASSUME p.op = "update", p.keeps, p.fresh
      PROVE  /\ instances[p.inst] \in Records
             /\ \A n \in DOMAIN instances[p.inst].params : p.params[n] = instances[p.inst].params[n]
  <2>1. job[r].op = "update" /\ DOMAIN body = {} /\ instances[job[r].inst] = job[r].old
    BY <1>5, <1>8
  <2>2. job[r].old \in Records BY <2>1 DEF Shape, Begun, Asking
  <2>3. supplied = job[r].old.params BY <2>1 DEF Supplied
  <2>4. \A n \in DOMAIN supplied : n \in InputNames(App(r)) BY <1>2 DEF Accepts
  <2>5. \A n \in DOMAIN supplied : params[n] = supplied[n] BY <1>4, <2>4
  <2> HIDE DEF supplied, params, p
  <2> QED BY <1>5, <2>1, <2>2, <2>3, <2>5
<1> HIDE DEF p, supplied, params, v
<1>9. Keeps(p, instances[p.inst]) BY <1>8 DEF Keeps
<1> QED BY <1>5, <1>7, <1>9 DEF p

LEMMA KeptStays == ASSUME Shape, Kept, [Next]_vars PROVE Kept'
<1>1. CASE \E r \in Planners : ExecutePlan(r)
  <2>1. PICK r \in Planners : ExecutePlan(r) BY <1>1
  <2> DEFINE p == plan[r]
             old == instances[p.inst]
             new == IF p.op = "remove" THEN [old EXCEPT !.removed = TRUE]
                    ELSE [app |-> p.app, removed |-> FALSE, params |-> p.params,
                          edition |-> p.edition]
  <2>2. /\ p \in Plans /\ p # NoPlan
        /\ p.op # "install" => old \in Records /\ old # NoRecord
        /\ new \in Records /\ instances' = [instances EXCEPT ![p.inst] = new]
    BY <2>1, ExecutionIsTyped DEF Shape, ExecutePlan
  <2>3. \A q \in Planners :
           \/ plan'[q] = NoPlan
           \/ /\ plan[q] \in Plans /\ plan[q] # NoPlan
              /\ plan'[q] = IF plan[q].inst = p.inst THEN [plan[q] EXCEPT !.fresh = FALSE]
                            ELSE plan[q]
    BY <2>1, ExecutionIsTyped DEF Shape
  <2>4. p.inst \in Instances /\ \A i \in Instances \ {p.inst} : instances'[i] = instances[i]
    BY <2>2 DEF Plans, Shape, Stored
  <2>5. instances'[p.inst] = new BY <2>2, <2>4 DEF Shape, Stored
  <2>6. Settled(new.edition, new.params)
    <3>1. CASE p.op = "remove"
      <4>1. old \in Records /\ Settled(old.edition, old.params)
        BY <2>2, <2>4, <3>1 DEF Kept
      <4>2. new.edition = old.edition /\ new.params = old.params BY <3>1, <4>1 DEF Records
      <4> QED BY <4>1, <4>2
    <3>2. CASE p.op # "remove"
      <4>1. new.edition = p.edition /\ new.params = p.params BY <3>2
      <4>2. Settled(p.edition, p.params) BY <2>2 DEF Kept
      <4> QED BY <4>1, <4>2
    <3> QED BY <3>1, <3>2
  <2> HIDE DEF p, old, new
  <2>7. ASSUME NEW q \in Planners, plan'[q] # NoPlan
        PROVE  Settled(plan'[q].edition, plan'[q].params) /\ Keeps(plan'[q], instances'[plan'[q].inst])
    <3>1. /\ plan[q] \in Plans /\ plan[q] # NoPlan
          /\ plan'[q] = IF plan[q].inst = p.inst THEN [plan[q] EXCEPT !.fresh = FALSE] ELSE plan[q]
      BY <2>3, <2>7
    <3>2. Settled(plan[q].edition, plan[q].params) /\ Keeps(plan[q], instances[plan[q].inst])
      BY <3>1 DEF Kept
    <3>3. CASE plan[q].inst = p.inst
      <4>1. plan'[q].edition = plan[q].edition /\ plan'[q].params = plan[q].params
            /\ plan'[q].fresh = FALSE
        BY <3>1, <3>3 DEF Plans
      <4> QED BY <3>2, <4>1 DEF Keeps
    <3>4. CASE plan[q].inst # p.inst
      <4>1. plan'[q] = plan[q] /\ instances'[plan[q].inst] = instances[plan[q].inst]
        BY <2>4, <3>1, <3>4 DEF Plans
      <4> QED BY <3>2, <4>1
    <3> QED BY <3>3, <3>4
  <2>8. ASSUME NEW i \in Instances, instances'[i] # NoRecord
        PROVE  Settled(instances'[i].edition, instances'[i].params)
    BY <2>4, <2>5, <2>6, <2>8 DEF Kept
  <2> QED BY <2>7, <2>8 DEF Kept, Keeps, Settled
<1>2. CASE ~\E r \in Planners : ExecutePlan(r)
  <2>1. instances' = instances
    BY <1>2 DEF Next, vars, planVars, AskPodman, Broken, Capabilities, Forget, CreatePlan, BeginPlan,
                Decide, Restart
  <2>2. ASSUME NEW s \in Planners, plan'[s] # NoPlan
        PROVE  Settled(plan'[s].edition, plan'[s].params) /\ Keeps(plan'[s], instances[plan'[s].inst])
    <3>1. CASE plan'[s] = plan[s] BY <2>2, <3>1 DEF Kept
    <3>2. CASE /\ plan[s] \in Plans /\ plan[s] # NoPlan
               /\ plan'[s] = [plan[s] EXCEPT !.fresh = FALSE]
      <4>1. /\ plan'[s].edition = plan[s].edition /\ plan'[s].params = plan[s].params
            /\ plan'[s].fresh = FALSE
        BY <3>2 DEF Plans
      <4>2. Settled(plan[s].edition, plan[s].params) BY <3>2 DEF Kept
      <4> QED BY <4>1, <4>2 DEF Keeps
    <3>3. CASE \E body \in Bodies :
                 Decide(s, body) /\ Verdict(s, body) = "planned" /\ plan'[s] = NewPlan(s, body)
      BY <3>3, NewPlanIsKept DEF Decide
    <3> QED BY <2>2, <3>1, <3>2, <3>3, PlansStay
  <2> QED BY <2>1, <2>2 DEF Kept, Keeps, Settled
<1> QED BY <1>1, <1>2

LEMMA KeptBegins == ASSUME Init PROVE Kept
BY DEF Init, Kept

(* An update that names no parameters keeps those the instance has, unless the  *)
(* record was replaced after the plan was made (CreatePlan reads it before it   *)
(* asks Podman; upsert saves what was planned).                                 *)
THEOREM UpdatesKeepParametersAlways == Spec => UpdatesKeepParameters
<1>1. Init => Shape /\ Kept BY ShapeBegins, KeptBegins
<1>2. Shape /\ Kept /\ [Next]_vars => (Shape /\ Kept)' BY ShapeStays, KeptStays
<1>3. Shape /\ Kept /\ [Next]_vars =>
        [\A r \in Planners :
          LET p == plan[r] IN
          ExecutePlan(r) /\ p.op = "update" /\ p.keeps /\ p.fresh =>
              LET was == instances[p.inst].params IN
              \A n \in DOMAIN was : instances'[p.inst].params[n] = was[n]]_vars
  <2> SUFFICES ASSUME Shape, Kept, NEW r \in Planners, ExecutePlan(r),
                      plan[r].op = "update", plan[r].keeps, plan[r].fresh
               PROVE  \A n \in DOMAIN instances[plan[r].inst].params :
                         instances'[plan[r].inst].params[n] = instances[plan[r].inst].params[n]
    OBVIOUS
  <2>1. plan[r] \in Plans /\ plan[r] # NoPlan BY ExecutionIsTyped DEF Shape, ExecutePlan
  <2>2. Keeps(plan[r], instances[plan[r].inst]) BY <2>1 DEF Kept
  <2>3. instances'[plan[r].inst].params = plan[r].params
    BY <2>1 DEF ExecutePlan, Shape, Stored, Plans
  <2> QED BY <2>2, <2>3 DEF Keeps
<1> QED BY <1>1, <1>2, <1>3, PTL DEF Spec, UpdatesKeepParameters

LEMMA SettledResolves ==
    ASSUME DefaultsArePlain, NEW v \in CatalogVersions, NEW params, Settled(v, params),
           \A in \in Editions[v].inputs : in.type = "string" \/ params[in.name] # None
    PROVE  Accepts(Editions[v], params) /\ Resolved(Editions[v], params) = params
<1>1. params \in [InputNames(Editions[v]) -> Value] BY DEF Settled
<1>2. Resolved(Editions[v], params) = params BY <1>1 DEF Resolved
<1>3. ASSUME NEW in \in Editions[v].inputs
      PROVE  /\ Plain(params[in.name]) /\ ValidInput(in.type, params[in.name])
             /\ params[in.name] = None => ~in.required
  <2>1. CASE params[in.name] = None
    <3>1. in.type = "string" BY <2>1
    <3>2. ~Has(None, Long) BY ComponentsAssumption DEF Has, None
    <3>3. ValidInput("string", None) BY <3>2 DEF ValidInput
    <3>4. Plain(params[in.name]) /\ ~in.required BY <2>1 DEF Settled
    <3> QED BY <2>1, <3>1, <3>3, <3>4
  <2>2. CASE params[in.name] # None BY <2>2 DEF Settled
  <2> QED BY <2>1, <2>2
<1> QED BY <1>1, <1>2, <1>3 DEF Accepts, Plain

(* What was installed can be updated and removed with its own parameters while  *)
(* the catalog has the same edition, if no default of the catalog holds a       *)
(* control character: ResolveParameters is idempotent on what it accepts.       *)
THEOREM StoredParametersResolveAlways ==
    ASSUME DefaultsArePlain PROVE Spec => []StoredParametersResolve
<1>1. Init => Shape /\ Kept BY ShapeBegins, KeptBegins
<1>2. Shape /\ Kept /\ [Next]_vars => (Shape /\ Kept)' BY ShapeStays, KeptStays
<1>3. Shape /\ Kept => StoredParametersResolve
  <2> SUFFICES ASSUME Shape, Kept, NEW i \in Instances, Live(instances[i]), ~Blank(instances[i])
               PROVE  LET rec == instances[i] IN
                      /\ Accepts(Editions[rec.edition], rec.params)
                      /\ Resolved(Editions[rec.edition], rec.params) = rec.params
    BY DEF StoredParametersResolve
  <2>1. instances[i] \in Records /\ Settled(instances[i].edition, instances[i].params)
    BY DEF Shape, Stored, Kept, Live
  <2>2. instances[i].edition \in CatalogVersions BY <2>1 DEF Records
  <2> QED BY <2>1, <2>2, SettledResolves DEF Blank
<1> QED BY <1>1, <1>2, <1>3, PTL DEF Spec

================================================================================
