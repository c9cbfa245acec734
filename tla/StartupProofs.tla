---------------------------- MODULE StartupProofs ----------------------------
(* For every command line: the loop over the options stands, at every turn, *)
(* at a place where an option is read, and has kept of each variable what   *)
(* the last of the options that set it asked for.  So the process runs as   *)
(* it was asked to, and refuses for a cause.                                *)
EXTENDS Startup, TLAPS

Statuses == {"options", "usage", "refused", "run", "live", "failed"}

Types ==
    /\ vendor \in AllVendors
    /\ environment \subseteq Overridable
    /\ argv \in Seq(Words)
    /\ DOMAIN params = DOMAIN Undefined
    /\ status \in Statuses

(* The next word is in an option's place, and so is every word before it    *)
(* that is not a value.                                                     *)
Reached ==
    /\ i \in 1..(Len(argv) + 1)
    /\ i <= Len(argv) => i \in Places
    /\ \A k \in Places : k < i => After(k) <= i

(* What the words read so far ask for. *)
Before(option) == {k \in Given(option) : k < i}

Kept(v) ==
    params[v] =
        IF Before(Option[v]) = {} THEN Undefined[v]
        ELSE Converted(Option[v], argv[Max(Before(Option[v])) + 1])

(* The last of them is one of them. *)
HasLast(option) == Before(option) # {} => Max(Before(option)) \in Before(option)

Reading ==
    /\ Reached
    /\ \A v \in Variables : Kept(v) /\ HasLast(Option[v])
    /\ params.use_security = (Before("-disableSecurity") = {})
    /\ properties = None

(* What run() is called with. *)
Called ==
    /\ params.published_topic  = AskedTopic("-pub")
    /\ params.subscribed_topic = AskedTopic("-sub")
    /\ params.domain_id = AskedDomain
    /\ params.color_name = Last("-color", "default color")
    /\ params.partition = Last("-partition", NULL)
    /\ params.use_security = (Given("-disableSecurity") = {})
    /\ params.use_security /\ vendor \notin OwnMain =>
         params.key_establishment_algorithm = Last("-kest", "default algorithm")
    /\ params.use_security =>
         /\ params.governance_file = Last("-governance", "default governance")
         /\ params.permissions_file = Last("-permissions", "default permissions")
         /\ params.governance_file \in Words /\ params.permissions_file \in Words

IInv ==
    /\ Types
    /\ status = "options" => Reading
    /\ status = "run" => Called /\ properties = None
    /\ RunAsAsked
    /\ RefusedForCause

-----------------------------------------------------------------------------
(* Places. *)

LEMMA MaxIsGreatest ==
    ASSUME NEW S \in SUBSET Int, NEW k \in S, \A x \in S : x <= k
    PROVE  Max(S) = k
<1>1. \E x \in S : \A y \in S : x >= y
  OBVIOUS
<1>2. Max(S) \in S /\ \A y \in S : Max(S) >= y
  BY <1>1, Zenon DEF Max
<1>3. Max(S) \in Int /\ k \in Int /\ Max(S) >= k /\ Max(S) <= k
  BY <1>2
<1> QED
  BY <1>3

LEMMA PlacesFollowed == Places \subseteq 1..Len(argv) /\ Followed(Places)
<1>1. Places \subseteq 1..Len(argv)
  BY DEF Places
<1>2. ASSUME NEW k \in 1..Len(argv), k = 1 \/ \E j \in Places : k = After(j),
             NEW P \in SUBSET (1..Len(argv)), Followed(P)
      PROVE  k \in P
  <2>1. \A j \in Places : j \in P
    BY <1>2 DEF Places
  <2> QED
    BY <1>2, <2>1 DEF Followed
<1>3. ASSUME NEW k \in 1..Len(argv), k = 1 \/ \E j \in Places : k = After(j)
      PROVE  k \in Places
  <2>1. \A P \in SUBSET (1..Len(argv)) : Followed(P) => k \in P
    BY <1>2, <1>3
  <2> QED
    BY <2>1 DEF Places
<1> QED
  BY <1>1, <1>3 DEF Followed

(* A set that leaves out a word nothing leads to. *)
LEMMA NotAPlace ==
    ASSUME NEW v \in 1..Len(argv), v # 1, \A j \in Places : After(j) # v
    PROVE  v \notin Places
<1> DEFINE Q == Places \ {v}
<1>1. Q \in SUBSET (1..Len(argv))
  BY PlacesFollowed
<1>2. Followed(Q)
  BY PlacesFollowed DEF Followed
<1> QED
  BY <1>1, <1>2 DEF Places

LEMMA AfterValues ==
    ASSUME NEW k \in 1..Len(argv)
    PROVE  /\ After(k) \in {k + 1, k + 2}
           /\ argv[k] \in Valued <=> After(k) = k + 2
BY DEF After

(* From one place to the next. *)
LEMMA NextPlace ==
    ASSUME Types, Reached, i <= Len(argv), After(i) <= Len(argv) + 1
    PROVE  /\ After(i) \in 1..(Len(argv) + 1)
           /\ After(i) <= Len(argv) => After(i) \in Places
           /\ \A k \in Places : k < After(i) <=> k < i \/ k = i
           /\ \A k \in Places : k < After(i) => After(k) <= After(i)
<1>1. Len(argv) \in Nat /\ i \in 1..Len(argv) /\ i \in Places
  BY DEF Types, Reached
<1>2. After(i) \in {i + 1, i + 2}
  BY <1>1, AfterValues
<1>3. After(i) \in 1..(Len(argv) + 1)
  BY <1>1, <1>2
<1>4. After(i) <= Len(argv) => After(i) \in Places
  BY <1>1, <1>3, PlacesFollowed DEF Followed
<1>5. After(i) = i + 2 => i + 1 \notin Places
  <2> SUFFICES ASSUME After(i) = i + 2, i + 1 <= Len(argv) PROVE i + 1 \notin Places
    BY <1>1, PlacesFollowed
  <2>1. ASSUME NEW j \in Places PROVE After(j) # i + 1
    <3>1. j \in 1..Len(argv) /\ After(j) \in {j + 1, j + 2}
      BY PlacesFollowed, AfterValues
    <3>2. j < i => After(j) <= i
      BY DEF Reached
    <3> QED
      BY <1>1, <3>1, <3>2
  <2> QED
    BY <1>1, <2>1, NotAPlace
<1>6. ASSUME NEW k \in Places PROVE k < After(i) <=> k < i \/ k = i
  <2>1. k \in 1..Len(argv)
    BY PlacesFollowed
  <2> QED
    BY <1>1, <1>2, <1>5, <2>1
<1>7. ASSUME NEW k \in Places, k < After(i) PROVE After(k) <= After(i)
  <2>1. CASE k = i
    BY <1>3, <2>1
  <2>2. CASE k < i
    <3>1. After(k) <= i /\ k \in 1..Len(argv)
      BY <2>2, PlacesFollowed DEF Reached
    <3>2. After(k) \in Int
      BY <3>1, AfterValues
    <3> QED
      BY <1>1, <1>2, <3>1, <3>2
  <2> QED
    BY <1>6, <1>7, <2>1, <2>2
<1> QED
  BY <1>3, <1>4, <1>6, <1>7

-----------------------------------------------------------------------------
(* The words read. *)

(* Numbers, so that Before has a greatest member. *)
LEMMA BeforeAreIndices ==
    ASSUME Types, NEW option
    PROVE  /\ Before(option) \subseteq Given(option)
           /\ Given(option) \subseteq Places /\ Places \subseteq 1..Len(argv)
           /\ Len(argv) \in Nat
           /\ Before(option) \in SUBSET Int
<1>1. Before(option) \subseteq Given(option) /\ Given(option) \subseteq Places
  BY DEF Before, Given
<1>2. Places \subseteq 1..Len(argv)
  BY PlacesFollowed
<1>3. Len(argv) \in Nat
  BY DEF Types
<1>4. 1..Len(argv) \subseteq Int
  BY <1>3
<1> QED
  BY <1>1, <1>2, <1>3, <1>4

LEMMA InitReading == Init => Types /\ Reading
<1> SUFFICES ASSUME Init PROVE Types /\ Reading
  OBVIOUS
<1>1. argv \in Seq(Words) /\ Len(argv) \in Nat /\ vendor \in AllVendors
  BY StartupAssumption DEF Init
<1>3. Types
  BY <1>1 DEF Init, Types, Statuses
<1>4. Reached
  <2>1. 1 <= Len(argv) => 1 \in Places
    BY <1>1, PlacesFollowed DEF Followed
  <2>2. \A k \in Places : ~(k < 1)
    BY <1>1, PlacesFollowed
  <2> QED
    BY <1>1, <2>1, <2>2 DEF Init, Reached
<1>5. \A option : Before(option) = {}
  <2> SUFFICES ASSUME NEW option PROVE Before(option) = {}
    OBVIOUS
  <2>1. Given(option) \subseteq 1..Len(argv) /\ i = 1
    BY <1>3, BeforeAreIndices DEF Init
  <2>2. \A k \in 1..Len(argv) : ~(k < 1)
    BY <1>1
  <2> QED
    BY <2>1, <2>2 DEF Before
<1> QED
  BY <1>3, <1>4, <1>5 DEF Init, Reading, Kept, HasLast, Undefined

(* One more word read: i goes on to the next place. *)
LEMMA GoOn ==
    ASSUME Types, Reading, i <= Len(argv), After(i) <= Len(argv) + 1,
           i' = After(i), argv' = argv, vendor' = vendor
    PROVE  /\ Reached'
           /\ \A option : Before(option)' =
                IF argv[i] = option THEN Before(option) \cup {i} ELSE Before(option)
           /\ \A option : argv[i] = option =>
                i \in Before(option)' /\ Max(Before(option)') = i
<1>1. Reached
  BY DEF Reading
<1>2. /\ After(i) \in 1..(Len(argv) + 1)
      /\ After(i) <= Len(argv) => After(i) \in Places
      /\ \A k \in Places : k < After(i) <=> k < i \/ k = i
      /\ \A k \in Places : k < After(i) => After(k) <= After(i)
  BY <1>1, NextPlace
<1>3. Valued' = Valued
  BY DEF Valued, Variables
<1>4. Places' = Places /\ \A k : After(k)' = After(k)
  BY <1>3 DEF Places, Followed, After
<1>5. Reached'
  BY <1>2, <1>4 DEF Reached
<1>6. i \in Places
  BY <1>1 DEF Reached
<1>7. \A option : Given(option)' = Given(option)
  BY <1>4 DEF Given
<1>8. ASSUME NEW option
      PROVE  Before(option)' =
                IF argv[i] = option THEN Before(option) \cup {i} ELSE Before(option)
  <2>1. Before(option)' = {k \in Given(option) : k < After(i)}
    BY <1>7 DEF Before
  <2>2. Given(option) = {k \in Places : argv[k] = option}
    BY DEF Given
  <2>3. Before(option) = {k \in Given(option) : k < i}
    BY DEF Before
  <2>4. \A k \in Given(option) : k < After(i) <=> k < i \/ k = i
    BY <1>2, <2>2
  <2>5. i \in Given(option) <=> argv[i] = option
    BY <1>6, <2>2
  <2> QED
    BY <2>1, <2>3, <2>4, <2>5
<1>9. ASSUME NEW option, argv[i] = option
      PROVE  i \in Before(option)' /\ Max(Before(option)') = i
  <2>1. Before(option)' = Before(option) \cup {i}
    BY <1>8, <1>9
  <2>2. Before(option) \in SUBSET Int /\ i \in Int
    BY <1>6, BeforeAreIndices
  <2>3. \A k \in Before(option) : k <= i
    BY <2>2 DEF Before
  <2>4. \A k \in Before(option) \cup {i} : k <= i
    BY <2>2, <2>3
  <2>5. Max(Before(option) \cup {i}) = i
    BY <2>2, <2>4, MaxIsGreatest
  <2> QED
    BY <2>1, <2>5
<1> QED
  BY <1>5, <1>8, <1>9

LEMMA OptionsApart ==
    /\ Valued \cap (Switches \cup Help) = {}
    /\ \A v \in Variables : v \in DOMAIN Undefined /\ Option[v] \in Valued
    /\ "use_security" \notin Variables
<1>1. Variables \subseteq DOMAIN Option
  BY DEF Variables
<1> QED
  BY <1>1 DEF Valued, Option, Switches, Help, Undefined

LEMMA TakeValueKeeps ==
    ASSUME Types, Reading, TakeValue, status' = "options"
    PROVE  Types' /\ Reading'
<1>1. /\ i < Len(argv) /\ argv[i] \in Valued
      /\ params' = [v \in DOMAIN params |->
                      IF v \in Variables /\ Option[v] = argv[i]
                        THEN Converted(argv[i], argv[i + 1])
                        ELSE params[v]]
      /\ i' = i + 2
      /\ UNCHANGED <<vendor, environment, argv, properties>>
  BY DEF TakeValue
<1>2. Len(argv) \in Nat /\ i \in 1..Len(argv)
  BY <1>1 DEF Types, Reading, Reached
<1>3. After(i) = i + 2 /\ i + 2 <= Len(argv) + 1
  BY <1>1, <1>2, AfterValues
<1>4. Types'
  BY <1>1 DEF Types, Overridable, Statuses
<1>5. /\ Reached'
      /\ \A option : Before(option)' =
           IF argv[i] = option THEN Before(option) \cup {i} ELSE Before(option)
      /\ \A option : argv[i] = option => i \in Before(option)' /\ Max(Before(option)') = i
  BY <1>1, <1>2, <1>3, GoOn
<1>6. ASSUME NEW v \in Variables PROVE Kept(v)' /\ HasLast(Option[v])'
  <2>1. v \in DOMAIN params
    BY OptionsApart DEF Types
  <2>2. CASE Option[v] = argv[i]
    <3>1. params'[v] = Converted(Option[v], argv[i + 1])
      BY <1>1, <2>1, <2>2
    <3>2. i \in Before(Option[v])' /\ Max(Before(Option[v])') = i
      BY <1>5, <2>2
    <3> QED
      BY <1>1, <3>1, <3>2 DEF Kept, HasLast, Converted, Option, Undefined
  <2>3. CASE Option[v] # argv[i]
    <3>1. params'[v] = params[v]
      BY <1>1, <2>1, <2>3
    <3>2. Before(Option[v])' = Before(Option[v])
      BY <1>5, <2>3
    <3>3. Kept(v) /\ HasLast(Option[v])
      BY DEF Reading
    <3> QED
      BY <1>1, <3>1, <3>2, <3>3 DEF Kept, HasLast, Converted, Option, Undefined
  <2> QED
    BY <2>2, <2>3
<1>7. Variables' = Variables
  BY <1>1 DEF Variables
<1>8. params'.use_security = params.use_security
  BY <1>1, OptionsApart DEF Types, Undefined
<1>9. Before("-disableSecurity")' = Before("-disableSecurity")
  BY <1>1, <1>5, OptionsApart DEF Switches
<1> QED
  BY <1>1, <1>4, <1>5, <1>6, <1>7, <1>8, <1>9 DEF Reading

LEMMA SwitchKeeps ==
    ASSUME Types, Reading, Switch
    PROVE  Types' /\ Reading'
<1>1. /\ i <= Len(argv) /\ argv[i] \in Switches
      /\ params' = IF argv[i] = "-disableSecurity"
                     THEN [params EXCEPT !.use_security = FALSE]
                     ELSE [params EXCEPT !.enable_logging = TRUE]
      /\ i' = i + 1
      /\ UNCHANGED <<vendor, environment, argv, status, properties>>
  BY DEF Switch
<1>2. Len(argv) \in Nat /\ i \in 1..Len(argv)
  BY <1>1 DEF Types, Reading, Reached
<1>3. After(i) = i + 1 /\ i + 1 <= Len(argv) + 1
  BY <1>1, <1>2, OptionsApart DEF After
<1>4. Types'
  BY <1>1 DEF Types, Overridable
<1>5. /\ Reached'
      /\ \A option : Before(option)' =
           IF argv[i] = option THEN Before(option) \cup {i} ELSE Before(option)
  BY <1>1, <1>2, <1>3, GoOn
<1>6. Variables' = Variables
  BY <1>1 DEF Variables
<1>7. ASSUME NEW v \in Variables PROVE Kept(v)' /\ HasLast(Option[v])'
  <2>1. params'[v] = params[v]
    <3>1. v \in DOMAIN params /\ v # "use_security" /\ v # "enable_logging"
      BY OptionsApart DEF Types, Variables, Option
    <3> QED
      BY <1>1, <3>1
  <2>2. Before(Option[v])' = Before(Option[v])
    BY <1>1, <1>5, OptionsApart
  <2>3. Kept(v) /\ HasLast(Option[v])
    BY DEF Reading
  <2> QED
    BY <1>1, <2>1, <2>2, <2>3 DEF Kept, HasLast, Converted, Option, Undefined
<1>8. params'.use_security = (Before("-disableSecurity")' = {})
  <2>1. "use_security" \in DOMAIN params /\ "enable_logging" \in DOMAIN params
    BY DEF Types, Undefined
  <2>2. params.use_security = (Before("-disableSecurity") = {})
    BY DEF Reading
  <2>3. CASE argv[i] = "-disableSecurity"
    <3>1. params'.use_security = FALSE
      BY <1>1, <2>1, <2>3
    <3>2. i \in Before("-disableSecurity")'
      BY <1>5, <2>3
    <3> QED
      BY <3>1, <3>2
  <2>4. CASE argv[i] # "-disableSecurity"
    <3>1. params'.use_security = params.use_security
      BY <1>1, <2>1, <2>4
    <3>2. Before("-disableSecurity")' = Before("-disableSecurity")
      BY <1>5, <2>4
    <3> QED
      BY <2>2, <3>1, <3>2
  <2> QED
    BY <2>3, <2>4
<1> QED
  BY <1>1, <1>4, <1>5, <1>6, <1>7, <1>8 DEF Reading

-----------------------------------------------------------------------------
(* Refusals. *)

LEMMA RefusalHasCause ==
    ASSUME Types, Reading, TakeValue \/ MissingValue \/ GiveUp, status' = "refused"
    PROVE  RefusedForCause'
<1>1. UNCHANGED <<vendor, argv>> /\ i' = i
  BY DEF TakeValue, MissingValue, GiveUp, Types
<1>2. Valued' = Valued
  BY <1>1 DEF Valued, Variables
<1>3. Places' = Places
  BY <1>1, <1>2 DEF Places, Followed, After
<1>4. i \in 1..Len(argv) /\ Len(argv) \in Nat
  BY DEF TakeValue, MissingValue, GiveUp, Types, Reading, Reached
<1>5. i \in Places
  BY <1>4 DEF Reading, Reached
<1>6. IF argv[i] \in Valued
        THEN i = Len(argv) \/ Refused(argv[i], argv[i + 1])
        ELSE argv[i] \notin Switches \cup Help
  <2>1. CASE TakeValue
    BY <1>4, <2>1 DEF TakeValue
  <2>2. CASE MissingValue
    BY <2>2 DEF MissingValue
  <2>3. CASE GiveUp
    BY <2>3 DEF GiveUp
  <2> QED
    BY <2>1, <2>2, <2>3
<1>7. \A option, word : Refused(option, word)' = Refused(option, word)
  BY <1>1 DEF Refused
<1> QED
  BY <1>1, <1>2, <1>3, <1>5, <1>6, <1>7 DEF RefusedForCause

-----------------------------------------------------------------------------
(* The call of run(). *)

(* What the words ask for does not change with the variables. *)
LEMMA AskedStays ==
    ASSUME UNCHANGED <<vendor, environment, argv>>
    PROVE  /\ \A option : Given(option)' = Given(option)
           /\ \A option, default : Last(option, default)' = Last(option, default)
           /\ \A option : AskedTopic(option)' = AskedTopic(option)
           /\ AskedDomain' = AskedDomain
           /\ \A key, option, default :
                AskedFile(key, option, default)' = AskedFile(key, option, default)
<1>1. Places' = Places
  BY DEF Places, Followed, After, Valued, Variables
<1>2. \A option : Given(option)' = Given(option)
  BY <1>1 DEF Given
<1>3. \A option, default : Last(option, default)' = Last(option, default)
  BY <1>2 DEF Last
<1> QED
  BY <1>2, <1>3 DEF AskedTopic, AskedDomain, AskedFile

(* At the end of the words every variable has the value asked for last. *)
LEMMA AllRead ==
    ASSUME Types, Reading, i > Len(argv), NEW v \in Variables
    PROVE  /\ Given(Option[v]) = {} => params[v] = Undefined[v]
           /\ Given(Option[v]) # {} =>
                LET word == argv[Max(Given(Option[v])) + 1]
                IN  word \in Words /\ params[v] = Converted(Option[v], word)
<1>1. Len(argv) \in Nat /\ i = Len(argv) + 1
  BY DEF Types, Reading, Reached
<1>2. Before(Option[v]) = Given(Option[v])
  <2>1. \A k \in 1..Len(argv) : k < i
    BY <1>1
  <2> QED
    BY <2>1, BeforeAreIndices DEF Before
<1>3. Kept(v) /\ HasLast(Option[v])
  BY DEF Reading
<1>4. ASSUME Given(Option[v]) # {}
      PROVE  argv[Max(Given(Option[v])) + 1] \in Words
  <2>1. PICK k \in Given(Option[v]) : k = Max(Given(Option[v]))
    BY <1>2, <1>3, <1>4 DEF HasLast
  <2>2. k \in Places /\ k \in 1..Len(argv) /\ argv[k] \in Valued
    BY BeforeAreIndices, OptionsApart DEF Given
  <2>3. After(k) = k + 2 /\ After(k) <= i
    BY <1>1, <2>2 DEF After, Reading, Reached
  <2>4. k + 1 \in 1..Len(argv)
    BY <1>1, <2>2, <2>3
  <2> QED
    BY <2>1, <2>4 DEF Types
<1> QED
  BY <1>2, <1>3, <1>4 DEF Kept

(* Variables whose values are not converted. *)
Plain ==
    {"published_topic", "subscribed_topic", "governance_file", "permissions_file",
     "color_name", "partition"}
      \cup IF vendor \in OwnMain THEN {} ELSE {"key_establishment_algorithm"}

(* The same, for the variables that have a default later on. *)
LEMMA WordsRead ==
    ASSUME Types, Reading, i > Len(argv)
    PROVE  /\ \A v \in Plain :
                /\ params[v] = Last(Option[v], NULL)
                /\ params[v] # NULL => params[v] \in Words
                /\ params[v] = NULL <=> Given(Option[v]) = {}
           /\ IF params.domain_id = -1 THEN AskedDomain = 0 ELSE AskedDomain = params.domain_id
           /\ params.use_security = (Given("-disableSecurity") = {})
<1>1. NULL \notin Words
  BY StartupAssumption
<1>2. ASSUME NEW v \in Plain
      PROVE  /\ params[v] = Last(Option[v], NULL)
             /\ params[v] # NULL => params[v] \in Words
             /\ params[v] = NULL <=> Given(Option[v]) = {}
  <2>1. v \in Variables /\ Undefined[v] = NULL /\ Option[v] \notin Numbers
    BY DEF Plain, OwnMain, Variables, Option, Undefined, Numbers
  <2>2. \A word : Converted(Option[v], word) = word
    BY <2>1 DEF Converted
  <2> QED
    BY <1>1, <2>1, <2>2, AllRead DEF Last
<1>3. IF params.domain_id = -1 THEN AskedDomain = 0 ELSE AskedDomain = params.domain_id
  <2>1. "domain_id" \in Variables /\ Undefined.domain_id = -1 /\ Option["domain_id"] = "-domain"
    BY DEF Variables, Option, Undefined
  <2>2. NULL \notin DOMAIN Numeral /\ "-domain" \in Numbers
    BY <1>1, StartupAssumption DEF Numbers
  <2>3. CASE Given("-domain") = {}
    BY <2>1, <2>2, <2>3, AllRead DEF AskedDomain, Last
  <2>4. CASE Given("-domain") # {}
    <3> DEFINE word == argv[Max(Given("-domain")) + 1]
    <3>1. params.domain_id = IF word \in DOMAIN Numeral THEN Numeral[word] ELSE 0
      BY <2>1, <2>2, <2>4, AllRead DEF Converted
    <3>2. Last("-domain", NULL) = word
      BY <2>4 DEF Last
    <3> QED
      BY <3>1, <3>2 DEF AskedDomain
  <2> QED
    BY <2>3, <2>4
<1>4. params.use_security = (Given("-disableSecurity") = {})
  <2>1. Len(argv) \in Nat /\ i = Len(argv) + 1
    BY DEF Types, Reading, Reached
  <2>2. \A k \in 1..Len(argv) : k < i
    BY <2>1
  <2>3. Before("-disableSecurity") = Given("-disableSecurity")
    BY <2>2, BeforeAreIndices DEF Before
  <2> QED
    BY <2>3 DEF Reading
<1> QED
  BY <1>2, <1>3, <1>4

LEMMA LastOr ==
    ASSUME NEW option, NEW default
    PROVE  Last(option, default) =
             IF Given(option) = {} THEN default ELSE Last(option, NULL)
BY DEF Last

LEMMA CallRunKeeps ==
    ASSUME Types, Reading, CallRun
    PROVE  Types' /\ Called' /\ properties' = None /\ status' = "run"
<1> DEFINE p == SecurityDefaults(params)
           q == TopicDefaults(p)
<1>1. /\ i > Len(argv) /\ params' = OtherDefaults(q) /\ status' = "run"
      /\ UNCHANGED <<vendor, environment, argv, i, properties>>
  BY DEF CallRun
<1>2. /\ DOMAIN params = DOMAIN Undefined
      /\ DOMAIN Undefined = {"domain_id", "published_topic", "subscribed_topic",
           "color_name", "governance_file", "permissions_file",
           "key_establishment_algorithm", "partition", "livelinessPeriod",
           "verbosity", "use_security", "enable_logging"}
  BY DEF Types, Undefined
<1>3. /\ DOMAIN p = DOMAIN params
      /\ \A v \in {"published_topic", "subscribed_topic", "domain_id", "color_name",
                   "partition", "use_security"} : p[v] = params[v]
      /\ params.use_security /\ vendor \notin OwnMain =>
           p.key_establishment_algorithm =
             OrElse(params.key_establishment_algorithm, "default algorithm")
      /\ params.use_security =>
           /\ p.governance_file = OrElse(params.governance_file, "default governance")
           /\ p.permissions_file = OrElse(params.permissions_file, "default permissions")
  BY <1>2 DEF SecurityDefaults
<1>4. /\ DOMAIN q = DOMAIN params
      /\ \A v \in {"domain_id", "use_security", "governance_file", "permissions_file",
                   "color_name", "partition", "key_establishment_algorithm"} :
           q[v] = p[v]
      /\ q.published_topic =
           IF params.published_topic = NULL /\ params.subscribed_topic = NULL
             THEN "default topic" ELSE params.published_topic
      /\ q.subscribed_topic =
           IF params.published_topic = NULL /\ params.subscribed_topic = NULL
             THEN "default topic" ELSE params.subscribed_topic
  BY <1>2, <1>3 DEF TopicDefaults
<1> HIDE DEF p, q
<1>5. /\ DOMAIN params' = DOMAIN params
      /\ \A v \in {"use_security", "governance_file", "permissions_file",
                   "published_topic", "subscribed_topic", "partition",
                   "key_establishment_algorithm"} : params'[v] = q[v]
      /\ params'.color_name = OrElse(q.color_name, "default color")
      /\ params'.domain_id = IF q.domain_id = -1 THEN 0 ELSE q.domain_id
  BY <1>1, <1>2, <1>4 DEF OtherDefaults
<1>6. /\ \A v \in Plain :
           /\ params[v] = Last(Option[v], NULL)
           /\ params[v] # NULL => params[v] \in Words
           /\ params[v] = NULL <=> Given(Option[v]) = {}
      /\ IF params.domain_id = -1 THEN AskedDomain = 0 ELSE AskedDomain = params.domain_id
      /\ params.use_security = (Given("-disableSecurity") = {})
  BY <1>1, WordsRead
<1>7. /\ Option.published_topic = "-pub" /\ Option.subscribed_topic = "-sub"
      /\ Option.governance_file = "-governance" /\ Option.permissions_file = "-permissions"
      /\ Option.color_name = "-color" /\ Option.partition = "-partition"
      /\ Option.key_establishment_algorithm = "-kest"
  BY DEF Option
<1>8. params'.published_topic = AskedTopic("-pub") /\ params'.subscribed_topic = AskedTopic("-sub")
  BY <1>4, <1>5, <1>6, <1>7 DEF Plain, AskedTopic
<1>13. /\ params'.color_name = Last("-color", "default color")
       /\ params'.partition = Last("-partition", NULL)
  <2>1. /\ params'.color_name = OrElse(params.color_name, "default color")
        /\ params'.partition = params.partition
    BY <1>3, <1>4, <1>5
  <2>2. /\ params.color_name = Last("-color", NULL)
        /\ params.color_name = NULL <=> Given("-color") = {}
        /\ params.partition = Last("-partition", NULL)
    BY <1>6, <1>7 DEF Plain
  <2> QED
    BY <2>1, <2>2, LastOr DEF OrElse
<1>14. ASSUME params'.use_security, vendor \notin OwnMain
       PROVE  params'.key_establishment_algorithm = Last("-kest", "default algorithm")
  <2>1. params'.key_establishment_algorithm =
          OrElse(params.key_establishment_algorithm, "default algorithm")
    BY <1>3, <1>4, <1>5, <1>14
  <2>2. /\ params.key_establishment_algorithm = Last("-kest", NULL)
        /\ params.key_establishment_algorithm = NULL <=> Given("-kest") = {}
    BY <1>6, <1>7, <1>14 DEF Plain
  <2> QED
    BY <2>1, <2>2, LastOr DEF OrElse
<1>9. params'.domain_id = AskedDomain /\ params'.use_security = (Given("-disableSecurity") = {})
  BY <1>3, <1>4, <1>5, <1>6
<1>10. ASSUME params'.use_security
       PROVE  /\ params'.governance_file = Last("-governance", "default governance")
              /\ params'.permissions_file = Last("-permissions", "default permissions")
              /\ params'.governance_file \in Words /\ params'.permissions_file \in Words
  <2>1. params.use_security
    BY <1>3, <1>4, <1>5, <1>10
  <2>2. /\ params'.governance_file = OrElse(params.governance_file, "default governance")
        /\ params'.permissions_file = OrElse(params.permissions_file, "default permissions")
    BY <1>3, <1>4, <1>5, <2>1
  <2>3. /\ params.governance_file = Last("-governance", NULL)
        /\ params.governance_file # NULL => params.governance_file \in Words
        /\ params.governance_file = NULL <=> Given("-governance") = {}
        /\ params.permissions_file = Last("-permissions", NULL)
        /\ params.permissions_file # NULL => params.permissions_file \in Words
        /\ params.permissions_file = NULL <=> Given("-permissions") = {}
    BY <1>6, <1>7 DEF Plain
  <2>4. /\ params'.governance_file = Last("-governance", "default governance")
        /\ params'.governance_file \in Words
    BY <2>2, <2>3, LastOr, StartupAssumption DEF OrElse, OwnWords
  <2>5. /\ params'.permissions_file = Last("-permissions", "default permissions")
        /\ params'.permissions_file \in Words
    BY <2>2, <2>3, LastOr, StartupAssumption DEF OrElse, OwnWords
  <2> QED
    BY <2>4, <2>5
<1>11. Called'
  <2>1. /\ \A option : Given(option)' = Given(option)
        /\ \A option, default : Last(option, default)' = Last(option, default)
        /\ \A option : AskedTopic(option)' = AskedTopic(option)
        /\ AskedDomain' = AskedDomain
    BY <1>1, AskedStays
  <2> QED
    BY <1>1, <1>8, <1>9, <1>10, <1>13, <1>14, <2>1 DEF Called
<1>12. Types'
  BY <1>1, <1>5 DEF Types, Statuses, Overridable
<1> QED
  BY <1>1, <1>11, <1>12 DEF Reading

-----------------------------------------------------------------------------
(* The configurators. *)

LEMMA SecureHasAll ==
    ASSUME NEW algorithm, params.governance_file \in Words, params.permissions_file \in Words
    PROVE  /\ \A k \in Keys \ {"key_establishment"} : Secure(algorithm)[k] # NULL
           /\ Secure(algorithm)["governance"] = params.governance_file
           /\ Secure(algorithm)["permissions"] = params.permissions_file
           /\ Secure(algorithm)["key_establishment"] = algorithm
<1>1. \A key : BuiltIn(key) \in Words
  BY StartupAssumption DEF BuiltIn, OwnWords
<1>2. \A k \in Keys \ {"key_establishment"} : Secure(algorithm)[k] \in Words
  BY <1>1 DEF Secure, Keys
<1> QED
  BY <1>2, StartupAssumption DEF Secure

(* What a participant that is wanted secure has. *)
AsAsked ==
    /\ \A k \in Keys \ {"key_establishment"} : properties[k] # NULL
    /\ properties["governance"] =
         AskedFile("governance", "-governance", "default governance")
    /\ properties["permissions"] =
         AskedFile("permissions", "-permissions", "default permissions")
    /\ vendor \in {"rti", "coredx"} =>
         properties["key_establishment"] = Last("-kest", "default algorithm")

LEMMA CreateParticipantKeeps ==
    ASSUME Types, Called, properties = None, create_participant
    PROVE  Types' /\ RunAsAsked' /\ RefusedForCause'
<1>1. /\ status' \in {"live", "failed"}
      /\ UNCHANGED <<vendor, environment, argv, i, params>>
  BY DEF create_participant
<1>2. /\ vendor = "default"  => default_participant
      /\ vendor = "rti"      => rti_participant
      /\ vendor = "coredx"   => coredx_participant
      /\ vendor = "opendds"  => opendds_participant
      /\ vendor = "intercom" => intercom_participant
      /\ vendor = "fastrtps" => fastrtps_participant
      /\ vendor = "vortex"   => vortex_participant
  BY Zenon DEF create_participant
<1>3. Types'
  BY <1>1 DEF Types, Statuses, Overridable
<1>4. /\ \A option : Given(option)' = Given(option)
      /\ \A option, default : Last(option, default)' = Last(option, default)
      /\ \A option : AskedTopic(option)' = AskedTopic(option)
      /\ AskedDomain' = AskedDomain
      /\ \A key, option, default :
           AskedFile(key, option, default)' = AskedFile(key, option, default)
  BY <1>1, AskedStays
<1>5. ASSUME ~params.use_security, vendor # "rti" PROVE properties' = None
  BY <1>2, <1>5 DEF Types, AllVendors, IfSecure, default_participant, coredx_participant,
     opendds_participant, intercom_participant, fastrtps_participant, vortex_participant
<1>6. ASSUME params.use_security, vendor # "default" PROVE AsAsked'
  <2>1. /\ params.governance_file \in Words /\ params.permissions_file \in Words
        /\ params.governance_file = Last("-governance", "default governance")
        /\ params.permissions_file = Last("-permissions", "default permissions")
    BY <1>6 DEF Called
  <2>2. ASSUME vendor # "vortex" PROVE AsAsked'
    <3> DEFINE given == params.key_establishment_algorithm
    <3>1. \E algorithm : /\ properties' = Secure(algorithm)
                         /\ vendor \in {"rti", "coredx"} => algorithm = given
      <4>1. CASE vendor = "rti"
        BY <1>2, <4>1 DEF rti_participant
      <4>2. CASE vendor = "coredx"
        BY <1>2, <1>6, <4>2 DEF coredx_participant, IfSecure
      <4>3. CASE vendor \in {"opendds", "intercom", "fastrtps"}
        BY <1>2, <1>6, <4>3
           DEF opendds_participant, intercom_participant, fastrtps_participant, IfSecure
      <4> QED
        BY <1>6, <2>2, <4>1, <4>2, <4>3 DEF Types, AllVendors
    <3>2. PICK algorithm : /\ properties' = Secure(algorithm)
                           /\ vendor \in {"rti", "coredx"} => algorithm = given
      BY <3>1
    <3>3. /\ \A k \in Keys \ {"key_establishment"} : properties'[k] # NULL
          /\ properties'["governance"] = params.governance_file
          /\ properties'["permissions"] = params.permissions_file
          /\ properties'["key_establishment"] = algorithm
      BY <2>1, <3>2, SecureHasAll
    <3>4. "governance" \notin environment /\ "permissions" \notin environment
      BY <2>2 DEF Types, AllVendors, Overridable
    <3>5. vendor \in {"rti", "coredx"} => given = Last("-kest", "default algorithm")
      BY <1>6 DEF Called, OwnMain
    <3> QED
      BY <1>1, <1>4, <2>1, <3>2, <3>3, <3>4, <3>5 DEF AsAsked, AskedFile
  <2>3. ASSUME vendor = "vortex" PROVE AsAsked'
    <3>1. properties' = [k \in Keys |-> IF k \in environment THEN "environment"
                                        ELSE Secure(NULL)[k]]
      BY <1>2, <1>6, <2>3 DEF vortex_participant, IfSecure
    <3>2. "environment" # NULL
      BY StartupAssumption DEF OwnWords
    <3>3. /\ \A k \in Keys \ {"key_establishment"} : Secure(NULL)[k] # NULL
          /\ Secure(NULL)["governance"] = params.governance_file
          /\ Secure(NULL)["permissions"] = params.permissions_file
      BY <2>1, SecureHasAll
    <3>4. \A k \in Keys \ {"key_establishment"} : properties'[k] # NULL
      BY <3>1, <3>2, <3>3
    <3>5. /\ properties'["governance"] =
               AskedFile("governance", "-governance", "default governance")
          /\ properties'["permissions"] =
               AskedFile("permissions", "-permissions", "default permissions")
      BY <2>1, <3>1, <3>3 DEF AskedFile, Keys
    <3> QED
      BY <1>1, <1>4, <2>3, <3>4, <3>5 DEF AsAsked
  <2> QED
    BY <2>2, <2>3
<1>7. RunAsAsked'
  BY <1>1, <1>4, <1>5, <1>6 DEF RunAsAsked, AsAsked, Called
<1> QED
  BY <1>1, <1>3, <1>7 DEF RefusedForCause

-----------------------------------------------------------------------------
(* Theorems. *)

LEMMA InitIInv == Init => IInv
BY InitReading DEF Init, IInv, RunAsAsked, RefusedForCause

LEMMA StepIInv == IInv /\ [Next]_vars => IInv'
<1> SUFFICES ASSUME IInv, [Next]_vars PROVE IInv'
  OBVIOUS
<1>1. Types
  BY DEF IInv
<1>2. CASE TakeValue \/ MissingValue \/ GiveUp
  <2>1. status = "options" /\ Reading
    BY <1>2 DEF TakeValue, MissingValue, GiveUp, IInv
  <2>2. CASE status' = "refused"
    <3>1. Types'
      BY <1>1, <1>2, <2>2
         DEF TakeValue, MissingValue, GiveUp, Types, Statuses, Overridable
    <3>2. RefusedForCause'
      BY <1>1, <1>2, <2>1, <2>2, RefusalHasCause
    <3> QED
      BY <2>2, <3>1, <3>2 DEF IInv, RunAsAsked
  <2>3. CASE status' = "usage"
    <3>1. Types'
      BY <1>1, <1>2, <2>3
         DEF TakeValue, MissingValue, GiveUp, Types, Statuses, Overridable
    <3> QED
      BY <2>3, <3>1 DEF IInv, RunAsAsked, RefusedForCause
  <2>4. CASE status' = "options"
    <3>1. TakeValue
      BY <1>2, <2>4 DEF MissingValue, GiveUp
    <3>2. Types' /\ Reading'
      BY <1>1, <2>1, <2>4, <3>1, TakeValueKeeps
    <3> QED
      BY <2>4, <3>2 DEF IInv, RunAsAsked, RefusedForCause
  <2> QED
    BY <1>2, <2>1, <2>2, <2>3, <2>4 DEF TakeValue, MissingValue, GiveUp
<1>3. CASE Switch
  <2>1. status = "options" /\ Reading /\ status' = "options"
    BY <1>3 DEF Switch, IInv
  <2>2. Types' /\ Reading'
    BY <1>1, <1>3, <2>1, SwitchKeeps
  <2> QED
    BY <2>1, <2>2 DEF IInv, RunAsAsked, RefusedForCause
<1>4. CASE CallRun
  <2>1. Reading
    BY <1>4 DEF CallRun, IInv
  <2>2. Types' /\ Called' /\ properties' = None /\ status' = "run"
    BY <1>1, <1>4, <2>1, CallRunKeeps
  <2>3. None' = None
    BY DEF None, Keys
  <2>4. RunAsAsked'
    BY <2>2, <2>3 DEF RunAsAsked, Called
  <2> QED
    BY <2>2, <2>3, <2>4 DEF IInv, RefusedForCause
<1>5. CASE create_participant
  <2>1. Called /\ properties = None /\ status' \in {"live", "failed"}
    BY <1>5 DEF create_participant, IInv
  <2>2. Types' /\ RunAsAsked' /\ RefusedForCause'
    BY <1>1, <1>5, <2>1, CreateParticipantKeeps
  <2> QED
    BY <2>1, <2>2 DEF IInv
<1>6. CASE UNCHANGED vars
  <2>1. UNCHANGED <<vendor, environment, argv, i, params, status, properties>>
    BY <1>6 DEF vars
  <2>2. /\ \A option : Given(option)' = Given(option)
        /\ \A option, default : Last(option, default)' = Last(option, default)
        /\ \A option : AskedTopic(option)' = AskedTopic(option)
        /\ AskedDomain' = AskedDomain
        /\ \A key, option, default :
             AskedFile(key, option, default)' = AskedFile(key, option, default)
    BY <2>1, AskedStays
  <2>3. Variables' = Variables /\ Valued' = Valued
    BY <2>1 DEF Variables, Valued
  <2>4. Places' = Places /\ \A k : After(k)' = After(k)
    BY <2>1, <2>3 DEF Places, Followed, After
  <2>5. \A option : Before(option)' = Before(option)
    BY <2>1, <2>2 DEF Before
  <2>6. Types'
    BY <1>1, <2>1 DEF Types, Overridable
  <2>7. Reached' = Reached
    BY <2>1, <2>4 DEF Reached
  <2>8. ASSUME NEW v PROVE (Kept(v)' = Kept(v)) /\ (HasLast(Option[v])' = HasLast(Option[v]))
    BY <2>1, <2>5 DEF Kept, HasLast, Option, Undefined, Converted
  <2>9. Reading => Reading'
    BY <2>1, <2>3, <2>5, <2>7, <2>8 DEF Reading
  <2>10. Called => Called'
    BY <2>1, <2>2 DEF Called
  <2>11. RunAsAsked' = RunAsAsked
    BY <2>1, <2>2 DEF RunAsAsked
  <2>12. RefusedForCause' = RefusedForCause
    BY <2>1, <2>3, <2>4 DEF RefusedForCause, Refused
  <2> QED
    BY <2>1, <2>6, <2>9, <2>10, <2>11, <2>12 DEF IInv
<1> QED
  BY <1>2, <1>3, <1>4, <1>5, <1>6 DEF Next, Ended

(* The loop over the options stands at the places where options are read,   *)
(* and has kept what the words before it asked for.                         *)
THEOREM StartupInvariant == Spec => []IInv
<1> QED
  BY InitIInv, StepIInv, PTL DEF Spec

(* Whatever words it was started with, the process runs on the topics, the  *)
(* domain, the colour and the partition asked for last, its participant has *)
(* the files asked for, and without security, Connext apart, none of them.  *)
THEOREM RunsAsAsked == Spec => []RunAsAsked
<1>1. IInv => RunAsAsked
  BY DEF IInv
<1> QED
  BY StartupInvariant, <1>1, PTL

(* Whatever words are refused, one in an option's place is the cause.       *)
THEOREM RefusesForCause == Spec => []RefusedForCause
<1>1. IInv => RefusedForCause
  BY DEF IInv
<1> QED
  BY StartupInvariant, <1>1, PTL
=============================================================================
