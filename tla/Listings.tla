------------------------------ MODULE Listings ------------------------------
(***************************************************************************)
(* The handlers that ask other programs what there is: `pm2 jlist`, once   *)
(* for every PM2 home, the docker daemon, and systemctl.  The programs     *)
(* come and go while a request asks them one after the other, and an       *)
(* answer is put together from what each said when it was asked.  Requests *)
(* share nothing, so there is one at a time.                               *)
(*                                                                         *)
(* A source is a PM2 home or the docker daemon, an item an app or a        *)
(* container: the source that listed it and its name.                      *)
(***************************************************************************)
EXTENDS Integers, Sequences, SequencesExt

CONSTANTS
  Homes,       \* PM2 homes on the host
  RootHome,    \* /root/.pm2
  OwnHome,     \* the home that `pm2` uses when it is not told one
  Docker,      \* the docker daemon
  Names,       \* names of apps and containers
  Catalogue,   \* the items that there may be
  Accepted,    \* the names that PM2_NAME_RE accepts
  Logged,      \* the apps that have an out_log_path
  Configs,     \* values of pm2_homes in config.toml
  Units,       \* systemd's units
  UnitStates,  \* <<load, active, sub>> of a unit
  Filters,     \* states that the page or a caller asks for
  Width        \* how many characters a word of systemctl has

ASSUME ListingsAssumption ==
  /\ IsFiniteSet(Homes)
  /\ IsFiniteSet(Names)
  /\ {RootHome, OwnHome} \subseteq Homes
  /\ Docker \notin Homes
  /\ Catalogue \subseteq (Homes \cup {Docker}) \X Names
  /\ Accepted \subseteq Names
  /\ Logged \subseteq Catalogue
  /\ Configs \subseteq Seq(Homes)

VARIABLES
  configured,  \* cfg.pm2_homes
  marked,      \* homes that hold a sign of pm2, such as pm2.pid
  handle,      \* AppState::docker: whether the daemon was found at start-up
  items,       \* what each source has
  working,     \* the sources that answer rather than fail
  req,         \* the request
  steady,      \* history: the items that could be listed all the time since it began
  shared       \* history: names that two sources had at some time since then

vars == <<configured, marked, handle, items, working, req, steady, shared>>

Sources == Homes \cup {Docker}
NoReq == [kind |-> "none", todo |-> <<>>, rows |-> <<>>, errs |-> FALSE, want |-> <<>>]
NoRow == <<>>

Init ==
  /\ configured \in Configs
  /\ marked \in SUBSET (Homes \ {OwnHome})
  /\ configured # <<>> => marked = {}  \* which nobody looks for then
  /\ handle \in BOOLEAN
  /\ items = [s \in Sources |-> {}]
  /\ working = Sources
  /\ req = NoReq
  /\ steady = {}
  /\ shared = {}

\* The items that a request would be told of now.
Visible == {i \in Catalogue : i[1] \in working /\ i[2] \in items[i[1]]}
NamesOfTwo ==
  {n \in Names : \E s, r \in Homes : s # r /\ n \in items[s] \cap items[r]}

-----------------------------------------------------------------------------
(* PM2 and docker.                                                         *)

\* discover_homes: /root/.pm2, then those under /home in the directory's order.
Discovered ==
  {s \in SetToSeqs(marked) : RootHome \in marked => s[1] = RootHome}

\* The sources that a request asks, in order.  Without any home `pm2` is asked
\* once, for its caller's; without a handle docker is not asked at all.
Targets(kind) ==
  IF kind = "docker" THEN {IF handle THEN <<Docker>> ELSE <<>>}
  ELSE IF configured # <<>> THEN {configured}
  ELSE IF marked # {} THEN Discovered
  ELSE {<<OwnHome>>}

\* A list is asked for, or the log of an app of the list: ws_pm2 calls find,
\* which lists the apps again, unless it refuses the name (400).
Begin(kind, want) ==
  /\ req.kind = "none"
  /\ \E todo \in Targets(kind) :
       /\ req' = [NoReq EXCEPT !.kind = kind, !.todo = todo, !.want = want]
       /\ steady' = Visible \cap (Range(todo) \X Names)
  /\ shared' = NamesOfTwo
  /\ UNCHANGED <<configured, marked, handle, items, working>>

BeginAny ==
  \/ \E kind \in {"pm2", "docker"} : Begin(kind, NoRow)
  \/ \E i \in Catalogue : i[1] \in Homes /\ i[2] \in Accepted /\ Begin("log", i)

\* Mutant of RowsOf: pm2_home stays that of the caller.
RowsOfUntagged(s) == SetToSeqs({OwnHome} \X items[s])

\* The rows of a source, which bear its name, in an order of its own.
RowsOf(s) == SetToSeqs({s} \X items[s])

\* Mutant of Ask: the rows of a home replace those of the homes before it.
AskReplacing ==
  /\ req.todo # <<>>
  /\ LET s == Head(req.todo) IN
     IF s \in working
     THEN \E rows \in RowsOf(s) : req' = [req EXCEPT !.todo = Tail(@), !.rows = rows]
     ELSE req' = [req EXCEPT !.todo = Tail(@), !.errs = TRUE]
  /\ UNCHANGED <<configured, marked, handle, items, working, steady, shared>>

\* list_for_home, or list_containers: a failure is noted and the next one asked.
Ask ==
  /\ req.todo # <<>>
  /\ LET s == Head(req.todo) IN
     IF s \in working
     THEN \E rows \in RowsOf(s) :
            req' = [req EXCEPT !.todo = Tail(@), !.rows = @ \o rows]
     ELSE req' = [req EXCEPT !.todo = Tail(@), !.errs = TRUE]
  /\ UNCHANGED <<configured, marked, handle, items, working, steady, shared>>

Asked(kinds) == req.kind \in kinds /\ req.todo = <<>>

\* Mutant of Failed: one home that fails fails the request.
FailedAny == req.errs

\* Every source has been asked: an error is only answered if there is nothing.
Failed == req.errs /\ req.rows = <<>>

Answered == IF Failed THEN <<>> ELSE req.rows

\* find: the first app of that name, whichever home it is from.
Found == LET k == SelectInSeq(Answered, LAMBDA i : i[2] = req.want[2])
         IN IF k = 0 THEN NoRow ELSE Answered[k]

\* The app whose log is opened: none is found (404), or it has none (400).
Opened == IF Found \in Logged THEN Found ELSE NoRow

\* The answer: the rows, the log that is opened, or an error.
Done ==
  /\ Asked({"pm2", "docker", "log", "services"})
  /\ req' = NoReq
  /\ steady' = {}
  /\ shared' = {}
  /\ UNCHANGED <<configured, marked, handle, items, working>>

-----------------------------------------------------------------------------
(* The host.                                                               *)

\* Apps start and stop, daemons answer or fail.
Watched ==
  /\ steady' = steady \cap Visible'
  /\ shared' = IF req = NoReq THEN {} ELSE shared \cup NamesOfTwo'
  /\ UNCHANGED <<configured, marked, handle, req>>

StartItem(s, n) ==
  /\ <<s, n>> \in Catalogue
  /\ n \notin items[s]
  /\ items' = [items EXCEPT ![s] = @ \cup {n}]
  /\ UNCHANGED working
  /\ Watched

StopItem(s, n) ==
  /\ n \in items[s]
  /\ items' = [items EXCEPT ![s] = @ \ {n}]
  /\ UNCHANGED working
  /\ Watched

Toggle(s) ==
  /\ working' = IF s \in working THEN working \ {s} ELSE working \cup {s}
  /\ UNCHANGED items
  /\ Watched

World ==
  \E s \in Sources :
    \/ \E n \in Names : StartItem(s, n) \/ StopItem(s, n)
    \/ Toggle(s)

-----------------------------------------------------------------------------
(* Services.  A line of `systemctl list-units` has five columns, each but  *)
(* the last filled up with blanks to the widest word of its column.        *)

\* What is between two blanks.
Void == ""

\* What systemctl writes and the page asks for: words that are not empty.
ASSUME ServicesAssumption ==
  LET Texts == {w \in DOMAIN Width : w # Void /\ Width[w] \in Nat} IN
  /\ IsFiniteSet(Units)
  /\ Units \subseteq Texts
  /\ UnitStates \subseteq Texts \X Texts \X Texts
  /\ Void \notin Filters

Words(table, u) == <<u, table[u][1], table[u][2], table[u][3]>>

\* How many blanks follow word i of a unit's line.
Blanks(table, u, i) ==
  1 + Max({Width[Words(table, v)[i]] : v \in Units}) - Width[Words(table, u)[i]]

\* The pieces of the line between its blanks: two blanks enclose an empty one.
Column(table, u, i) ==
  [k \in 1 .. Blanks(table, u, i) |-> IF k = 1 THEN Words(table, u)[i] ELSE Void]
Line(table, u) ==
  Column(table, u, 1) \o Column(table, u, 2) \o Column(table, u, 3)
    \o Column(table, u, 4) \o <<"description">>

\* splitn(5, char::is_whitespace): four pieces, and the rest of the line.
Split(line) ==
  [k \in 1 .. 5 |-> IF k < 5 THEN <<line[k]>> ELSE SubSeq(line, 5, Len(line))]

\* filter(|s| !s.is_empty()), and "" for the columns that are left: column i is
\* the piece with which there are i that are not empty.
Columns(line) ==
  LET full == {k \in 1 .. 5 : Split(line)[k] # <<Void>>}
      At(i) == {k \in full : Cardinality(full \cap (1 .. k)) = i}
  IN [i \in 1 .. 5 |->
        IF At(i) = {} THEN <<Void>> ELSE Split(line)[CHOOSE k \in At(i) : TRUE]]

\* Mutant of Shown: a unit is also shown for its load state.
ShownByLoad(table, u, filter) ==
  \E i \in 2 .. 4 : Columns(Line(table, u))[i] = <<filter>>

\* The filter of /api/services?state=, on active and sub.
Shown(table, u, filter) ==
  \E i \in 3 .. 4 : Columns(Line(table, u))[i] = <<filter>>

\* One call of systemctl, which fails or has its lines in an order of its own.
ListServices(table, filter) ==
  /\ req.kind = "none"
  /\ LET asked == [NoReq EXCEPT !.kind = "services", !.want = <<table, filter>>] IN
     \/ req' = [asked EXCEPT !.errs = TRUE]
     \/ \E rows \in SetToSeqs({u \in Units : Shown(table, u, filter)}) :
          req' = [asked EXCEPT !.rows = rows]
  /\ UNCHANGED <<configured, marked, handle, items, working, steady, shared>>

Next ==
  \/ BeginAny \/ Ask \/ Done
  \/ \E table \in [Units -> UnitStates], filter \in Filters : ListServices(table, filter)
  \/ World

Spec == Init /\ [][Next]_vars

-----------------------------------------------------------------------------
(* Properties.                                                             *)

\* The type invariant: an answer holds nothing but what there may be.
TypeOK ==
  /\ configured \in Configs
  /\ marked \subseteq Homes
  /\ handle \in BOOLEAN
  /\ items \in [Sources -> SUBSET Names]
  /\ working \subseteq Sources
  /\ req.kind \in {"none", "pm2", "docker", "log", "services"}
  /\ req.todo \in Seq(Sources)
  /\ req.errs \in BOOLEAN
  /\ req.kind # "services" => Range(req.rows) \subseteq Catalogue
  /\ steady \subseteq Catalogue
  /\ shared \subseteq Names

\* One PM2 home that fails hides none of the others: what was there and could
\* be listed from the beginning to the end of a request is in its answer,
\* whatever else came, went or failed between the calls of pm2.
SteadyItemsListed ==
  Asked({"pm2", "docker"}) => steady \subseteq Range(Answered)

\* No other log opens than that of the app whose card was clicked, and that one
\* does if the app has one, although only its name is sent and the apps are
\* listed anew: if the app stays and no other home has an app of that name.
ClickedLogOpens ==
  Asked({"log"}) /\ req.want \in steady /\ req.want[2] \notin shared =>
    Opened = IF req.want \in Logged THEN req.want ELSE NoRow

\* A service that is listed under a state is in that state, and under its own
\* name, however the blanks of its line fall.
NothingMisfiled ==
  Asked({"services"}) =>
    \A u \in Range(req.rows) :
      LET table == req.want[1] IN
      /\ Columns(Line(table, u))[1] = <<u>>
      /\ req.want[2] \in {table[u][2], table[u][3]}

\* "/api/services?state=active" lists the services that are active, if
\* systemctl answers.
ActiveServicesListed ==
  Asked({"services"}) /\ ~Failed =>
    \A u \in Units : req.want[1][u][2] = req.want[2] => u \in Range(req.rows)

=============================================================================
