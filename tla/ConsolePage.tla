---------------------------- MODULE ConsolePage -----------------------------
(***************************************************************************)
(* The web console of one user in front of the API: login and logout       *)
(* (useAuth.tsx) and the dashboard (DashboardPage.tsx), which loads the    *)
(* list of investigations for a filter and runs the pipeline.  Nothing     *)
(* cancels a request: answers arrive in any order, after the filter has    *)
(* changed, after the page was left and after another login.               *)
(***************************************************************************)
EXTENDS RequestGate

CONSTANT Filters, NoFilter

ASSUME InitialFilter == NoFilter \in Filters

VARIABLES
  session,        \* the login whose token the client holds, or NoToken
  filter,         \* what is selected on it
  due,            \* its effect has still to run
  shown,          \* the request whose answer it shows, 0 before any
  loading,        \* spinner of the list
  running,        \* spinner of the pipeline
  failed,         \* error banner
  waits,          \* the requests this dashboard waits for
  asked,          \* the filter a request was sent for
  overlapped,     \* history: this dashboard had two answers outstanding
  held            \* history: the logins whose tokens the client has held while
                  \* this dashboard was open

page == <<filter, due, shown, loading, running, failed, waits, overlapped, held>>
consoleVars == <<gateVars, session, page, asked>>

-----------------------------------------------------------------------------
ConsoleInit ==
  /\ GateInit
  /\ session = NoToken
  /\ filter = NoFilter
  /\ due = FALSE
  /\ shown = 0
  /\ loading = FALSE
  /\ running = FALSE
  /\ failed = FALSE
  /\ waits = {}
  /\ asked = [r \in Requests |-> NoFilter]
  /\ overlapped = FALSE
  /\ held = {}

\* The component's state when it is mounted or gone.
NewPage(effect) ==
  /\ filter' = NoFilter
  /\ due' = effect
  /\ shown' = 0
  /\ loading' = FALSE
  /\ running' = FALSE
  /\ failed' = FALSE
  /\ waits' = {}
  /\ overlapped' = FALSE
  /\ held' = {session'} \ {NoToken}

\* LoginPage.  Its button is disabled until the answer arrives, but the Enter key
\* submits again.  The browser's Back leads to it from the console, which keeps
\* the token and mounts another dashboard later.
Login(r) ==
  /\ Send(r, "login", NoToken)
  /\ UNCHANGED <<session, asked>>
  /\ IF session = NoToken THEN UNCHANGED page ELSE ~due /\ NewPage(TRUE)

\* useAuth.logout: the header is built before the token is cleared, and nobody
\* waits for the answer.
Logout(r) ==
  /\ session # NoToken /\ ~due
  /\ Send(r, "logout", session)
  /\ session' = NoToken
  /\ NewPage(FALSE)
  /\ UNCHANGED asked

\* To another page of the console and back.
Reopen ==
  /\ session # NoToken /\ ~due
  /\ UNCHANGED <<gateVars, session, asked>>
  /\ NewPage(TRUE)

\* Mutant: the list is not loaded again.
ChangeFilterOnly(f) ==
  /\ session # NoToken /\ ~due /\ f # filter
  /\ filter' = f
  /\ UNCHANGED <<gateVars, session, due, shown, loading, running, failed, waits,
                 overlapped, held, asked>>

\* setSeverity, setStatusFilter: load depends on them, so its effect runs.
ChangeFilter(f) ==
  /\ session # NoToken /\ ~due /\ f # filter
  /\ filter' = f
  /\ due' = TRUE
  /\ UNCHANGED <<gateVars, session, shown, loading, running, failed, waits,
                 overlapped, held, asked>>

\* The callback load.
SendList(r) ==
  /\ Send(r, "list", session)
  /\ asked' = [asked EXCEPT ![r] = filter]
  /\ loading' = TRUE
  /\ failed' = FALSE
  /\ overlapped' = (overlapped \/ waits # {})
  /\ waits' = waits \cup {r}
  /\ UNCHANGED <<session, filter, shown, running, held>>

\* The effect calls it, and so does the button, which is disabled while the list
\* is loading.
Load(r) == due /\ due' = FALSE /\ SendList(r)

Refresh(r) == session # NoToken /\ ~due /\ ~loading /\ UNCHANGED due /\ SendList(r)

RunPipeline(r) ==
  /\ session # NoToken /\ ~due /\ ~running /\ Permits(claim[session], "run")
  /\ Send(r, "run", session)
  /\ running' = TRUE
  /\ failed' = FALSE
  /\ overlapped' = (overlapped \/ waits # {})
  /\ waits' = waits \cup {r}
  /\ UNCHANGED <<session, filter, due, shown, loading, held, asked>>

-----------------------------------------------------------------------------
\* useAuth.login after its await.  Without a dashboard one is mounted; one that is
\* open, because another login was answered before, stays and does not load again.
ReceiveLogin(r, ok) ==
  /\ kind[r] = "login"
  /\ IF ok
     THEN /\ session' = r
          /\ IF session = NoToken
             THEN NewPage(TRUE)
             ELSE /\ held' = held \cup {r}
                  /\ UNCHANGED <<filter, due, shown, loading, running, failed, waits, overlapped>>
     ELSE UNCHANGED <<session, page>>

\* Mutants: the answer is shown on whatever dashboard is open; a failed load
\* leaves its spinner.
ReceiveForAnyPage(r, ok) ==
  /\ kind[r] \in {"list", "run"}
  /\ shown' = IF ok THEN r ELSE shown
  /\ failed' = (failed \/ ~ok)
  /\ loading' = (loading /\ kind[r] # "list")
  /\ running' = (running /\ kind[r] # "run")
  /\ waits' = waits \ {r}
  /\ UNCHANGED <<session, filter, due, overlapped, held>>
ReceiveWithoutFinally(r, ok) ==
  /\ r \in waits
  /\ shown' = IF ok THEN r ELSE shown
  /\ failed' = (failed \/ ~ok)
  /\ loading' = (loading /\ (kind[r] # "list" \/ ~ok))
  /\ running' = (running /\ kind[r] # "run")
  /\ waits' = waits \ {r}
  /\ UNCHANGED <<session, filter, due, overlapped, held>>

\* load and runPipeline after their await.
ReceiveData(r, ok) ==
  /\ r \in waits
  /\ shown' = IF ok THEN r ELSE shown
  /\ failed' = (failed \/ ~ok)
  /\ loading' = (loading /\ kind[r] # "list")
  /\ running' = (running /\ kind[r] # "run")
  /\ waits' = waits \ {r}
  /\ UNCHANGED <<session, filter, due, overlapped, held>>

\* Of a logout, or for a dashboard that is gone.
Disregard(r) ==
  /\ kind[r] = "logout" \/ (kind[r] \in {"list", "run"} /\ r \notin waits)
  /\ UNCHANGED <<session, page>>

Receive(r) ==
  /\ Arrives(r)
  /\ UNCHANGED asked
  /\ \/ \E ok \in {answer[r] = "ok", FALSE} : ReceiveLogin(r, ok) \/ ReceiveData(r, ok)
     \/ Disregard(r)

UserStep ==
  \/ \E r \in Requests : Login(r) \/ Logout(r) \/ Load(r) \/ Refresh(r) \/ RunPipeline(r)
  \/ \E f \in Filters : ChangeFilter(f)
  \/ Reopen

ServerStep(r) == Serve(r) /\ UNCHANGED <<session, page, asked>>

ConsoleNext ==
  \/ UserStep
  \/ \E r \in Requests : ServerStep(r) \/ Receive(r)
  \/ /\ Elsewhere \/ \E r \in Requests : Fail(r)
     /\ UNCHANGED <<session, page, asked>>

\* Workers serve what reaches them and answers or their failures arrive; nobody
\* has to use the console, and time and administrators go on as they like.
ConsoleSpec ==
  /\ ConsoleInit /\ [][ConsoleNext]_consoleVars
  /\ \A r \in Requests : WF_consoleVars(ServerStep(r)) /\ WF_consoleVars(Receive(r))

-----------------------------------------------------------------------------
Flags == /\ due \in BOOLEAN /\ loading \in BOOLEAN /\ running \in BOOLEAN
         /\ failed \in BOOLEAN /\ overlapped \in BOOLEAN

TypeOK ==
  /\ GateTypeOK
  /\ session \in Requests \cup {NoToken}
  /\ filter \in Filters
  /\ shown \in Requests \cup {0}
  /\ Flags
  /\ waits \in SUBSET Requests
  /\ held \in SUBSET Requests
  /\ asked \in [Requests -> Filters]

\* A dashboard that never had two answers outstanding, waits for none and
\* shows no error shows the list of the selected filter or the cases of a run,
\* whatever answers of earlier dashboards and logins arrive meanwhile.
PageMatchesFilter ==
  session # NoToken /\ ~overlapped /\ ~due /\ ~loading /\ ~running /\ ~failed =>
    shown # 0 /\ (asked[shown] = filter \/ kind[shown] = "run")

\* What is on the screen was fetched with a token the client has held since this
\* dashboard was opened: with the present one, unless a login was answered while
\* the dashboard was open, and never with one of a session that ended before.
OwnSession == shown # 0 => {token[shown], session} \subseteq held

\* The spinner of a dashboard stops, unless it is left or loads once more.
SpinnerEnds == loading ~> ~loading
=============================================================================
