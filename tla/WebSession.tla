------------------------------- MODULE WebSession -------------------------------
(***************************************************************************)
(* The session of the web console: session.ts, the shell of App.tsx, the   *)
(* sign-in form and the interceptor of client.ts.                          *)
(*                                                                         *)
(* One session object is in force at a time.  The page's location may ask  *)
(* for a viewer of one downstream key; the shell then puts a viewer        *)
(* session in force and has the server verify it.  Verifications and the   *)
(* pages' requests are answered in any order, also after the session they  *)
(* were sent with was replaced.                                            *)
(***************************************************************************)
EXTENDS Naturals, FiniteSets

CONSTANTS
    Keys,           \* downstream keys: what a viewer presents
    PanelKeys,      \* those the location of an embedding panel may ask for
    Secrets,        \* management keys
    NoKey,          \* no credentials
    MaxMoves,       \* bound: visits, sign-ins by form and reloads
    MaxRequests,    \* bound: page requests under way
    MaxChanges      \* bound: changes of what the server accepts

ASSUME CredentialsAssumption ==
    Keys \cap Secrets = {} /\ PanelKeys \subseteq Keys /\ NoKey \notin Keys \cup Secrets
ASSUME BoundsAssumption == MaxMoves \in Nat /\ MaxRequests \in Nat /\ MaxChanges \in Nat

Credentials == Keys \cup Secrets

VARIABLES
    location,       \* the viewer that the page's own hash asks for
    parent,         \* the viewer that the hash of the embedding panel asks for
    panelAuth,      \* the management key the panel has saved, or NoKey
    accepted,       \* the credentials the server accepts
    current,        \* the session in force
    issued,         \* how many session objects there have been: their identity
    bootstrapped,   \* the shell has restored a session or has given up
    seen,           \* what the shell's effect depended on when it last ran
    alive,          \* the verification whose end the last effect waits for
    verifying,      \* verifications under way
    requests,       \* page requests under way
    shown,          \* whose data the mounted page shows
    moves, changes

vars == <<location, parent, panelAuth, accepted, current, issued, bootstrapped, seen, alive,
          verifying, requests, shown, moves, changes>>

surroundings == <<parent, panelAuth>>
shell == <<bootstrapped, seen, alive>>
server == <<accepted, changes>>

--------------------------------------------------------------------------------
(* Sessions and locations.                                                   *)

Sources == {"direct", "panel"}

NoLocation == [key |-> NoKey, source |-> "direct"]

Locations == [key : Keys, source : Sources] \cup {NoLocation}

\* A panel's own hash is never of the direct form.
ParentLocations == [key : PanelKeys, source : {"panel"}] \cup {NoLocation}

NoSession == [id |-> 0, mode |-> "none", key |-> NoKey, source |-> "direct",
              keyID |-> NoKey, verified |-> FALSE]

ManagementSession(id, k) == [NoSession EXCEPT !.id = id, !.mode = "management", !.key = k]

ViewerSession(id, l) ==
    [NoSession EXCEPT !.id = id, !.mode = "viewer", !.key = l.key, !.source = l.source]

IsViewer(s) == s.mode = "viewer"

IsAuthed(s) == s.mode = "management" \/ s.verified

\* The viewer to restore: the page's own hash first, then the panel's.
ViewerLocation == IF location # NoLocation THEN location ELSE parent

Mismatch == location # NoLocation /\ (~IsViewer(current) \/ current.key # location.key)

AccessGranted == IsAuthed(current) /\ ~Mismatch

Restoring == ~AccessGranted /\ (~bootstrapped \/ Mismatch)

LoginShown == ~AccessGranted /\ ~Restoring /\ ~IsViewer(current)

\* Mutant of Dependencies: the effect does not depend on the mismatch.
MissingDependency == [bootstrapped |-> bootstrapped, location |-> location, mismatch |-> FALSE]

Dependencies == [bootstrapped |-> bootstrapped, location |-> location, mismatch |-> Mismatch]

\* The pages stay mounted as long as access is granted and the mode is the same.
Rendered ==
    IF AccessGranted' /\ current'.mode = current.mode THEN UNCHANGED shown ELSE shown' = NoKey

\* Mutant of Orphaned: a page that was left still takes its answers.
KeptAlive(rs) == rs

\* Answers to requests of a page that is no longer mounted are not shown.
Orphaned(rs) ==
    IF AccessGranted' /\ current'.mode = current.mode
    THEN rs
    ELSE {[r EXCEPT !.mounted = FALSE] : r \in rs}

--------------------------------------------------------------------------------
(* The shell's effect.                                                       *)

\* The effect has run since its dependencies changed last.  A render and its
\* effects are over before the next answer or event of the browser is taken.
Settled == seen = Dependencies

\* A run of the effect first abandons the run before it.
RunsEffect ==
    /\ ~Settled
    /\ seen' = Dependencies
    /\ UNCHANGED <<location, surroundings, server, moves>>
    /\ Rendered
    /\ requests' = Orphaned(requests)

\* A sign-in puts a new session in force and asks the server to verify it.
Verify(session, by) ==
    /\ current' = session
    /\ issued' = issued + 1
    /\ verifying' = verifying \cup {[id |-> session.id, key |-> session.key, by |-> by]}

BootstrapViewer(l) ==
    /\ Verify(ViewerSession(issued + 1, l), "viewer")
    /\ alive' = issued + 1

BootstrapEnds ==
    /\ bootstrapped' = TRUE
    /\ alive' = 0
    /\ UNCHANGED <<current, issued, verifying>>

EffectIdle ==
    /\ bootstrapped /\ ~Mismatch
    /\ alive' = 0
    /\ UNCHANGED <<bootstrapped, current, issued, verifying>>
    /\ RunsEffect

EffectMismatch ==
    /\ Mismatch
    /\ bootstrapped' = FALSE
    /\ BootstrapViewer(location)
    /\ RunsEffect

RestoreViewer ==
    /\ ~bootstrapped /\ ~Mismatch
    /\ ViewerLocation # NoLocation
    /\ BootstrapViewer(ViewerLocation)
    /\ UNCHANGED bootstrapped
    /\ RunsEffect

RestoreFromPanel ==
    /\ ~bootstrapped /\ ~Mismatch
    /\ ViewerLocation = NoLocation
    /\ ~IsAuthed(current) /\ panelAuth # NoKey
    /\ Verify(ManagementSession(issued + 1, panelAuth), "panel")
    /\ alive' = issued + 1
    /\ UNCHANGED bootstrapped
    /\ RunsEffect

RestoreNothing ==
    /\ ~bootstrapped /\ ~Mismatch
    /\ ViewerLocation = NoLocation
    /\ IsAuthed(current) \/ panelAuth = NoKey
    /\ BootstrapEnds
    /\ RunsEffect

Effect == EffectIdle \/ EffectMismatch \/ RestoreViewer \/ RestoreFromPanel \/ RestoreNothing

--------------------------------------------------------------------------------
(* The server's answers to verifications.                                    *)

\* The bootstrap that started it ends; the shell notices unless it has run
\* its effect again since.
Ends(v) ==
    /\ verifying' = verifying \ {v}
    /\ bootstrapped' = (bootstrapped \/ v.id = alive)
    /\ alive' = IF v.id = alive THEN 0 ELSE alive
    /\ UNCHANGED <<seen, surroundings, server, moves>>
    /\ Rendered
    /\ requests' = Orphaned(requests)

\* Mutant of Commit: it does not look which session was verified.
CommitToCurrent(v) ==
    /\ current' = [current EXCEPT !.id = issued + 1, !.keyID = v.key, !.verified = TRUE]
    /\ issued' = issued + 1

\* Mutant of Commit: the answer signs in, whatever session is in force.
CommitWhatever(v) ==
    /\ current' = [ViewerSession(issued + 1, [key |-> v.key, source |-> "direct"])
                      EXCEPT !.keyID = v.key, !.verified = TRUE]
    /\ issued' = issued + 1

\* The answer names the key that was presented.  It is taken up only if the
\* session it was asked for is still the one in force.
Commit(v) ==
    IF current.id = v.id
    THEN /\ current' = [current EXCEPT !.id = issued + 1, !.keyID = v.key, !.verified = TRUE]
         /\ issued' = issued + 1
    ELSE UNCHANGED <<current, issued>>

ViewerVerified(v) ==
    /\ v.by = "viewer" /\ v.key \in accepted
    /\ Commit(v)
    /\ UNCHANGED location
    /\ Ends(v)

\* Sign-in by the form goes on to the overview, wherever the page is by then.
ManagementVerified(v) ==
    /\ v.by \in {"panel", "form"} /\ v.key \in accepted
    /\ location' = IF v.by = "form" THEN NoLocation ELSE location
    /\ UNCHANGED <<current, issued>>
    /\ Ends(v)

\* The key is rejected, or there is no answer.  A panel sign-in that fails
\* signs out; one by the form leaves the session in force.
VerificationFails(v) ==
    /\ current' = IF v.by = "panel" THEN NoSession ELSE current
    /\ UNCHANGED <<location, issued>>
    /\ Ends(v)

VerificationAnswered ==
    /\ Settled
    /\ \E v \in verifying : ViewerVerified(v) \/ ManagementVerified(v) \/ VerificationFails(v)

--------------------------------------------------------------------------------
(* The user.                                                                 *)

MayMove == Settled /\ moves < MaxMoves /\ moves' = moves + 1

\* The hash is edited, a link followed, the browser's back button pressed.
Visit(l) ==
    /\ MayMove
    /\ l # location
    /\ location' = l
    /\ UNCHANGED <<surroundings, server, current, issued, shell, verifying>>
    /\ Rendered
    /\ requests' = Orphaned(requests)

\* A viewer that leaves its routes is sent back to the detail page.
ViewerHome ==
    IF current.source = "direct" THEN [key |-> current.key, source |-> "direct"] ELSE NoLocation

Redirect ==
    /\ AccessGranted /\ IsViewer(current)
    /\ location # ViewerHome
    /\ location' = ViewerHome
    /\ UNCHANGED <<surroundings, server, current, issued, shell, verifying, moves>>
    /\ Rendered
    /\ requests' = Orphaned(requests)

\* The session is in force, and the pages mounted, before the server has
\* accepted the key.
SignIn(k) ==
    /\ MayMove
    /\ LoginShown
    /\ Verify(ManagementSession(issued + 1, k), "form")
    /\ UNCHANGED <<location, surroundings, server, shell>>
    /\ Rendered
    /\ requests' = Orphaned(requests)

\* Reloading forgets everything but the location and what the panel keeps.
Reload ==
    /\ MayMove
    /\ current' = NoSession
    /\ bootstrapped' = FALSE
    /\ seen' = [bootstrapped |-> TRUE, location |-> NoLocation, mismatch |-> TRUE]
    /\ alive' = 0
    /\ verifying' = {}
    /\ requests' = {}
    /\ shown' = NoKey
    /\ UNCHANGED <<location, surroundings, server, issued>>

--------------------------------------------------------------------------------
(* The pages' requests.                                                      *)

\* apiClient takes the key of the session in force.
SendRequest ==
    /\ AccessGranted
    /\ Cardinality(requests) < MaxRequests
    /\ requests' = requests \cup {[id |-> current.id, key |-> current.key, mounted |-> TRUE]}
    /\ UNCHANGED <<location, surroundings, server, current, issued, shell, verifying, shown, moves>>

RequestServed(r) ==
    /\ r.key \in accepted
    /\ requests' = requests \ {r}
    /\ shown' = IF r.mounted THEN r.key ELSE shown
    /\ UNCHANGED <<location, surroundings, server, current, issued, shell, verifying, moves>>

Invalidated == IF IsViewer(current) THEN [current EXCEPT !.id = issued + 1, !.verified = FALSE] ELSE NoSession

\* 401 or 403: the interceptor invalidates the session then in force.
RequestDenied(r) ==
    /\ r.key \notin accepted
    /\ current' = Invalidated
    /\ issued' = issued + 1
    /\ requests' = Orphaned(requests \ {r})
    /\ UNCHANGED <<location, surroundings, server, shell, verifying, moves>>
    /\ Rendered

\* Any other failure is the page's own business.
RequestFails(r) ==
    /\ requests' = requests \ {r}
    /\ UNCHANGED <<location, surroundings, server, current, issued, shell, verifying, shown, moves>>

RequestAnswered ==
    /\ Settled
    /\ \E r \in requests : RequestServed(r) \/ RequestDenied(r) \/ RequestFails(r)

--------------------------------------------------------------------------------
(* The server: keys are revoked, disabled and enabled again.                 *)

ChangeAccepted(k) ==
    /\ changes < MaxChanges
    /\ changes' = changes + 1
    /\ accepted' = IF k \in accepted THEN accepted \ {k} ELSE accepted \cup {k}
    /\ UNCHANGED <<location, surroundings, current, issued, shell, verifying, requests, shown, moves>>

--------------------------------------------------------------------------------

\* The console is being opened on some location, by itself or inside a panel.
Init ==
    /\ location \in Locations
    /\ parent \in ParentLocations
    /\ panelAuth \in Secrets \cup {NoKey}
    /\ accepted \in SUBSET Credentials
    /\ current = NoSession
    /\ issued = 0
    /\ bootstrapped = FALSE
    /\ seen = [bootstrapped |-> TRUE, location |-> NoLocation, mismatch |-> TRUE]
    /\ alive = 0
    /\ verifying = {}
    /\ requests = {}
    /\ shown = NoKey
    /\ moves = 0
    /\ changes = 0

Next ==
    \/ Effect
    \/ VerificationAnswered
    \/ \E l \in Locations : Visit(l)
    \/ Redirect
    \/ \E k \in Secrets : SignIn(k)
    \/ Reload
    \/ SendRequest
    \/ RequestAnswered
    \/ \E k \in Credentials : ChangeAccepted(k)

Spec == Init /\ [][Next]_vars

\* React runs its effects and redirects, and a request sent is answered or
\* fails in the end.  Users and servers may change their minds or not.
FairSpec ==
    /\ Spec
    /\ WF_vars(Effect)
    /\ WF_vars(Redirect)
    /\ WF_vars(VerificationAnswered)
    /\ WF_vars(RequestAnswered)

--------------------------------------------------------------------------------
(* Properties.                                                               *)

TypeOK ==
    /\ location \in Locations
    /\ parent \in ParentLocations
    /\ panelAuth \in Secrets \cup {NoKey}
    /\ accepted \subseteq Credentials
    /\ current \in [id : Nat, mode : {"none", "management", "viewer"}, key : Credentials \cup {NoKey},
                    source : Sources, keyID : Keys \cup {NoKey}, verified : BOOLEAN]
    /\ issued \in Nat
    /\ bootstrapped \in BOOLEAN
    /\ seen \in [bootstrapped : BOOLEAN, location : Locations, mismatch : BOOLEAN]
    /\ alive \in Nat
    /\ verifying \subseteq [id : Nat, key : Credentials, by : {"viewer", "panel", "form"}]
    /\ requests \subseteq [id : Nat, key : Credentials, mounted : BOOLEAN]
    /\ shown \in Credentials \cup {NoKey}
    /\ moves \in Nat
    /\ changes \in Nat

\* What the pages show is data of the credentials in force, and never of
\* others than the location asks for: not of the key looked at before, and
\* not what management may see when the location is a viewer's.
ShownInForce ==
    shown # NoKey =>
        /\ AccessGranted
        /\ shown = current.key
        /\ location # NoLocation => shown = location.key

\* A viewer counts as verified only under the id the server answered for the
\* very key it presents, whatever was answered late for another.
VerifiedAsItself ==
    current.verified => IsViewer(current) /\ current.keyID = current.key

\* Nothing the server answers puts other credentials in force: those change
\* by a sign-in only, and an answer confirms the session, withdraws it or
\* leaves it alone.
AnswersSignNobodyIn ==
    [][ (current'.key # current.key /\ current'.key # NoKey) =>
            \E v \in verifying' \ verifying : v.id = current'.id ]_vars

\* However visits, sign-ins and late answers fall together, the shell does
\* not go on restoring for ever: in the end it shows the pages, the sign-in
\* form or that the viewer key is invalid.
RestoringEnds == []<>~Restoring

================================================================================
