---------------------------- MODULE WebSession_proofs ----------------------------
(***************************************************************************)
(* WebSession for any keys, any locations and any number of moves,         *)
(* requests and changes.                                                   *)
(***************************************************************************)
EXTENDS WebSession, TLAPS

Sessions ==
    [id : Nat, mode : {"none", "management", "viewer"}, key : Credentials \cup {NoKey},
     source : Sources, keyID : Keys \cup {NoKey}, verified : BOOLEAN]

Verifications == [id : Nat, key : Credentials, by : {"viewer", "panel", "form"}]

Requests == [id : Nat, key : Credentials, mounted : BOOLEAN]

Dependence == [bootstrapped : BOOLEAN, location : Locations, mismatch : BOOLEAN]

(* The credentials of a session are those of its mode.                      *)
Keyed ==
    /\ IsViewer(current) => current.key \in Keys
    /\ current.mode = "management" => current.key \in Secrets

(* A session object is issued once; what a verification under way was asked *)
(* for is still what the session of its identity presents.                  *)
Identified ==
    /\ current.id <= issued
    /\ \A v \in verifying :
         /\ 1 <= v.id /\ v.id <= issued
         /\ v.by = "viewer" => v.key \in Keys
         /\ v.id = current.id => v.key = current.key /\ (v.by = "viewer" => IsViewer(current))

(* Neither the page nor an answer it will take is of other credentials.     *)
Fresh ==
    /\ shown # NoKey => AccessGranted /\ shown = current.key
    /\ \A r \in requests : r.mounted => AccessGranted /\ r.key = current.key

Inv == TypeOK /\ Keyed /\ Identified /\ VerifiedAsItself /\ Fresh

--------------------------------------------------------------------------------
(* Session objects.                                                          *)

LEMMA NoSessionTyped ==
    /\ NoSession \in Sessions
    /\ NoSession.id = 0 /\ NoSession.mode = "none" /\ NoSession.key = NoKey
    /\ NoSession.verified = FALSE
  BY DEF NoSession, Sessions, Sources

LEMMA ManagementTyped ==
    ASSUME NEW id \in Nat, NEW k \in Secrets
    PROVE  /\ ManagementSession(id, k) \in Sessions
           /\ ManagementSession(id, k).id = id
           /\ ManagementSession(id, k).mode = "management"
           /\ ManagementSession(id, k).key = k
           /\ ManagementSession(id, k).verified = FALSE
  <1>1. ASSUME NEW s \in Sessions
        PROVE  LET c == [s EXCEPT !.id = id, !.mode = "management", !.key = k]
               IN  /\ c \in Sessions
                   /\ c.id = id /\ c.mode = "management" /\ c.key = k
                   /\ c.verified = s.verified
    BY DEF Sessions, Credentials
  <1> QED
    BY <1>1, NoSessionTyped DEF ManagementSession

LEMMA ViewerTyped ==
    ASSUME NEW id \in Nat, NEW l \in Locations, l # NoLocation
    PROVE  /\ ViewerSession(id, l) \in Sessions
           /\ ViewerSession(id, l).id = id
           /\ ViewerSession(id, l).mode = "viewer"
           /\ ViewerSession(id, l).key = l.key
           /\ ViewerSession(id, l).verified = FALSE
           /\ l.key \in Keys
  <1>1. PICK k \in Keys, from \in Sources : l.key = k /\ l.source = from
    BY DEF Locations
  <1>2. ASSUME NEW s \in Sessions
        PROVE  LET c == [s EXCEPT !.id = id, !.mode = "viewer", !.key = k, !.source = from]
               IN  /\ c \in Sessions
                   /\ c.id = id /\ c.mode = "viewer" /\ c.key = k
                   /\ c.verified = s.verified
    BY DEF Sessions, Credentials
  <1> DEFINE c == [NoSession EXCEPT !.id = id, !.mode = "viewer", !.key = k, !.source = from]
  <1>3. /\ c \in Sessions
        /\ c.id = id /\ c.mode = "viewer" /\ c.key = k
        /\ c.verified = FALSE
    BY <1>2, NoSessionTyped
  <1>4. ViewerSession(id, l) = c
    BY <1>1 DEF ViewerSession
  <1> QED
    BY <1>1, <1>3, <1>4

Confirmed(s, id, k) == [s EXCEPT !.id = id, !.keyID = k, !.verified = TRUE]

LEMMA ConfirmedTyped ==
    ASSUME NEW s \in Sessions, NEW id \in Nat, NEW k \in Keys
    PROVE  /\ Confirmed(s, id, k) \in Sessions
           /\ Confirmed(s, id, k).id = id /\ Confirmed(s, id, k).keyID = k
           /\ Confirmed(s, id, k).mode = s.mode /\ Confirmed(s, id, k).key = s.key
  BY DEF Sessions, Confirmed

LEMMA WithdrawnTyped ==
    ASSUME NEW s \in Sessions, NEW id \in Nat
    PROVE  LET c == [s EXCEPT !.id = id, !.verified = FALSE]
           IN  /\ c \in Sessions
               /\ c.id = id /\ c.verified = FALSE
               /\ c.mode = s.mode /\ c.key = s.key
  BY DEF Sessions

LEMMA ViewerLocationTyped ==
    ASSUME TypeOK
    PROVE  ViewerLocation \in Locations
  BY CredentialsAssumption DEF TypeOK, ViewerLocation, Locations, ParentLocations, Sources

--------------------------------------------------------------------------------
(* What a step does to the session in force and to the verifications.       *)

SessionOK == /\ current \in Sessions /\ issued \in Nat /\ verifying \subseteq Verifications
             /\ Keyed /\ Identified /\ VerifiedAsItself

(* A sign-in puts an unverified session of a new identity in force.         *)
LEMMA SignsIn ==
    ASSUME SessionOK, NEW s \in Sessions, NEW by \in {"viewer", "panel", "form"},
           s.id = issued + 1, s.verified = FALSE,
           \/ s.mode = "viewer" /\ s.key \in Keys
           \/ s.mode = "management" /\ s.key \in Secrets,
           by = "viewer" => s.mode = "viewer",
           Verify(s, by)
    PROVE  SessionOK'
  <1> DEFINE v == [id |-> s.id, key |-> s.key, by |-> by]
  <1>1. /\ v \in Verifications /\ v.id = issued + 1 /\ v.key = s.key /\ v.by = by
        /\ v.by = "viewer" => v.key \in Keys
    <2>1. s.key \in Credentials /\ s.id \in Nat
      BY DEF Credentials, SessionOK
    <2>2. by = "viewer" => s.key \in Keys
      OBVIOUS
    <2> QED
      BY <2>1, <2>2 DEF Verifications
  <1>2. current' = s /\ issued' = issued + 1 /\ verifying' = verifying \cup {v}
    BY DEF Verify
  <1> HIDE DEF v
  <1>3. issued \in Nat /\ verifying \subseteq Verifications
    BY DEF SessionOK
  <1>4. Keyed'
    BY <1>2 DEF Keyed, IsViewer
  <1>5. ASSUME NEW w \in verifying'
        PROVE  /\ 1 <= w.id /\ w.id <= issued'
               /\ w.by = "viewer" => w.key \in Keys
               /\ w.id = current'.id => w.key = current'.key
                                        /\ (w.by = "viewer" => current'.mode = "viewer")
    <2>1. CASE w = v
      BY <1>1, <1>2, <1>3, <2>1
    <2>2. CASE w \in verifying
      <3>1. w.id \in Nat /\ 1 <= w.id /\ w.id <= issued /\ (w.by = "viewer" => w.key \in Keys)
        BY <1>3, <2>2 DEF SessionOK, Identified, Verifications
      <3> QED
        BY <1>2, <1>3, <3>1
    <2> QED
      BY <1>2, <2>1, <2>2
  <1>6. Identified'
    BY <1>2, <1>3, <1>5 DEF Identified, IsViewer
  <1>7. VerifiedAsItself'
    BY <1>2 DEF VerifiedAsItself
  <1> QED
    BY <1>1, <1>2, <1>3, <1>4, <1>6, <1>7 DEF SessionOK

(* The session stays, or gives way to none, or changes its verification     *)
(* under a new identity.                                                    *)
LEMMA SessionStays ==
    ASSUME SessionOK, verifying' \subseteq verifying, UNCHANGED <<current, issued>>
    PROVE  SessionOK'
  <1>1. verifying' \subseteq Verifications
    BY DEF SessionOK
  <1>2. Keyed' /\ VerifiedAsItself' /\ Identified'
    BY DEF SessionOK, Keyed, VerifiedAsItself, Identified, IsViewer
  <1> QED
    BY <1>1, <1>2 DEF SessionOK

LEMMA SessionEnds ==
    ASSUME SessionOK, verifying' \subseteq verifying, current' = NoSession,
           issued' \in {issued, issued + 1}
    PROVE  SessionOK'
  <1>1. issued \in Nat /\ verifying \subseteq Verifications
    BY DEF SessionOK
  <1>2. issued' \in Nat /\ issued <= issued'
    BY <1>1
  <1>3. ASSUME NEW w \in verifying'
        PROVE  /\ w.id \in Nat /\ 1 <= w.id /\ w.id <= issued'
               /\ w.by = "viewer" => w.key \in Keys
    <2>1. /\ w.id \in Nat /\ 1 <= w.id /\ w.id <= issued
          /\ w.by = "viewer" => w.key \in Keys
      BY <1>1 DEF SessionOK, Identified, Verifications
    <2> QED
      BY <1>1, <1>2, <2>1
  <1>4. Identified'
    BY <1>2, <1>3, NoSessionTyped DEF Identified
  <1>5. Keyed' /\ VerifiedAsItself'
    BY NoSessionTyped DEF Keyed, IsViewer, VerifiedAsItself
  <1> QED
    BY <1>1, <1>2, <1>4, <1>5, NoSessionTyped DEF SessionOK

LEMMA SessionReissued ==
    ASSUME SessionOK, verifying' \subseteq verifying, current' \in Sessions,
           issued' = issued + 1, current'.id = issued + 1,
           current'.mode = current.mode, current'.key = current.key,
           current'.verified => current.mode = "viewer" /\ current'.keyID = current.key
    PROVE  SessionOK'
  <1>1. issued \in Nat /\ verifying \subseteq Verifications
    BY DEF SessionOK
  <1>2. ASSUME NEW w \in verifying'
        PROVE  /\ 1 <= w.id /\ w.id <= issued' /\ w.id # current'.id
               /\ w.by = "viewer" => w.key \in Keys
    <2>1. /\ w.id \in Nat /\ 1 <= w.id /\ w.id <= issued
          /\ w.by = "viewer" => w.key \in Keys
      BY <1>1 DEF SessionOK, Identified, Verifications
    <2> QED
      BY <1>1, <2>1
  <1>3. Identified'
    BY <1>1, <1>2 DEF Identified
  <1>4. Keyed' /\ VerifiedAsItself'
    BY DEF SessionOK, Keyed, IsViewer, VerifiedAsItself
  <1> QED
    BY <1>1, <1>3, <1>4 DEF SessionOK

--------------------------------------------------------------------------------
(* What a step does to the pages: they are rendered anew, and kept only if  *)
(* access goes on being granted in the same mode.                           *)

LEMMA PagesRendered ==
    ASSUME Fresh, Rendered, NEW rs \in SUBSET requests, requests' = Orphaned(rs),
           rs \subseteq Requests,
           AccessGranted /\ AccessGranted' /\ current'.mode = current.mode
               => current'.key = current.key
    PROVE  /\ Fresh'
           /\ requests' \subseteq Requests
           /\ shown' \in {shown, NoKey}
  <1>1. CASE AccessGranted' /\ current'.mode = current.mode
    <2>1. shown' = shown /\ requests' = rs
      BY <1>1 DEF Rendered, Orphaned
    <2>2. CASE AccessGranted
      BY <1>1, <2>1, <2>2 DEF Fresh
    <2>3. CASE ~AccessGranted
      BY <1>1, <2>1, <2>3 DEF Fresh
    <2> QED
      BY <2>1, <2>2, <2>3
  <1>2. CASE ~(AccessGranted' /\ current'.mode = current.mode)
    <2>1. shown' = NoKey
      BY <1>2 DEF Rendered
    <2>2. requests' = {[r EXCEPT !.mounted = FALSE] : r \in rs}
      BY <1>2 DEF Orphaned
    <2>3. \A r \in Requests : /\ [r EXCEPT !.mounted = FALSE] \in Requests
                              /\ [r EXCEPT !.mounted = FALSE].mounted = FALSE
      BY DEF Requests
    <2>4. requests' \subseteq Requests /\ \A r \in requests' : r.mounted = FALSE
      BY <2>2, <2>3
    <2> QED
      BY <2>1, <2>4 DEF Fresh
  <1> QED
    BY <1>1, <1>2

--------------------------------------------------------------------------------
(* The invariant is inductive.                                               *)

\* The rest of TypeOK.
RestOK ==
    /\ location \in Locations /\ parent \in ParentLocations
    /\ panelAuth \in Secrets \cup {NoKey} /\ accepted \subseteq Credentials
    /\ bootstrapped \in BOOLEAN /\ seen \in Dependence /\ alive \in Nat
    /\ moves \in Nat /\ changes \in Nat

PagesOK == requests \subseteq Requests /\ shown \in Credentials \cup {NoKey} /\ Fresh

LEMMA InvParts ==
    /\ Inv <=> RestOK /\ SessionOK /\ PagesOK
    /\ Inv' <=> RestOK' /\ SessionOK' /\ PagesOK'
  BY DEF Inv, TypeOK, RestOK, SessionOK, PagesOK, Sessions, Verifications, Requests, Dependence

LEMMA InvInit ==
    ASSUME Init
    PROVE  Inv
  <1>1. /\ NoSession \in Sessions /\ NoSession.verified = FALSE /\ NoSession.id = 0
        /\ NoSession.mode = "none" /\ NoSession.key = NoKey
    BY NoSessionTyped
  <1>2. NoLocation \in Locations
    BY DEF Locations
  <1>3. [bootstrapped |-> TRUE, location |-> NoLocation, mismatch |-> TRUE] \in Dependence
    BY <1>2 DEF Dependence
  <1>4. RestOK
    BY <1>3 DEF Init, RestOK
  <1>5. SessionOK
    BY <1>1 DEF Init, SessionOK, Keyed, IsViewer, Identified, VerifiedAsItself
  <1>6. PagesOK
    BY DEF Init, PagesOK, Fresh
  <1> QED
    BY <1>4, <1>5, <1>6, InvParts

LEMMA DependenciesTyped ==
    ASSUME RestOK
    PROVE  Dependencies \in Dependence
  BY DEF RestOK, Dependencies, Dependence, Mismatch

\* Access is granted to a session of one of the two modes.
LEMMA GrantedKey ==
    ASSUME SessionOK, AccessGranted
    PROVE  current.key \in Credentials
  BY DEF SessionOK, Keyed, AccessGranted, IsAuthed, VerifiedAsItself, IsViewer, Credentials

LEMMA PagesKept ==
    ASSUME PagesOK, Rendered, NEW rs \in SUBSET requests, requests' = Orphaned(rs),
           AccessGranted /\ AccessGranted' /\ current'.mode = current.mode
               => current'.key = current.key
    PROVE  PagesOK'
  <1>1. Fresh' /\ requests' \subseteq Requests /\ shown' \in {shown, NoKey}
    BY PagesRendered DEF PagesOK
  <1> QED
    BY <1>1 DEF PagesOK

LEMMA EffectStep ==
    ASSUME Inv, Effect
    PROVE  Inv'
  <1>1. RestOK /\ SessionOK /\ PagesOK /\ issued + 1 \in Nat
    BY InvParts DEF SessionOK
  <1>2. RunsEffect
    BY DEF Effect, EffectIdle, EffectMismatch, RestoreViewer, RestoreFromPanel, RestoreNothing
  <1>3. /\ seen' = Dependencies /\ Rendered /\ requests' = Orphaned(requests)
        /\ UNCHANGED <<location, parent, panelAuth, accepted, changes, moves>>
    BY <1>2 DEF RunsEffect, surroundings, server
  <1>4. ASSUME bootstrapped' \in BOOLEAN, alive' \in Nat
        PROVE  RestOK'
    BY <1>1, <1>3, <1>4, DependenciesTyped DEF RestOK
  <1>5. ASSUME UNCHANGED <<current, issued, verifying>>, bootstrapped' \in BOOLEAN, alive' = 0
        PROVE  Inv'
    <2>1. SessionOK' /\ PagesOK'
      BY <1>1, <1>3, <1>5, SessionStays, PagesKept
    <2> QED
      BY <1>4, <1>5, <2>1, InvParts
  <1>6. ASSUME NEW l \in Locations, l # NoLocation, BootstrapViewer(l),
               bootstrapped' \in BOOLEAN
        PROVE  Inv'
    <2> DEFINE s == ViewerSession(issued + 1, l)
    <2>1. /\ s \in Sessions /\ s.id = issued + 1 /\ s.mode = "viewer" /\ s.key \in Keys
          /\ s.verified = FALSE
      <3>1. l \in Locations /\ l # NoLocation
        BY <1>6
      <3>2. PICK n \in Nat : n = issued + 1
        BY <1>1
      <3>3. /\ ViewerSession(n, l) \in Sessions
            /\ ViewerSession(n, l).id = n
            /\ ViewerSession(n, l).mode = "viewer"
            /\ ViewerSession(n, l).key = l.key
            /\ ViewerSession(n, l).verified = FALSE
            /\ l.key \in Keys
        BY <3>1, ViewerTyped, Zenon
      <3> QED
        BY <3>2, <3>3, Zenon
    <2>2. Verify(s, "viewer") /\ alive' = issued + 1
      BY <1>6 DEF BootstrapViewer
    <2> HIDE DEF s
    <2>3. SessionOK'
      <3>1. "viewer" \in {"viewer", "panel", "form"}
        OBVIOUS
      <3> QED
        BY <1>1, <2>1, <2>2, <3>1, SignsIn, Zenon
    <2>4. ~AccessGranted'
      BY <2>1, <2>2 DEF Verify, AccessGranted, IsAuthed
    <2>5. PagesOK'
      BY <1>1, <1>3, <2>4, PagesKept
    <2> QED
      BY <1>1, <1>4, <1>6, <2>2, <2>3, <2>5, InvParts
  <1>7. CASE EffectIdle
    BY <1>1, <1>5, <1>7 DEF EffectIdle, RestOK
  <1>8. CASE EffectMismatch
    BY <1>1, <1>6, <1>8 DEF EffectMismatch, Mismatch, RestOK
  <1>9. CASE RestoreViewer
    BY <1>1, <1>6, <1>9, ViewerLocationTyped DEF RestoreViewer, RestOK, Inv
  <1>10. CASE RestoreFromPanel
    <2> DEFINE s == ManagementSession(issued + 1, panelAuth)
    <2>1. panelAuth \in Secrets
      BY <1>1, <1>10 DEF RestoreFromPanel, RestOK
    <2>2. /\ s \in Sessions /\ s.id = issued + 1 /\ s.mode = "management" /\ s.key \in Secrets
          /\ s.verified = FALSE
      BY <1>1, <2>1, ManagementTyped
    <2>3. Verify(s, "panel") /\ alive' = issued + 1 /\ bootstrapped' = bootstrapped
      BY <1>10 DEF RestoreFromPanel
    <2>4. ~AccessGranted
      BY <1>10 DEF RestoreFromPanel, AccessGranted
    <2> HIDE DEF s
    <2>5. SessionOK' /\ PagesOK'
      BY <1>1, <1>3, <2>2, <2>3, <2>4, SignsIn, PagesKept
    <2> QED
      BY <1>1, <1>4, <2>3, <2>5, InvParts DEF RestOK
  <1>11. CASE RestoreNothing
    BY <1>5, <1>11 DEF RestoreNothing, BootstrapEnds
  <1> QED
    BY <1>7, <1>8, <1>9, <1>10, <1>11 DEF Effect

LEMMA NotGranted ==
    /\ current = NoSession => ~AccessGranted
    /\ current' = NoSession => ~AccessGranted'
  BY NoSessionTyped DEF AccessGranted, IsAuthed

LEMMA AnswerStep ==
    ASSUME Inv, VerificationAnswered
    PROVE  Inv'
  <1>1. RestOK /\ SessionOK /\ PagesOK
    BY InvParts
  <1>2. PICK v \in verifying : ViewerVerified(v) \/ ManagementVerified(v) \/ VerificationFails(v)
    BY DEF VerificationAnswered
  <1>3. Ends(v)
    BY <1>2 DEF ViewerVerified, ManagementVerified, VerificationFails
  <1>4. /\ verifying' \subseteq verifying /\ Rendered /\ requests' = Orphaned(requests)
        /\ bootstrapped' \in BOOLEAN /\ alive' \in {0, alive}
        /\ UNCHANGED <<seen, parent, panelAuth, accepted, changes, moves>>
    BY <1>1, <1>3 DEF Ends, RestOK, surroundings, server
  <1>5. location' \in Locations
    BY <1>1, <1>2 DEF ViewerVerified, ManagementVerified, VerificationFails, RestOK, Locations
  <1>6. RestOK'
    BY <1>1, <1>4, <1>5 DEF RestOK
  <1>7. CASE UNCHANGED <<current, issued>>
    BY <1>1, <1>4, <1>6, <1>7, SessionStays, PagesKept, InvParts
  <1>8. CASE current' = NoSession /\ issued' = issued
    BY <1>1, <1>4, <1>6, <1>8, SessionEnds, NotGranted, PagesKept, InvParts
  <1>9. CASE ViewerVerified(v) /\ current.id = v.id
    <2>1. current' = Confirmed(current, issued + 1, v.key) /\ issued' = issued + 1
      BY <1>9 DEF ViewerVerified, Commit, Confirmed
    <2>2. v.key \in Keys /\ v.key = current.key /\ IsViewer(current)
      BY <1>1, <1>9 DEF ViewerVerified, SessionOK, Identified
    <2>3. current \in Sessions /\ issued + 1 \in Nat
      BY <1>1 DEF SessionOK
    <2>4. /\ current' \in Sessions
          /\ current'.id = issued + 1 /\ current'.keyID = v.key
          /\ current'.mode = current.mode /\ current'.key = current.key
      BY <2>1, <2>2, <2>3, ConfirmedTyped
    <2>5. SessionOK'
      BY <1>1, <1>4, <2>1, <2>2, <2>4, SessionReissued DEF IsViewer
    <2> QED
      BY <1>1, <1>4, <1>6, <2>4, <2>5, PagesKept, InvParts
  <1> QED
    BY <1>2, <1>7, <1>8, <1>9 DEF ViewerVerified, ManagementVerified, VerificationFails, Commit

LEMMA ViewerHomeTyped ==
    ASSUME SessionOK, IsViewer(current)
    PROVE  ViewerHome \in Locations
  BY DEF SessionOK, Keyed, ViewerHome, Locations, Sources

\* Steps that leave the session alone.
LEMMA SessionKept ==
    ASSUME Inv, UNCHANGED <<current, issued>>, verifying' = verifying,
           RestOK', PagesOK'
    PROVE  Inv'
  <1>1. SessionOK /\ verifying' \subseteq verifying
    BY InvParts
  <1> QED
    BY <1>1, SessionStays, InvParts

LEMMA UserStep ==
    ASSUME Inv,
           \/ \E l \in Locations : Visit(l)
           \/ Redirect
           \/ \E k \in Secrets : SignIn(k)
           \/ Reload
    PROVE  Inv'
  <1>1. RestOK /\ SessionOK /\ PagesOK /\ issued \in Nat
    BY InvParts DEF SessionOK
  <1>2. MayMove => moves' \in Nat
    BY <1>1 DEF MayMove, RestOK
  <1>3. ASSUME NEW l \in Locations, Visit(l)
        PROVE  Inv'
    <2>1. RestOK'
      BY <1>1, <1>2, <1>3 DEF Visit, RestOK, surroundings, server, shell
    <2>2. PagesOK'
      BY <1>1, <1>3, PagesKept DEF Visit
    <2> QED
      BY <1>3, <2>1, <2>2, SessionKept DEF Visit
  <1>4. CASE Redirect
    <2>1. ViewerHome \in Locations
      BY <1>1, <1>4, ViewerHomeTyped DEF Redirect
    <2>2. RestOK'
      BY <1>1, <1>4, <2>1 DEF Redirect, RestOK, surroundings, server, shell
    <2>3. PagesOK'
      BY <1>1, <1>4, PagesKept DEF Redirect
    <2> QED
      BY <1>4, <2>2, <2>3, SessionKept DEF Redirect
  <1>5. ASSUME NEW k \in Secrets, SignIn(k)
        PROVE  Inv'
    <2>1. RestOK'
      BY <1>1, <1>2, <1>5 DEF SignIn, RestOK, surroundings, server, shell
    <2>2. PICK n \in Nat : n = issued + 1
      BY <1>1
    <2> DEFINE s == ManagementSession(n, k)
    <2>3. /\ s \in Sessions /\ s.id = n /\ s.mode = "management" /\ s.key = k
          /\ s.verified = FALSE
      BY ManagementTyped
    <2>4. Verify(s, "form") /\ ~AccessGranted
      BY <1>5, <2>2 DEF SignIn, LoginShown
    <2> HIDE DEF s
    <2>5. SessionOK'
      BY <1>1, <2>2, <2>3, <2>4, SignsIn
    <2>6. PagesOK'
      BY <1>1, <1>5, <2>4, PagesKept DEF SignIn
    <2> QED
      BY <2>1, <2>5, <2>6, InvParts
  <1>6. CASE Reload
    <2>1. seen' \in Dependence
      BY <1>6 DEF Reload, Dependence, Locations
    <2>2. RestOK'
      BY <1>1, <1>2, <1>6, <2>1 DEF Reload, RestOK, surroundings, server
    <2>3. SessionOK'
      BY <1>1, <1>6, SessionEnds DEF Reload
    <2>4. PagesOK'
      BY <1>6 DEF Reload, PagesOK, Fresh
    <2> QED
      BY <2>2, <2>3, <2>4, InvParts
  <1> QED
    BY <1>3, <1>4, <1>5, <1>6

LEMMA RequestStep ==
    ASSUME Inv, SendRequest \/ RequestAnswered
    PROVE  Inv'
  <1>1. RestOK /\ SessionOK /\ PagesOK /\ current \in Sessions /\ issued + 1 \in Nat
    BY InvParts DEF SessionOK
  <1>2. ASSUME UNCHANGED <<location, surroundings, server, shell, moves>>
        PROVE  RestOK'
    BY <1>1, <1>2 DEF RestOK, surroundings, server, shell
  <1>3. ASSUME UNCHANGED <<location, current>>
        PROVE  AccessGranted' = AccessGranted
    BY <1>3 DEF AccessGranted, IsAuthed, Mismatch, IsViewer
  <1>4. CASE SendRequest
    <2> DEFINE r == [id |-> current.id, key |-> current.key, mounted |-> TRUE]
    <2>1. AccessGranted /\ current.key \in Credentials /\ current.id \in Nat
      BY <1>1, <1>4, GrantedKey DEF SendRequest, Sessions
    <2>2. r \in Requests /\ r.key = current.key
      BY <2>1 DEF Requests
    <2>3. requests' = requests \cup {r} /\ UNCHANGED <<location, current, shown>>
      BY <1>4 DEF SendRequest
    <2> HIDE DEF r
    <2>4. PagesOK'
      BY <1>1, <1>3, <2>1, <2>2, <2>3 DEF PagesOK, Fresh
    <2> QED
      BY <1>2, <1>4, <2>4, SessionKept DEF SendRequest
  <1>5. ASSUME NEW r \in requests, RequestServed(r)
        PROVE  Inv'
    <2>1. r.key \in Credentials
      BY <1>1 DEF PagesOK, Requests
    <2>2. PagesOK'
      BY <1>1, <1>3, <1>5, <2>1 DEF RequestServed, PagesOK, Fresh
    <2> QED
      BY <1>2, <1>5, <2>2, SessionKept DEF RequestServed
  <1>6. ASSUME NEW r \in requests, RequestFails(r)
        PROVE  Inv'
    <2>1. PagesOK'
      BY <1>1, <1>3, <1>6 DEF RequestFails, PagesOK, Fresh
    <2> QED
      BY <1>2, <1>6, <2>1, SessionKept DEF RequestFails
  <1>7. ASSUME NEW r \in requests, RequestDenied(r)
        PROVE  Inv'
    <2>1. /\ current' = Invalidated /\ issued' = issued + 1 /\ verifying' \subseteq verifying
          /\ requests' = Orphaned(requests \ {r}) /\ Rendered
      BY <1>7 DEF RequestDenied
    <2>2. RestOK'
      BY <1>2, <1>7 DEF RequestDenied
    <2>3. CASE IsViewer(current)
      <3>1. current' = [current EXCEPT !.id = issued + 1, !.verified = FALSE]
        BY <2>1, <2>3 DEF Invalidated
      <3>2. /\ current' \in Sessions /\ current'.id = issued + 1 /\ current'.verified = FALSE
            /\ current'.mode = current.mode /\ current'.key = current.key
        BY <1>1, <3>1, WithdrawnTyped
      <3>3. SessionOK'
        BY <1>1, <2>1, <3>2, SessionReissued
      <3>4. PagesOK'
        BY <1>1, <2>1, <3>2, PagesKept
      <3> QED
        BY <2>2, <3>3, <3>4, InvParts
    <2>4. CASE ~IsViewer(current)
      <3>1. current' = NoSession
        BY <2>1, <2>4 DEF Invalidated
      <3>2. SessionOK'
        BY <1>1, <2>1, <3>1, SessionEnds
      <3>3. PagesOK'
        BY <1>1, <2>1, <3>1, NotGranted, PagesKept
      <3> QED
        BY <2>2, <3>2, <3>3, InvParts
    <2> QED
      BY <2>3, <2>4
  <1> QED
    BY <1>4, <1>5, <1>6, <1>7 DEF RequestAnswered

LEMMA InvStep ==
    ASSUME Inv, [Next]_vars
    PROVE  Inv'
  <1>1. ASSUME NEW k \in Credentials, ChangeAccepted(k)
        PROVE  Inv'
    <2>1. RestOK /\ PagesOK
      BY InvParts
    <2>2. RestOK'
      BY <1>1, <2>1 DEF ChangeAccepted, RestOK, surroundings, shell
    <2>3. PagesOK'
      BY <1>1, <2>1 DEF ChangeAccepted, PagesOK, Fresh, AccessGranted, IsAuthed, Mismatch, IsViewer
    <2> QED
      BY <1>1, <2>2, <2>3, SessionKept DEF ChangeAccepted
  <1>2. CASE UNCHANGED vars
    <2>1. RestOK /\ PagesOK
      BY InvParts
    <2>2. RestOK' /\ PagesOK'
      BY <1>2, <2>1 DEF vars, surroundings, shell, server, RestOK, PagesOK, Fresh,
                        AccessGranted, IsAuthed, Mismatch, IsViewer
    <2> QED
      BY <1>2, <2>2, SessionKept DEF vars
  <1> QED
    BY <1>1, <1>2, EffectStep, AnswerStep, UserStep, RequestStep DEF Next

LEMMA InvHolds == Spec => []Inv
  BY InvInit, InvStep, PTL DEF Spec

(* Every variable keeps its type.                                           *)
THEOREM SessionTyped == Spec => []TypeOK
  <1>1. Inv => TypeOK
    BY DEF Inv
  <1> QED
    BY <1>1, InvHolds, PTL

(* Whatever was answered late for another key, a viewer counts as verified  *)
(* only under the id the server answered for the key it presents.           *)
THEOREM Attested == Spec => []VerifiedAsItself
  <1>1. Inv => VerifiedAsItself
    BY DEF Inv
  <1> QED
    BY <1>1, InvHolds, PTL

(* The pages show data of the credentials in force only, and of the key the *)
(* location asks for if it asks for one.                                    *)
THEOREM NothingForeignShown == Spec => []ShownInForce
  <1>1. Inv => ShownInForce
    BY DEF Inv, Fresh, ShownInForce, AccessGranted, Mismatch
  <1> QED
    BY <1>1, InvHolds, PTL

--------------------------------------------------------------------------------
(* What puts other credentials in force.                                     *)

SignedIn == \E v \in verifying' \ verifying : v.id = current'.id

LEMMA VerifyIsNew ==
    ASSUME SessionOK, NEW s \in Sessions, NEW by, s.id = issued + 1, Verify(s, by)
    PROVE  SignedIn
  <1> DEFINE v == [id |-> s.id, key |-> s.key, by |-> by]
  <1>1. v.id = issued + 1
    OBVIOUS
  <1>2. current' = s /\ v \in verifying'
    BY DEF Verify
  <1> HIDE DEF v
  <1>3. v \notin verifying
    <2>1. \A w \in verifying : w.id \in Nat /\ w.id <= issued
      BY DEF SessionOK, Identified, Verifications
    <2>2. issued \in Nat
      BY DEF SessionOK
    <2> QED
      BY <1>1, <2>1, <2>2
  <1> QED
    BY <1>1, <1>2, <1>3 DEF SignedIn

LEMMA SignedInStep ==
    ASSUME Inv, [Next]_vars
    PROVE  current'.key = current.key \/ current'.key = NoKey \/ SignedIn
  <1>1. SessionOK /\ RestOK /\ current \in Sessions
    BY InvParts DEF SessionOK
  <1>2. PICK n \in Nat : n = issued + 1
    BY <1>1 DEF SessionOK
  <1>3. ASSUME NEW l \in Locations, l # NoLocation, BootstrapViewer(l)
        PROVE  SignedIn
    <2> DEFINE s == ViewerSession(n, l)
    <2>1. s \in Sessions /\ s.id = n
      BY <1>3, ViewerTyped
    <2>2. Verify(s, "viewer")
      BY <1>2, <1>3 DEF BootstrapViewer
    <2> HIDE DEF s
    <2> QED
      BY <1>1, <1>2, <2>1, <2>2, VerifyIsNew
  <1>4. ASSUME NEW k \in Secrets, NEW by, Verify(ManagementSession(issued + 1, k), by)
        PROVE  SignedIn
    <2> DEFINE s == ManagementSession(n, k)
    <2>1. s \in Sessions /\ s.id = n
      BY ManagementTyped
    <2>2. Verify(s, by)
      BY <1>2, <1>4
    <2> HIDE DEF s
    <2> QED
      BY <1>1, <1>2, <2>1, <2>2, VerifyIsNew
  <1>5. CASE Effect
    <2>1. CASE EffectIdle \/ RestoreNothing
      BY <2>1 DEF EffectIdle, RestoreNothing, BootstrapEnds
    <2>2. CASE EffectMismatch
      BY <1>1, <1>3, <2>2 DEF EffectMismatch, Mismatch, RestOK
    <2>3. CASE RestoreViewer
      BY <1>3, <2>3, ViewerLocationTyped DEF RestoreViewer, Inv
    <2>4. CASE RestoreFromPanel
      BY <1>1, <1>4, <2>4 DEF RestoreFromPanel, RestOK
    <2> QED
      BY <1>5, <2>1, <2>2, <2>3, <2>4 DEF Effect
  <1>6. \A m, k : [current EXCEPT !.id = m, !.keyID = k, !.verified = TRUE].key = current.key
    BY <1>1 DEF Sessions
  <1>7. \A m : [current EXCEPT !.id = m, !.verified = FALSE].key = current.key
    BY <1>1 DEF Sessions
  <1>8. CASE VerificationAnswered
    <2>1. PICK v \in verifying :
            ViewerVerified(v) \/ ManagementVerified(v) \/ VerificationFails(v)
      BY <1>8 DEF VerificationAnswered
    <2>2. CASE ViewerVerified(v)
      <3>1. [current EXCEPT !.id = issued + 1, !.keyID = v.key, !.verified = TRUE].key = current.key
        BY <1>6
      <3> QED
        BY <2>2, <3>1 DEF ViewerVerified, Commit
    <2>3. CASE ManagementVerified(v) \/ VerificationFails(v)
      BY <2>3, NoSessionTyped DEF ManagementVerified, VerificationFails
    <2> QED
      BY <2>1, <2>2, <2>3
  <1>9. ASSUME NEW r \in requests, RequestDenied(r)
        PROVE  current'.key = current.key \/ current'.key = NoKey
    BY <1>7, <1>9, NoSessionTyped DEF RequestDenied, Invalidated
  <1>10. ASSUME UNCHANGED current
         PROVE  current'.key = current.key
    BY <1>10
  <1>11. CASE SendRequest \/ RequestAnswered
    BY <1>9, <1>10, <1>11 DEF SendRequest, RequestAnswered, RequestServed, RequestFails
  <1>12. CASE Redirect \/ \E l \in Locations : Visit(l)
    BY <1>10, <1>12 DEF Redirect, Visit
  <1>13. CASE Reload
    BY <1>13, NoSessionTyped DEF Reload
  <1>14. ASSUME NEW k \in Secrets, SignIn(k)
         PROVE  SignedIn
    BY <1>4, <1>14 DEF SignIn
  <1>15. CASE \E k \in Credentials : ChangeAccepted(k)
    BY <1>10, <1>15 DEF ChangeAccepted
  <1>16. CASE UNCHANGED vars
    BY <1>16 DEF vars
  <1> QED
    BY <1>5, <1>8, <1>11, <1>12, <1>13, <1>14, <1>15, <1>16 DEF Next

(* Other credentials come into force by a sign-in only: no answer of the    *)
(* server, however late, brings any.                                        *)
THEOREM NobodySignedIn == Spec => AnswersSignNobodyIn
  <1>1. Inv /\ [Next]_vars
          => [ (current'.key # current.key /\ current'.key # NoKey) =>
                  \E v \in verifying' \ verifying : v.id = current'.id ]_vars
    BY SignedInStep DEF SignedIn
  <1> QED
    BY <1>1, InvHolds, PTL DEF Spec, AnswersSignNobodyIn

================================================================================
