------------------------------ MODULE Tracking ------------------------------
(***************************************************************************)
(* Following a field worker during a shift on the phone app: the effect    *)
(* that starts it (components/AttendanceLocationTracker.tsx), the punch    *)
(* (app/attendance/page.tsx), the Capacitor watcher                        *)
(* (lib/capacitor-bg-geo.ts) and the Android service, started and stopped  *)
(* through lib/capacitor-native-tracking.ts, which outlives the app.       *)
(*                                                                         *)
(* What a position is, how far the phone moved and how long ago it last    *)
(* pinged are left out: a tracker may ping at any time, and may never do   *)
(* so.  A ping that is lost, refused or answered "active" changes nothing  *)
(* on the phone: only those that are answered otherwise are followed on.   *)
(***************************************************************************)
EXTENDS Naturals, FiniteSets

CONSTANTS
    Tokens,       \* sessions, each signed in to once
    Person,       \* whose
    Nobody,
    MaxStarts,    \* bound: runs of the effect and punches on their way at once
    MaxPings,     \* bound: pings of the service on their way at once
    MaxShifts     \* bound: shifts opened

VARIABLES
    phone,      \* the app: running or not, the token, mytally_shift_active, the location permission
    starts,     \* runs of the effect, and punches, on their way
    watch,      \* the watchers of the plugin, currentWatcherId, whose ping has been answered,
                \* the one being removed; whether two additions overlapped or a removal failed
    service,    \* the Android service: running, its preferences is_shift_active and token, its
                \* pings; whether it was stopped since it was last started, and whether an
                \* answer to an earlier run of it, or a start for somebody gone, came since
    desk        \* the server: sessions, open shifts, how many shifts there were

trackingVars == <<phone, starts, watch, service, desk>>

Workers == {Person[s] : s \in Tokens}

NoWatch == [on |-> {}, current |-> Nobody, told |-> Nobody, removing |-> Nobody, slip |-> FALSE]

TrackingInit ==
    /\ phone = [running |-> TRUE, token |-> Nobody, flag |-> FALSE, granted |-> FALSE]
    /\ starts = {}
    /\ watch = NoWatch
    /\ service = [on |-> FALSE, active |-> FALSE, token |-> Nobody, pings |-> {},
                   ended |-> FALSE, late |-> FALSE, overtaken |-> FALSE]
    /\ desk = [live |-> {}, used |-> {}, shift |-> {}, shifts |-> 0]

-----------------------------------------------------------------------------
(* The service, started and stopped *)

\* Its pings outlive a run of the service; their answers no longer stop the next one.
Orphaned(pings) == {[p EXCEPT !.mine = FALSE] : p \in pings}

\* Mutant: a service that runs keeps the token it has.
StartedAnew(s, on) ==
    service' = [on |-> on, active |-> TRUE, token |-> IF service.on THEN service.token ELSE s,
                pings |-> IF on THEN service.pings ELSE Orphaned(service.pings),
                ended |-> FALSE, late |-> FALSE, overtaken |-> s # phone.token]

\* startTracking and onStartCommand: the preferences are written first; Android may refuse
\* the start, or the foreground service stop itself at once.
Started(s, on) ==
    service' = [on |-> on, active |-> TRUE, token |-> s,
                pings |-> IF on THEN service.pings ELSE Orphaned(service.pings),
                ended |-> FALSE, late |-> FALSE, overtaken |-> s # phone.token]

\* Mutant: is_shift_active is left as it was.
StoppedOnly == [service EXCEPT !.on = FALSE, !.pings = Orphaned(@), !.ended = TRUE]

\* stopTracking.
Stopped == [service EXCEPT !.on = FALSE, !.active = FALSE, !.pings = Orphaned(@), !.ended = TRUE]

\* onStartCommand called by Android: after a reboot, by the alarm set when the app is
\* swiped away, or because the process was killed.
Resumed ==
    /\ service.on # service.active
    /\ service.active => phone.granted
    /\ service' = [service EXCEPT !.on = service.active,
                                  !.pings = IF service.active THEN @ ELSE Orphaned(@)]
    /\ UNCHANGED <<phone, starts, watch, desk>>

-----------------------------------------------------------------------------
(* The app and its session *)

\* The effect runs for a token: it asks whether the shift is open.
Run(s) == {[token |-> s, stage |-> "ask", open |-> FALSE]}

SignIn(s) ==
    /\ phone.running /\ phone.token = Nobody
    /\ s \notin desk.used
    /\ Cardinality(starts) < MaxStarts
    /\ phone' = [phone EXCEPT !.token = s]
    /\ starts' = starts \cup Run(s)
    /\ desk' = [desk EXCEPT !.live = @ \cup {s}, !.used = @ \cup {s}]
    /\ UNCHANGED <<watch, service>>

\* clearLocalSession, by the person or because the server ended the session: the flag
\* goes and the service is stopped; the watcher is not.  The server may not hear of it.
SignOut ==
    /\ phone.running /\ phone.token # Nobody
    /\ phone' = [phone EXCEPT !.token = Nobody, !.flag = FALSE]
    /\ service' = Stopped
    /\ desk' \in {desk, [desk EXCEPT !.live = @ \ {phone.token}]}
    /\ UNCHANGED <<starts, watch>>

\* What runs in the page is gone.
PageGone ==
    /\ phone' = [phone EXCEPT !.running = FALSE]
    /\ starts' = {}
    /\ watch' = NoWatch

\* Swiped away: the service carries on.
Swipe ==
    /\ phone.running
    /\ PageGone
    /\ UNCHANGED <<service, desk>>

\* The process is killed, or the phone switched off: the preferences stay.
Killed ==
    /\ PageGone
    /\ service' = [service EXCEPT !.on = FALSE, !.pings = {}]
    /\ UNCHANGED desk

Launch ==
    /\ ~phone.running
    /\ phone' = [phone EXCEPT !.running = TRUE]
    /\ starts' = IF phone.token = Nobody THEN {} ELSE Run(phone.token)
    /\ UNCHANGED <<watch, service, desk>>

Grant ==
    /\ phone' = [phone EXCEPT !.granted = TRUE]
    /\ UNCHANGED <<starts, watch, service, desk>>

-----------------------------------------------------------------------------
(* Starting: AttendanceLocationTracker's effect *)

OnShift(s) == Person[s] \in desk.shift

Moves(r, stage) == starts' = (starts \ {r}) \cup {[r EXCEPT !.stage = stage]}
Done(r) == starts' = starts \ {r}

\* GET /attendance/today is answered.
Asked(r) ==
    /\ r.stage = "ask" /\ r.token \in desk.live
    /\ starts' = (starts \ {r}) \cup {[r EXCEPT !.stage = "told", !.open = OnShift(r.token)]}
    /\ UNCHANGED <<phone, watch, service, desk>>

\* The answer is heard: the flag follows it; no shift, no tracking.
Told(r) ==
    /\ r.stage = "told"
    /\ phone' = [phone EXCEPT !.flag = r.open]
    /\ IF r.open THEN Moves(r, "start") /\ UNCHANGED service
       ELSE Done(r) /\ service' = Stopped
    /\ UNCHANGED <<watch, desk>>

\* No answer: what the phone last saw.
Offline(r) ==
    /\ r.stage = "ask"
    /\ IF phone.flag THEN Moves(r, "start") /\ UNCHANGED service
       ELSE Done(r) /\ service' = Stopped
    /\ UNCHANGED <<phone, watch, desk>>

\* startHeadlessNativeTracking: refused without the location permission, or by Android; then
\* the watcher is tried.
StartService(r) ==
    /\ r.stage = "start"
    /\ \/ phone.granted /\ Done(r) /\ \E on \in BOOLEAN : Started(r.token, on)
       \/ phone.granted /\ Moves(r, "watch") /\ Started(r.token, service.on)
       \/ ~phone.granted /\ Moves(r, "watch") /\ UNCHANGED service
    /\ UNCHANGED <<phone, watch, desk>>

\* Mutant: a watcher is always added.
WatchesNever == FALSE
AlreadyWatching == watch.current # Nobody

\* startNativeBackgroundTracking: not where one watches already; adding one asks for the
\* permission.
StartWatch(r) ==
    /\ r.stage = "watch"
    /\ IF AlreadyWatching THEN Done(r) /\ UNCHANGED watch
       ELSE /\ Moves(r, "add")
            /\ watch' = [watch EXCEPT !.slip = @ \/ \E o \in starts : o.stage = "add"]
    /\ UNCHANGED <<phone, service, desk>>

Added(r) ==
    /\ r.stage = "add"
    /\ Done(r)
    /\ watch' = [watch EXCEPT !.on = @ \cup {r.token}, !.current = r.token]
    /\ phone' = [phone EXCEPT !.granted = TRUE]
    /\ UNCHANGED <<service, desk>>

\* Adding it fails; or the answer to a punch does not come.
Fails(r) ==
    /\ r.stage \in {"add", "in", "out"}
    /\ Done(r)
    /\ UNCHANGED <<phone, watch, service, desk>>

-----------------------------------------------------------------------------
(* The shift *)

\* handlePunch, here: carried out by the server.
Punch(in) ==
    /\ phone.running /\ phone.token \in desk.live /\ Cardinality(starts) < MaxStarts
    /\ LET p == Person[phone.token] IN
       \/ /\ in /\ p \notin desk.shift /\ desk.shifts < MaxShifts
          /\ desk' = [desk EXCEPT !.shift = @ \cup {p}, !.shifts = @ + 1]
       \/ ~in /\ p \in desk.shift /\ desk' = [desk EXCEPT !.shift = @ \ {p}]
    /\ starts' = starts \cup {[token |-> phone.token, open |-> in,
                               stage |-> IF in THEN "in" ELSE "out"]}
    /\ UNCHANGED <<phone, watch, service>>

\* Its answer is heard: the flag follows, the service is started or stopped; a watcher is
\* left to find out.
PunchedIn(r) ==
    /\ r.stage = "in" /\ Done(r)
    /\ phone' = [phone EXCEPT !.flag = TRUE]
    /\ \/ phone.granted /\ \E on \in BOOLEAN : Started(r.token, on)
       \/ ~phone.granted /\ UNCHANGED service
    /\ UNCHANGED <<watch, desk>>

PunchedOut(r) ==
    /\ r.stage = "out" /\ Done(r)
    /\ phone' = [phone EXCEPT !.flag = FALSE]
    /\ service' = Stopped
    /\ UNCHANGED <<watch, desk>>

\* On another device, by an admin, or by the server when the day ends.
PunchElsewhere(p) ==
    /\ \/ p \in desk.shift /\ desk' = [desk EXCEPT !.shift = @ \ {p}]
       \/ /\ p \notin desk.shift /\ desk.shifts < MaxShifts
          /\ desk' = [desk EXCEPT !.shift = @ \cup {p}, !.shifts = @ + 1]
    /\ UNCHANGED <<phone, starts, watch, service>>

EndSession(s) ==
    /\ s \in desk.live
    /\ desk' = [desk EXCEPT !.live = @ \ {s}]
    /\ UNCHANGED <<phone, starts, watch, service>>

-----------------------------------------------------------------------------
(* Pings *)

\* The service's ping, with the token of the preferences.
ServicePing ==
    /\ service.on /\ Cardinality(service.pings) < MaxPings
    /\ service' = [service EXCEPT !.pings = @ \cup {[token |-> service.token, mine |-> TRUE,
                                                      over |-> FALSE]}]
    /\ UNCHANGED <<phone, starts, watch, desk>>

ServiceGoesOn(s) == s \in desk.live /\ OnShift(s)

\* The server's answer: "active: false" or 401 is on its way; anything else, and no answer,
\* changes nothing.
PingAnswered(p) ==
    /\ ~p.over
    /\ \/ service' = [service EXCEPT !.pings = @ \ {p}]
       \/ /\ ~ServiceGoesOn(p.token)
          /\ service' = [service EXCEPT !.pings = (@ \ {p}) \cup {[p EXCEPT !.over = TRUE]}]
    /\ UNCHANGED <<phone, starts, watch, desk>>

\* Heard: is_shift_active is cleared and the run that sent the ping stops, whatever token
\* the preferences hold by now.
PingHeard(p) ==
    /\ p.over
    /\ LET left == service.pings \ {p} IN
       service' = IF p.mine THEN [Stopped EXCEPT !.pings = Orphaned(left)]
                  ELSE [service EXCEPT !.active = FALSE, !.pings = left, !.late = TRUE]
    /\ UNCHANGED <<phone, starts, watch, desk>>

\* A watcher's ping, with the token it was added with, is answered that the shift is closed;
\* one ping at a time, its removal included.  A 401 is not looked at.
WatcherPing(s) ==
    /\ s \in watch.on /\ watch.told = Nobody /\ watch.removing = Nobody
    /\ s \in desk.live /\ ~OnShift(s)
    /\ watch' = [watch EXCEPT !.told = s]
    /\ UNCHANGED <<phone, starts, service, desk>>

\* Heard: the flag goes, and the watcher that is currentWatcherId is to be removed.
WatcherHears ==
    /\ watch.told # Nobody
    /\ phone' = [phone EXCEPT !.flag = FALSE]
    /\ watch' = [watch EXCEPT !.told = Nobody, !.removing = watch.current]
    /\ UNCHANGED <<starts, service, desk>>

\* Removed, or not: currentWatcherId is cleared whatever has come of the removal and
\* whatever it has become meanwhile.
Removed ==
    /\ watch.removing # Nobody
    /\ \E failed \in BOOLEAN :
          watch' = [on |-> IF failed THEN watch.on ELSE watch.on \ {watch.removing},
                    current |-> Nobody, told |-> Nobody, removing |-> Nobody,
                    slip |-> watch.slip \/ failed]
    /\ UNCHANGED <<phone, starts, service, desk>>

-----------------------------------------------------------------------------
TrackingNext ==
    \/ SignOut \/ Swipe \/ Killed \/ Launch \/ Grant
    \/ ServicePing \/ Resumed \/ WatcherHears \/ Removed
    \/ \E in \in BOOLEAN : Punch(in)
    \/ \E s \in Tokens : SignIn(s) \/ EndSession(s) \/ WatcherPing(s)
    \/ \E p \in Workers : PunchElsewhere(p)
    \/ \E p \in service.pings : PingAnswered(p) \/ PingHeard(p)
    \/ \E r \in starts : Asked(r) \/ Told(r) \/ Offline(r) \/ StartService(r) \/ StartWatch(r)
                         \/ Added(r) \/ Fails(r) \/ PunchedIn(r) \/ PunchedOut(r)

-----------------------------------------------------------------------------
(* Properties *)

Stages == {"ask", "told", "start", "watch", "add", "in", "out"}

\* The types of the state.
TrackingTypeOK ==
    /\ phone \in [running : BOOLEAN, token : Tokens \cup {Nobody}, flag : BOOLEAN, granted : BOOLEAN]
    /\ starts \subseteq [token : Tokens, stage : Stages, open : BOOLEAN]
    /\ watch \in [on : SUBSET Tokens, current : Tokens \cup {Nobody}, told : Tokens \cup {Nobody},
                  removing : Tokens \cup {Nobody}, slip : BOOLEAN]
    /\ service \in [on : BOOLEAN, active : BOOLEAN, token : Tokens \cup {Nobody},
                    pings : SUBSET [token : Tokens, mine : BOOLEAN, over : BOOLEAN],
                    ended : BOOLEAN, late : BOOLEAN, overtaken : BOOLEAN]
    /\ desk.live \subseteq desk.used /\ desk.used \subseteq Tokens
    /\ desk.shift \subseteq Workers /\ desk.shifts \in 0..MaxShifts

\* A service that was stopped - by a sign-out, by a punch, because no shift was found open, by
\* the answer to one of its pings - stays off until the page starts it again: neither a reboot,
\* nor Android's restarts, nor an answer still on its way brings it back.  And one that runs
\* is marked to be brought back, unless the answer to a ping of an earlier run unmarked it.
StopLasts ==
    /\ service.ended => ~service.on /\ ~service.active
    /\ service.on /\ ~service.active => service.late

\* "Don't let the next person on a shared phone inherit an 'active shift'": whoever the service
\* follows, or will after a reboot, is signed in on the phone, unless the start was on its way
\* when they signed out.
FollowsSignedIn ==
    service.on \/ service.active => service.token = phone.token \/ service.overtaken

\* The app knows of the watcher that runs, so that closing the shift can remove it: one it has
\* lost sight of comes of two additions that overlapped, or of a removal that failed.
WatchersKnown == watch.on \subseteq {watch.current} \/ watch.slip
=============================================================================
