---------------------------- MODULE IdleRoutes ----------------------------
(***************************************************************************)
(* The read-idle eviction of routes: IdleRouteManager                      *)
(* (rustp2p-core/src/idle.rs) over a RouteTable that other tasks use, and  *)
(* the task that calls it in a loop (rustp2p-core/examples/client.rs):     *)
(* next_idle, then remove_route with what it returned.                     *)
(*                                                                         *)
(* Time is discrete.  The task is assumed to be scheduled promptly: time   *)
(* does not pass while it can run, it passes while the task sleeps.  Other *)
(* users of the table may act between any two of its steps.                *)
(***************************************************************************)
EXTENDS RouteTable

CONSTANTS ReadIdle, NoVictim

ASSUME IdleConstants == ReadIdle \in Nat \ {0} /\ NoVictim \notin Peer \X Key

VARIABLES
  sleep,   \* time left before the task wakes up; 0: it is running
  victim   \* <<peer, key>> that next_idle returned, or NoVictim

reaperVars == <<sleep, victim>>
vars == <<tableVars, sleep, victim>>

\* All routes of the table, as <<peer, route>>.
AllRoutes ==
  UNION {{<<id, route_table[id].list[i]>> : i \in DOMAIN route_table[id].list} :
           id \in DOMAIN route_table}

\* Mutant of Oldest: the comparison of the two instants is turned around.
Youngest ==
  {r \in AllRoutes : \A other \in AllRoutes : r[2].age <= other[2].age}

\* oldest_route: the map is iterated in no particular order, so any of the
\* routes with the earliest instant may be the answer.
Oldest ==
  {r \in AllRoutes : \A other \in AllRoutes : r[2].age >= other[2].age}

\* Mutant of SleepFor: sleeps for as long as the oldest route has been idle.
SleepForElapsed ==
  IF AllRoutes = {} THEN ReadIdle \div 3
                    ELSE (CHOOSE r \in Oldest : TRUE)[2].age

\* How long next_idle sleeps when no route has expired.
SleepFor ==
  IF AllRoutes = {} THEN ReadIdle \div 3
                    ELSE ReadIdle - (CHOOSE r \in Oldest : TRUE)[2].age

Running == sleep = 0

\* next_idle returns an expired route.
NextIdle ==
  /\ Running /\ victim = NoVictim
  /\ \E r \in Oldest : r[2].age >= ReadIdle /\ victim' = <<r[1], r[2].key>>
  /\ UNCHANGED <<tableVars, sleep>>

\* next_idle finds none and sleeps, at least for the timer's resolution.
NextIdleSleeps ==
  /\ Running /\ victim = NoVictim
  /\ \A r \in Oldest : r[2].age < ReadIdle
  /\ sleep' = IF SleepFor = 0 THEN 1 ELSE SleepFor
  /\ UNCHANGED <<tableVars, victim>>

\* The task removes what next_idle returned, whatever happened since.
RemoveIdle ==
  /\ victim # NoVictim
  /\ IF Has(victim[1])
     THEN RemoveRoute(victim[1], victim[2])
     ELSE UNCHANGED tableVars
  /\ victim' = NoVictim
  /\ UNCHANGED sleep

Reaper == NextIdle \/ NextIdleSleeps \/ RemoveIdle

PassTime ==
  /\ ~Running
  /\ Tick
  /\ sleep' = sleep - 1
  /\ UNCHANGED victim

Use == TableUse /\ UNCHANGED reaperVars

IdleInit == TableInit /\ sleep = 0 /\ victim = NoVictim
IdleNext == Use \/ Reaper \/ PassTime

\* The reaper is a task of the runtime and time advances; nothing is assumed
\* of the users of the table.
IdleSpec ==
  IdleInit /\ [][IdleNext]_vars /\ WF_vars(Reaper) /\ WF_vars(PassTime)

-----------------------------------------------------------------------------
(* Properties. *)

\* The task never oversleeps: whatever is added, read or removed while it
\* sleeps, no route stays in the table unread for longer than read_idle
\* (comment at idle.rs:28-29).
EvictedInTime == \A r \in AllRoutes : r[2].age <= ReadIdle

\* A route that has expired leaves the table or is read again, however many
\* other routes come and go.
ExpiredEventuallyGone ==
  \A id \in Peer, k \in Key :
    (\E r \in AllRoutes : r[1] = id /\ r[2].key = k /\ r[2].age >= ReadIdle)
      ~> ~(\E r \in AllRoutes : r[1] = id /\ r[2].key = k /\ r[2].age >= ReadIdle)
=============================================================================
