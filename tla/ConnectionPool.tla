---------------------------- MODULE ConnectionPool ----------------------------
(***************************************************************************)
(* The pool of connections to one database instance: ConnectionPoolSingler *)
(* and ConnectionEntry of DbCxxPool/src/ConnectionPool.cpp, used through   *)
(* ConnectionHolder and QueryRunner.  What happens under the pool's mutex  *)
(* is one step; obtain leaves the mutex to open a connection and takes it  *)
(* again to count it, and release validates before it takes it.            *)
(*                                                                         *)
(* Times are seconds.  _check is false (the reconnect option is accepted), *)
(* so validate sends no query.                                             *)
(***************************************************************************)
EXTENDS Integers, Sequences, FiniteSets, SequencesExt, Subsequences

CONSTANTS
  Clients,   \* threads that run queries, one at a time
  Servers,   \* the read servers of the instance's configurations
  Master,    \* its write server
  MaxBusy,   \* _max
  Timeout,   \* _timeout
  Asked,     \* which connections the clients ask for
  EndTime,   \* bound: the clock stops here
  None       \* the null handle

PoolAssumption ==
  /\ IsFiniteSet(Clients) /\ IsFiniteSet(Servers)
  /\ Servers # {} /\ Master \notin Servers
  /\ MaxBusy \in Nat /\ Timeout \in Nat /\ EndTime \in Nat
  /\ Asked \subseteq {"CDbRServer", "CDbWServer"} /\ None \notin Servers \cup {Master}

R == "CDbRServer"
W == "CDbWServer"
Flags == {R, W}

VARIABLES
  instance,   \* _instance: the timestamp and the read servers
  isCut,      \* _isCut
  idle,       \* _rconns and _wconns, front first
  busyCount,  \* _rbusyCount and _wbusyCount
  idleCount,  \* _ridleCount and _widleCount
  pc,         \* where a client is
  wrflag,     \* what it has asked for
  entry,      \* the ConnectionEntry it has
  bad,        \* the server a client is about to report
  now,        \* time(NULL)
  latest,     \* the instance as the DbDescriptor has it
  overlapped  \* history: two clients were opening connections at once

poolVars   == <<instance, isCut, idle, busyCount, idleCount>>
clientVars == <<pc, entry, wrflag, bad>>
vars == <<poolVars, clientVars, now, latest, overlapped>>

(* _server and _action_time of a ConnectionEntry.                          *)
Entry == [server : Servers \cup {Master}, actionTime : Nat]

Opening(f) == {c \in Clients : pc[c] \in {"opening", "opened"} /\ wrflag[c] = f}

Init ==
  /\ instance = [timestamp |-> 0, rservers |-> Servers] /\ latest = instance
  /\ isCut = FALSE /\ now = 1
  /\ idle = [f \in Flags |-> <<>>]
  /\ busyCount = [f \in Flags |-> 0] /\ idleCount = [f \in Flags |-> 0]
  /\ pc = [c \in Clients |-> "idle"] /\ entry = [c \in Clients |-> None]
  /\ wrflag = [c \in Clients |-> R] /\ bad = [c \in Clients |-> None]
  /\ overlapped = FALSE

-----------------------------------------------------------------------------
(* Fault: one connection too many is allowed.                              *)
MayOpenOneMore(f) == busyCount[f] <= MaxBusy

MayOpen(f) == busyCount[f] < MaxBusy

(* obtain, under its first lock: the front of the idle list, as it is, or  *)
(* leave to open one.  (At the limit it throws and nothing changes.)       *)
obtain(c, f) ==
  /\ pc[c] = "idle"
  /\ wrflag' = [wrflag EXCEPT ![c] = f]
  /\ \/ /\ idle[f] # <<>>
        /\ entry' = [entry EXCEPT ![c] = Head(idle[f])]
        /\ idle' = [idle EXCEPT ![f] = Tail(@)]
        /\ busyCount' = [busyCount EXCEPT ![f] = @ + 1]
        /\ idleCount' = [idleCount EXCEPT ![f] = @ - 1]
        /\ pc' = [pc EXCEPT ![c] = "using"]
        /\ UNCHANGED overlapped
     \/ /\ idle[f] = <<>> /\ MayOpen(f)
        /\ pc' = [pc EXCEPT ![c] = "opening"]
        /\ overlapped' = (overlapped \/ Opening(f) # {})
        /\ UNCHANGED <<entry, idle, busyCount, idleCount>>
  /\ UNCHANGED <<instance, isCut, bad, now, latest>>

(* The constructor of ConnectionEntry: a read server is picked at random.  *)
(* Its exception carries the flag, an int, as the bool readable(): both    *)
(* CDbRServer and CDbWServer make it true.  QueryRunner::query and execute *)
(* report the server; store and ConnectionQuery let the exception pass.    *)
ConnectionEntry(c, s) ==
  /\ pc[c] = "opening"
  /\ IF wrflag[c] = R THEN s \in instance.rservers ELSE s = Master
  /\ \/ /\ entry' = [entry EXCEPT ![c] = [server |-> s, actionTime |-> now]]
        /\ pc' = [pc EXCEPT ![c] = "opened"]
        /\ UNCHANGED bad
     \/ /\ pc' = [pc EXCEPT ![c] = "reporting"]
        /\ bad' = [bad EXCEPT ![c] = s]
        /\ UNCHANGED entry
     \/ pc' = [pc EXCEPT ![c] = "idle"] /\ UNCHANGED <<bad, entry>>
  /\ UNCHANGED <<poolVars, wrflag, now, latest, overlapped>>

(* obtain, under its second lock.                                          *)
countOpened(c) ==
  /\ pc[c] = "opened"
  /\ busyCount' = [busyCount EXCEPT ![wrflag[c]] = @ + 1]
  /\ pc' = [pc EXCEPT ![c] = "using"]
  /\ UNCHANGED <<instance, isCut, idle, idleCount, entry, wrflag, bad, now, latest,
                 overlapped>>

(* The test of validate.                                                   *)
Outdated(e) ==
  e.actionTime <= instance.timestamp \/ Timeout < now - e.actionTime

(* The end of a query: the holder's destructor calls release, which        *)
(* validates first.  A query that found the connection broken reports the  *)
(* server after that, if it is a read server.                              *)
validate(c, broken) ==
  /\ pc[c] = "using"
  /\ IF Outdated(entry[c])
     THEN /\ pc' = [pc EXCEPT ![c] = "discarding"] /\ UNCHANGED entry
     ELSE /\ pc' = [pc EXCEPT ![c] = "returning"]
          /\ entry' = [entry EXCEPT ![c].actionTime = now]
  /\ bad' = [bad EXCEPT ![c] =
               IF broken /\ wrflag[c] = R THEN entry[c].server ELSE None]
  /\ UNCHANGED <<poolVars, wrflag, now, latest, overlapped>>

(* Fault: only a connection that is kept is counted off.                   *)
releaseKeptOnly(c) ==
  LET f == wrflag[c] IN
  /\ pc[c] \in {"returning", "discarding"}
  /\ IF pc[c] = "returning"
     THEN /\ idle' = [idle EXCEPT ![f] = <<entry[c]>> \o @]
          /\ idleCount' = [idleCount EXCEPT ![f] = @ + 1]
          /\ busyCount' = [busyCount EXCEPT ![f] = @ - 1]
     ELSE UNCHANGED <<idle, idleCount, busyCount>>
  /\ entry' = [entry EXCEPT ![c] = None]
  /\ pc' = [pc EXCEPT ![c] = IF bad[c] = None THEN "idle" ELSE "reporting"]
  /\ UNCHANGED <<instance, isCut, wrflag, bad, now, latest, overlapped>>

(* release, under its lock.                                                *)
release(c) ==
  LET f == wrflag[c] IN
  /\ pc[c] \in {"returning", "discarding"}
  /\ IF pc[c] = "returning"
     THEN /\ idle' = [idle EXCEPT ![f] = <<entry[c]>> \o @]
          /\ idleCount' = [idleCount EXCEPT ![f] = @ + 1]
     ELSE UNCHANGED <<idle, idleCount>>
  /\ busyCount' = [busyCount EXCEPT ![f] = @ - 1]
  /\ entry' = [entry EXCEPT ![c] = None]
  /\ pc' = [pc EXCEPT ![c] = IF bad[c] = None THEN "idle" ELSE "reporting"]
  /\ UNCHANGED <<instance, isCut, wrflag, bad, now, latest, overlapped>>

(* Fault: the last read server may be cut.                                 *)
NoneLeftIgnored(rest) == FALSE

NoneLeft(rest) == rest = {}

(* delBadDb, reached from tryToDelBadDb with readable true: once until the *)
(* next update, the server and the idle read connections to it are taken   *)
(* out, unless it is the only one; the list that is left is in reverse.    *)
delBadDb(c) ==
  LET rest == instance.rservers \ {bad[c]}
      kept == Subsequence(idle[R], {i \in DOMAIN idle[R] : idle[R][i].server # bad[c]}) IN
  /\ pc[c] = "reporting"
  /\ pc' = [pc EXCEPT ![c] = "idle"]
  /\ bad' = [bad EXCEPT ![c] = None]
  /\ IF ~ isCut
     THEN /\ isCut' = TRUE
          /\ IF NoneLeft(rest) THEN UNCHANGED <<instance, idle, idleCount>>
             ELSE /\ instance' = [instance EXCEPT !.rservers = rest]
                  /\ idle' = [idle EXCEPT ![R] = Reverse(kept)]
                  /\ idleCount' = [idleCount EXCEPT ![R] = @ - (Len(idle[R]) - Len(kept))]
     ELSE UNCHANGED <<instance, isCut, idle, idleCount>>
  /\ UNCHANGED <<busyCount, entry, wrflag, now, latest, overlapped>>

-----------------------------------------------------------------------------
(* How many entries at the back of a list evict removes.                   *)
OutdatedAtBack(f) ==
  CHOOSE n \in 0..Len(idle[f]) :
    /\ \A i \in 1..Len(idle[f]) : i > Len(idle[f]) - n => Outdated(idle[f][i])
    /\ n < Len(idle[f]) => ~ Outdated(idle[f][Len(idle[f]) - n])

(* Removal from the back of each list, up to the first entry that is       *)
(* valid; validate marks that one as just used.                            *)
evict ==
  LET left(f) == Len(idle[f]) - OutdatedAtBack(f) IN
  /\ idle' = [f \in Flags |-> [i \in 1..left(f) |->
                IF i = left(f) THEN [idle[f][i] EXCEPT !.actionTime = now]
                ELSE idle[f][i]]]
  /\ idleCount' = [f \in Flags |-> idleCount[f] - OutdatedAtBack(f)]

(* The manager has fetched the instance (every ten seconds), or has been   *)
(* notified: it is taken over if it is newer, and else the lists are       *)
(* looked through.                                                         *)
updated ==
  /\ latest.timestamp > instance.timestamp
  /\ instance' = latest /\ isCut' = FALSE
  /\ UNCHANGED <<idle, busyCount, idleCount, clientVars, now, latest, overlapped>>

unchanged ==
  /\ latest.timestamp <= instance.timestamp
  /\ evict
  /\ UNCHANGED <<instance, isCut, busyCount, clientVars, now, latest, overlapped>>

(* The administrators configure the instance anew, at the present time.    *)
Reconfigure(rservers) ==
  /\ rservers # {} /\ now > latest.timestamp
  /\ latest' = [timestamp |-> now, rservers |-> rservers]
  /\ UNCHANGED <<poolVars, clientVars, now, overlapped>>

Tick ==
  /\ now < EndTime
  /\ now' = now + 1
  /\ UNCHANGED <<poolVars, clientVars, latest, overlapped>>

Next ==
  \/ \E c \in Clients :
       \/ \E f \in Asked : obtain(c, f)
       \/ \E s \in Servers \cup {Master} : ConnectionEntry(c, s)
       \/ countOpened(c) \/ release(c) \/ delBadDb(c)
       \/ \E broken \in BOOLEAN : validate(c, broken)
  \/ updated \/ unchanged \/ Tick
  \/ \E rservers \in SUBSET Servers : Reconfigure(rservers)

Spec == Init /\ [][Next]_vars

-----------------------------------------------------------------------------
TypeOK ==
  /\ instance \in [timestamp : Nat, rservers : SUBSET Servers]
  /\ latest \in [timestamp : Nat, rservers : SUBSET Servers]
  /\ isCut \in BOOLEAN /\ overlapped \in BOOLEAN /\ now \in Nat
  /\ \A f \in Flags : idle[f] \in Seq(Entry)
  /\ busyCount \in [Flags -> Nat] /\ idleCount \in [Flags -> Nat]
  /\ pc \in [Clients -> {"idle", "opening", "opened", "using", "returning",
                         "discarding", "reporting"}]
  /\ wrflag \in [Clients -> Flags] /\ bad \in [Clients -> Servers \cup {Master, None}]
  /\ entry \in [Clients -> Entry \cup {None}]

Users(f) ==
  {c \in Clients : pc[c] \in {"using", "returning", "discarding"} /\ wrflag[c] = f}

(* The counters, changed in obtain, release, evict and delBadDb, some of   *)
(* them in two critical sections and with connections failing to open in   *)
(* between, agree with the connections in use and with the idle lists.     *)
CountsExact ==
  \A f \in Flags : /\ busyCount[f] = Cardinality(Users(f))
                   /\ idleCount[f] = Len(idle[f])

(* Unless two clients open connections at once, no more than _max are in   *)
(* use: a connection is counted only after it was opened, and only the     *)
(* overlap of two openings makes the test under the first lock stale.      *)
BusyWithinMax ==
  ~ overlapped => \A f \in Flags : busyCount[f] <= MaxBusy

(* Between two updates at most one read server is taken out, and never the *)
(* last one, whichever clients report which servers.                       *)
OneCutPerUpdate ==
  /\ instance.rservers # {}
  /\ latest.timestamp = instance.timestamp =>
       Cardinality(latest.rservers \ instance.rservers) <= 1

(* What the counters of the pool promise.                                  *)
ConnectionsCounted == CountsExact /\ BusyWithinMax /\ OneCutPerUpdate
==============================================================================
