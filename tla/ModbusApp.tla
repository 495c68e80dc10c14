------------------------------ MODULE ModbusApp ------------------------------
(***************************************************************************)
(* The Modbus generator as it runs: main starts a thread for each          *)
(* simulated station and waits for SIGINT; a master polls each data type   *)
(* at its own frequency; an outstation runs a server and one thread for    *)
(* each name that calls its script once a second; SIGINT stops them, gives *)
(* them some seconds, and ends the process.  What the threads do to the    *)
(* registers is modelled in ThreadSafeDataBlock.                           *)
(*                                                                         *)
(* Time passes in Ticks of a second while no thread is due to wake.        *)
(* Polls, connects and scripts take any time.                              *)
(***************************************************************************)
EXTENDS JsonParser, FiniteSetsExt

CONSTANT Grace   \* 7: seconds between SIGINT and os._exit

ASSUME GraceAssumption == Grace \in Nat /\ Grace > 1

VARIABLES
    grace,   \* what is left of them
    pollPc,  \* pollPc[m]: where the thread of master m is
    timer,   \* timer[m]: how long it still sleeps
    left,    \* left[m]: sleep_dict
    due,     \* due[m]: pollfuncs
    since,   \* history: since[m][t]: how long m has slept since it polled t
    server,  \* server[a]: the outstation thread at address a
    pingPc,  \* pingPc[n]: the ping thread for name n
    nap      \* nap[n]: how long it still sleeps

polling == <<pollPc, timer, left, due, since>>
pinging == <<server, pingPc, nap>>
vars == <<parser, phase, up, grace, polling, pinging>>

Stop == phase = "stopping"   \* thread_stop is set
Alive == phase \in {"starting", "running", "stopping", "abandoned"}

Init ==
    /\ ParserInit
    /\ grace = Grace
    /\ pollPc = [m \in MasterIds |-> "none"]
    /\ timer = [m \in MasterIds |-> 0]
    /\ left = [m \in MasterIds |-> <<>>]
    /\ due = [m \in MasterIds |-> {}]
    /\ since = [m \in MasterIds |-> <<>>]
    /\ server = [a \in Addrs |-> "none"]
    /\ pingPc = [n \in Names |-> "none"]
    /\ nap = [n \in Names |-> 0]

-------------------------------------------------------------------------------
(* main *)

ReadConfig == Parse /\ UNCHANGED <<grace, polling, pinging>>

StartOutstation(a) ==
    /\ phase = "starting"
    /\ a \in DOMAIN stations
    /\ stations[a].simulate
    /\ server[a] = "none"
    /\ server' = [server EXCEPT ![a] = "starting"]
    /\ UNCHANGED <<parser, phase, up, grace, polling, pingPc, nap>>

OutstationsStarted ==
    \A a \in DOMAIN stations : stations[a].simulate => server[a] # "none"

StartMaster(m) ==
    /\ phase = "starting"
    /\ OutstationsStarted
    /\ m \in DOMAIN masters
    /\ config.masters[m].simulate
    /\ pollPc[m] = "none"
    /\ pollPc' = [pollPc EXCEPT ![m] = "connecting"]
    /\ left' = [left EXCEPT ![m] = config.masters[m].polls]
    /\ since' = [since EXCEPT ![m] = [t \in DOMAIN config.masters[m].polls |-> 0]]
    /\ UNCHANGED <<parser, phase, up, grace, timer, due, pinging>>

\* signal.signal
Started ==
    /\ phase = "starting"
    /\ OutstationsStarted
    /\ \A m \in DOMAIN masters : config.masters[m].simulate => pollPc[m] # "none"
    /\ phase' = "running"
    /\ UNCHANGED <<parser, up, grace, polling, pinging>>

\* Before that, SIGINT ends main only, and the interpreter waits for the
\* threads there are.
InterruptEarly ==
    /\ phase \in {"masters", "grouping", "starting"}
    /\ phase' = IF \/ \E a \in Addrs : server[a] # "none"
                   \/ \E m \in MasterIds : pollPc[m] # "none"
                THEN "abandoned" ELSE "exited"
    /\ UNCHANGED <<parser, up, grace, polling, pinging>>

\* A second SIGINT runs the handler again, inside the first call's sleep.
Interrupt ==
    /\ phase \in {"running", "stopping"}
    /\ phase' = "stopping"
    /\ grace' = Grace
    /\ UNCHANGED <<parser, up, polling, pinging>>

\* os._exit
Exit ==
    /\ phase = "stopping"
    /\ grace = 0
    /\ phase' = "exited"
    /\ UNCHANGED <<parser, up, grace, polling, pinging>>

\* Mutant: the interface is not taken down.
DownForgotten(alias) == up

\* ifconfig <alias> down; without an alias nothing.
Down(alias) == {p \in up : p[1] # alias}

-------------------------------------------------------------------------------
(* master_station.run *)

Least(f) == Min({f[t] : t \in DOMAIN f})

\* The head of the loop, with the sleep that follows.
LoopHead(m, remaining) ==
    /\ left' = [left EXCEPT ![m] = remaining]
    /\ IF Stop
       THEN /\ pollPc' = [pollPc EXCEPT ![m] = "ended"]
            /\ up' = Down(masters[m].vnic)
            /\ UNCHANGED timer
       ELSE /\ pollPc' = [pollPc EXCEPT ![m] = "asleep"]
            /\ timer' = [timer EXCEPT ![m] = IF remaining = <<>> THEN 1 ELSE Least(remaining)]
            /\ UNCHANGED up
    /\ UNCHANGED <<parser, phase, grace, pinging>>

Connected(m) ==
    /\ pollPc[m] = "connecting"
    /\ LoopHead(m, left[m])
    /\ UNCHANGED <<due, since>>

Idle(m) ==
    /\ pollPc[m] = "asleep"
    /\ timer[m] = 0
    /\ left[m] = <<>>
    /\ LoopHead(m, left[m])
    /\ UNCHANGED <<due, since>>

\* Wakes after the least remaining time, and polls what has no more than that.
BeginPoll(m) ==
    /\ pollPc[m] = "asleep"
    /\ timer[m] = 0
    /\ left[m] # <<>>
    /\ due' = [due EXCEPT ![m] = {t \in DOMAIN left[m] : left[m][t] = Least(left[m])}]
    /\ since' = [since EXCEPT ![m] = [t \in DOMAIN left[m] |-> since[m][t] + Least(left[m])]]
    /\ pollPc' = [pollPc EXCEPT ![m] = "polling"]
    /\ UNCHANGED <<parser, phase, up, grace, timer, left, pinging>>

\* Mutant: every type starts again from its frequency.
RemainingReset(m) == config.masters[m].polls

\* Mutant: a type that is not due is put off by its frequency.
RemainingAdded(m) ==
    [t \in DOMAIN left[m] |-> left[m][t] - Least(left[m]) + config.masters[m].polls[t]]

\* sleep_dict after a poll.
Remaining(m) ==
    [t \in DOMAIN left[m] |->
        IF left[m][t] > Least(left[m]) THEN left[m][t] - Least(left[m])
        ELSE config.masters[m].polls[t]]

EndPoll(m) ==
    /\ pollPc[m] = "polling"
    /\ LoopHead(m, Remaining(m))
    /\ due' = [due EXCEPT ![m] = {}]
    /\ since' = [since EXCEPT ![m] = [t \in DOMAIN left[m] |->
                                         IF t \in due[m] THEN 0 ELSE since[m][t]]]

\* Mutant: a request that is not answered is waited for without end.
MasterStationHangs(m) == Connected(m) \/ Idle(m) \/ BeginPoll(m)

MasterStation(m) == Connected(m) \/ Idle(m) \/ BeginPoll(m) \/ EndPoll(m)

-------------------------------------------------------------------------------
(* outstation.run and ping_outstation *)

\* The server is bound; its ping threads start to load their scripts.
Serve(a) ==
    /\ server[a] = "starting"
    /\ server' = [server EXCEPT ![a] = "serving"]
    /\ pingPc' = [n \in Names |-> IF n \in stations[a].names THEN "busy" ELSE pingPc[n]]
    /\ UNCHANGED <<parser, phase, up, grace, polling, nap>>

\* The address cannot be bound: there will be no ping thread.
BindFails(a) ==
    /\ server[a] = "starting"
    /\ server' = [server EXCEPT ![a] = "failed"]
    /\ UNCHANGED <<parser, phase, up, grace, polling, pingPc, nap>>

Wake(n) ==
    /\ pingPc[n] = "asleep"
    /\ nap[n] = 0
    /\ pingPc' = [pingPc EXCEPT ![n] = "busy"]
    /\ UNCHANGED <<parser, phase, up, grace, polling, server, nap>>

\* No script file, an error in it, no generate_data: an exception.
PingDies(n) ==
    /\ pingPc[n] = "busy"
    /\ pingPc' = [pingPc EXCEPT ![n] = "dead"]
    /\ UNCHANGED <<parser, phase, up, grace, polling, server, nap>>

\* The script is done, and the loop goes on.
Sleep(n) ==
    /\ pingPc[n] = "busy"
    /\ ~Stop
    /\ pingPc' = [pingPc EXCEPT ![n] = "asleep"]
    /\ nap' = [nap EXCEPT ![n] = 1]
    /\ UNCHANGED <<parser, phase, up, grace, polling, server>>

\* The first ping thread that stops shuts the server down and the interface;
\* doing so again changes nothing.
StopPing(n) ==
    /\ pingPc[n] = "busy"
    /\ Stop
    /\ pingPc' = [pingPc EXCEPT ![n] = "ended"]
    /\ server' = [server EXCEPT ![AddrOf(n)] = "closed"]
    /\ up' = Down(stations[AddrOf(n)].vnic)
    /\ UNCHANGED <<parser, phase, grace, polling, nap>>

Ping(n) == Wake(n) \/ PingDies(n) \/ Sleep(n) \/ StopPing(n)

-------------------------------------------------------------------------------

\* A second passes.
Tick ==
    /\ Alive
    /\ \A m \in MasterIds : pollPc[m] = "asleep" => timer[m] > 0
    /\ \A n \in Names : pingPc[n] = "asleep" => nap[n] > 0
    /\ Stop => grace > 0
    /\ timer' = [m \in MasterIds |-> IF pollPc[m] = "asleep" THEN timer[m] - 1 ELSE timer[m]]
    /\ nap' = [n \in Names |-> IF pingPc[n] = "asleep" THEN nap[n] - 1 ELSE nap[n]]
    /\ grace' = IF Stop THEN grace - 1 ELSE grace
    /\ UNCHANGED <<parser, phase, up, pollPc, left, due, since, server, pingPc>>

Threads ==
    /\ Alive
    /\ \/ \E m \in MasterIds : StartMaster(m) \/ MasterStation(m)
       \/ \E a \in Addrs : StartOutstation(a) \/ Serve(a) \/ BindFails(a)
       \/ \E n \in Names : Ping(n)

Exited == phase = "exited" /\ UNCHANGED vars

Next == \/ ReadConfig \/ Started \/ InterruptEarly \/ Interrupt \/ Exit
        \/ Threads \/ Tick \/ Exited

\* Threads run, sleeps end, polls end (each request times out), time passes.
Fairness ==
    /\ SF_vars(Tick)
    /\ \A m \in MasterIds : WF_vars(Alive /\ MasterStation(m))
    /\ WF_vars(Alive /\ \E n \in Names : Wake(n))

Spec == Init /\ [][Next]_vars /\ Fairness

-------------------------------------------------------------------------------
(* Properties *)

Phases == {"masters", "grouping", "starting", "running", "stopping", "abandoned", "exited"}

Freq(m) == config.masters[m].polls

\* Every variable has the values the code can give it.  The remaining times
\* are those of the types the master polls, and never above their frequency.
TypeOK ==
    /\ config \in Configs
    /\ phase \in Phases
    /\ entry \in 0..Len(config.masters)
    /\ drawn \in 0..Len(config.hosts)
    /\ DOMAIN masters \subseteq 1..entry
    /\ \A m \in DOMAIN masters : masters[m].ip \in Addrs /\ masters[m].addr \in Addrs
    /\ DOMAIN given \subseteq gathered
    /\ gathered \subseteq DOMAIN config.outs
    /\ \A n \in gathered : AddrOf(n) \in Addrs
    /\ \A a \in DOMAIN stations : stations[a].names = Group(a)
    /\ vnictrack \in Nat
    /\ up \in SUBSET ((0..(vnictrack + 1)) \X Addrs)
    /\ grace \in 0..Grace
    /\ pollPc \in [MasterIds -> {"none", "connecting", "asleep", "polling", "ended"}]
    /\ timer \in [MasterIds -> Nat]
    /\ \A m \in MasterIds : pollPc[m] # "none" =>
          /\ m \in DOMAIN masters
          /\ DOMAIN left[m] = DOMAIN Freq(m) /\ DOMAIN since[m] = DOMAIN Freq(m)
          /\ \A t \in DOMAIN left[m] : left[m][t] \in 0..Freq(m)[t] /\ since[m][t] \in Nat
    /\ \A m \in MasterIds : due[m] \in SUBSET Types
    /\ server \in [Addrs -> {"none", "starting", "serving", "closed", "failed"}]
    /\ \A a \in Addrs : server[a] # "none" => a \in DOMAIN stations
    /\ pingPc \in [Names -> {"none", "asleep", "busy", "dead", "ended"}]
    /\ \A n \in Names : pingPc[n] # "none" => n \in gathered
    /\ nap \in [Names -> 0..1]

Accepted == phase \in {"starting", "running", "stopping", "abandoned"}

\* In a file that has been accepted a master finds all its outstations behind
\* one server, at the address it connects to, each with the unit and the number
\* of points that it will ask for.
MastersMeetOutstations ==
    Accepted => \A m \in DOMAIN masters : masters[m].outs # {} =>
        LET node == masters[m]
            station == stations[node.addr]
        IN /\ node.addr \in DOMAIN stations
           /\ node.outs \subseteq station.names
           /\ \A u \in DOMAIN node.info : /\ u \in DOMAIN station.datastore
                                          /\ node.info[u] = station.datastore[u]

\* "Port" has a default value of 502. Specify it if you have a non default
\* port (config_spec.txt:40): a master calls, and the server listens at, the
\* Port that is specified for an outstation.
PortsMeet ==
    Accepted => \A m \in DOMAIN masters : \A n \in masters[m].outs :
        LET port == config.outs[n].port
        IN port # None => masters[m].port = port /\ stations[masters[m].addr].port = port

\* No two interfaces that the program brings up have the same alias or the
\* same address, also when it gives up half way.
AddressesOwned == \A p, q \in up : p[1] = q[1] \/ p[2] = q[2] => p = q

\* No two ping threads write the same block, and each finds its own.
UnitsSeparate ==
    \A a, b \in Names : pingPc[a] # "none" /\ pingPc[b] # "none" /\ AddrOf(a) = AddrOf(b) =>
        /\ Unit(a) = Unit(b) => a = b
        /\ stations[AddrOf(a)].datastore[Unit(a)] = config.outs[a].count

\* "The number of seconds after which to poll all the outstations"
\* (config_spec.txt): a master polls a data type exactly when it has slept
\* that long since it polled it before, however the frequencies interleave.
\* What is counted are the seconds it has slept: the time that polls take comes
\* on top of them, in the code as here.
OnTime ==
    \A m \in MasterIds : pollPc[m] # "none" => \A t \in DOMAIN since[m] :
        /\ since[m][t] <= Freq(m)[t]
        /\ pollPc[m] = "polling" => (t \in due[m] <=> since[m][t] = Freq(m)[t])

\* A type whose polls are waited for is polled in the end, as long as no type
\* of that master has the frequency 0: it would be polled without end, and the
\* others never.
AllPolled ==
    \A m \in MasterIds, t \in Types :
        pollPc[m] = "asleep" /\ t \in DOMAIN left[m] /\ (\A u \in DOMAIN left[m] : Freq(m)[u] > 0)
            ~> t \in due[m] \/ pollPc[m] = "ended" \/ phase = "exited"

MasterStuck(m) ==
    \/ ~config.masters[m].simulate
    \/ pollPc[m] \in {"connecting", "polling"}
    \/ pollPc[m] = "asleep" /\ left[m] # <<>> /\ \A t \in DOMAIN left[m] : Freq(m)[t] >= Grace

StationStuck(a) ==
    \/ ~stations[a].simulate
    \/ server[a] \in {"starting", "failed"}
    \/ \A n \in stations[a].names : pingPc[n] \in {"busy", "dead"}

\* When the seconds after SIGINT are over every interface is down again,
\* except of stations that are not simulated, of a master that is in the
\* middle of a poll or polls nothing more often than that, and of an
\* outstation all of whose scripts have failed or have not returned.
CleanWithinGrace ==
    phase = "exited" /\ grace = 0 => \A p \in up :
        \/ \E m \in DOMAIN masters : masters[m].vnic = p[1] /\ MasterStuck(m)
        \/ \E a \in DOMAIN stations : stations[a].vnic = p[1] /\ StationStuck(a)
===============================================================================
