---------------------------- MODULE ControlEndpoint ----------------------------
(***************************************************************************)
(* Where the daemon listens.  On Unix a starting daemon removes the socket *)
(* file it finds, binds its own, first for the transfer of captures and    *)
(* then for control, and nothing keeps a second daemon from doing the same.*)
(* On Windows the first instance of the named pipe is exclusive, and every *)
(* accepted connection needs a new instance for the next client.           *)
(***************************************************************************)
EXTENDS Integers

CONSTANTS
  Daemons,     \* the daemon processes there ever are, restarts included
  Clients,     \* the connections clients make
  NoDaemon,       \* model value: nobody's file, no daemon
  MaxTrouble   \* bound: pipe calls that fail

ASSUME EndpointAssumption == NoDaemon \notin Daemons /\ MaxTrouble \in Nat

VARIABLES
  os,       \* the platform
  file,     \* whose socket each path names; a dead daemon's file stays
  dmn,      \* the daemons
  link,     \* the clients' connections
  trouble   \* pipe calls that failed

endpointVars == <<os, file, dmn, link, trouble>>

Paths == {"capture", "control"}
StartingUp == {"store"} \cup Paths
Serving == {"serving", "rearm"}
Up(d) == dmn[d].pc \in StartingUp \cup Serving
ExitDaemon(d, w) == dmn' = [dmn EXCEPT ![d].pc = "exited", ![d].why = w]
GoOn(d, pc) == dmn' = [dmn EXCEPT ![d].pc = pc, ![d].step = "see"]

\* What becomes of the connection the daemon has accepted.
Settled(d, as) == [c \in Clients |-> IF link[c] = [pc |-> "open", to |-> d] THEN [link[c] EXCEPT !.pc = as] ELSE link[c]]

\* Somebody is starting: every daemon that is up sees a rival from then on.
Marked(d) ==
  [e \in Daemons |-> IF e = d THEN [dmn[e] EXCEPT !.pc = "store", !.rival = \E f \in Daemons : dmn[f].pc \in StartingUp]
                     ELSE [dmn[e] EXCEPT !.rival = @ \/ Up(e)]]

\* main: the adapter, then the policy store, which may not open.
StartDaemon(d) ==
  /\ dmn[d].pc = "off"
  /\ dmn' = Marked(d)
  /\ UNCHANGED <<os, file, link, trouble>>

\* serve_with_agent_policy_inner: the transfer socket is bound before the control endpoint.
OpenStore(d) ==
  /\ dmn[d].pc = "store"
  /\ GoOn(d, IF os = "unix" THEN "capture" ELSE "control") \/ ExitDaemon(d, "store")
  /\ UNCHANGED <<os, file, link, trouble>>

\* A file at the path is to be removed, whoever listens behind it.
SeeFile(d, s) ==
  /\ dmn[d].pc = s /\ dmn[d].step = "see"
  /\ dmn' = [dmn EXCEPT ![d].step = IF file[s] # NoDaemon THEN "remove" ELSE "bind"]
  /\ UNCHANGED file

\* Mutant of RemoveFile: the file that was found is left there.
RemoveFileNot(d, s) ==
  /\ dmn[d].pc = s /\ dmn[d].step = "remove"
  /\ dmn' = [dmn EXCEPT ![d].step = "bind"]
  /\ UNCHANGED file

RemoveFile(d, s) ==
  /\ dmn[d].pc = s /\ dmn[d].step = "remove"
  /\ \/ file[s] # NoDaemon /\ file' = [file EXCEPT ![s] = NoDaemon] /\ dmn' = [dmn EXCEPT ![d].step = "bind"]
     \/ file[s] = NoDaemon /\ ExitDaemon(d, "remove") /\ UNCHANGED file

\* Mutant of BindFile: the file that was seen is removed after the bind.
BindFileThenRemove(d, s) ==
  /\ dmn[d].pc = s /\ dmn[d].step = "bind"
  /\ file' = [file EXCEPT ![s] = NoDaemon]
  /\ GoOn(d, IF s = "capture" THEN "control" ELSE "serving")

\* Bind, which fails on a path that exists.
BindFile(d, s) ==
  /\ dmn[d].pc = s /\ dmn[d].step = "bind"
  /\ \/ file[s] = NoDaemon /\ file' = [file EXCEPT ![s] = d] /\ GoOn(d, IF s = "capture" THEN "control" ELSE "serving")
     \/ file[s] # NoDaemon /\ ExitDaemon(d, "bind") /\ UNCHANGED file

OpenSocket(d, s) == os = "unix" /\ (SeeFile(d, s) \/ RemoveFile(d, s) \/ BindFile(d, s))
                    /\ UNCHANGED <<os, link, trouble>>

\* with_optional_fd_socket_agent_policy, and the control socket of serve_unix.
BindCaptureSocket(d) == OpenSocket(d, "capture")
ServeUnix(d) == OpenSocket(d, "control")

\* Mutant of CreateFirst: without first_pipe_instance.
CreateFirstShared(d) ==
  /\ os = "windows" /\ dmn[d].pc = "control"
  /\ dmn' = [dmn EXCEPT ![d].pc = "serving", ![d].armed = TRUE]
  /\ UNCHANGED <<os, file, link, trouble>>

\* The first instance of the pipe, refused while another daemon has any instance of it.
CreateFirst(d) ==
  /\ os = "windows" /\ dmn[d].pc = "control"
  /\ IF \E e \in Daemons \ {d} : dmn[e].pc \in Serving THEN ExitDaemon(d, "instance")
     ELSE dmn' = [dmn EXCEPT ![d].pc = "serving", ![d].armed = TRUE]
  /\ UNCHANGED <<os, file, link, trouble>>

\* A connection: to whoever listens behind the path, or to an instance that waits for a client.
ConnectTo(c) ==
  /\ link[c].pc = "idle"
  /\ LET listens == IF os = "unix" THEN {d \in Daemons : file["control"] = d /\ dmn[d].pc = "serving"}
                    ELSE {d \in Daemons : dmn[d].armed}
     IN \/ \E d \in listens : /\ link' = [link EXCEPT ![c] = [pc |-> "open", to |-> d]]
                              /\ dmn' = [dmn EXCEPT ![d].armed = FALSE]
        \/ listens = {} /\ link' = [link EXCEPT ![c].pc = "refused"] /\ UNCHANGED dmn
  /\ UNCHANGED <<os, file, trouble>>

\* The Unix accept loop.
AcceptUnix(c) ==
  /\ os = "unix" /\ link[c].pc = "open" /\ dmn[link[c].to].pc = "serving"
  /\ link' = [link EXCEPT ![c].pc = "served"]
  /\ UNCHANGED <<os, file, dmn, trouble>>

\* The pipe's accept loop: a client came, or waiting for one failed; both need a new instance.
PipeConnected(d) ==
  /\ os = "windows" /\ dmn[d].pc = "serving"
  /\ \/ ~dmn[d].armed /\ UNCHANGED trouble
     \/ dmn[d].armed /\ trouble < MaxTrouble /\ trouble' = trouble + 1
  /\ dmn' = [dmn EXCEPT ![d].pc = "rearm", ![d].armed = FALSE]
  /\ UNCHANGED <<os, file, link>>

\* Mutant of Rearm: a pipe that cannot be created ends the loop.
RearmOrReturn(d) ==
  /\ os = "windows" /\ dmn[d].pc = "rearm"
  /\ \/ trouble < MaxTrouble /\ trouble' = trouble + 1 /\ ExitDaemon(d, "rearm") /\ UNCHANGED link
     \/ /\ dmn' = [dmn EXCEPT ![d].pc = "serving", ![d].armed = TRUE]
        /\ link' = Settled(d, "served")
        /\ UNCHANGED trouble
  /\ UNCHANGED <<os, file>>

\* rearm retries for as long as it takes; the accepted connection is served after it.
Rearm(d) ==
  /\ os = "windows" /\ dmn[d].pc = "rearm"
  /\ \/ trouble < MaxTrouble /\ trouble' = trouble + 1 /\ UNCHANGED <<dmn, link>>
     \/ /\ dmn' = [dmn EXCEPT ![d].pc = "serving", ![d].armed = TRUE]
        /\ link' = Settled(d, "served")
        /\ UNCHANGED trouble
  /\ UNCHANGED <<os, file>>

\* The daemon is killed: its listeners go, its files stay.
Kill(d) ==
  /\ Up(d)
  /\ dmn' = [dmn EXCEPT ![d].pc = "exited", ![d].why = "killed", ![d].armed = FALSE]
  /\ link' = Settled(d, "refused")
  /\ UNCHANGED <<os, file, trouble>>
-----------------------------------------------------------------------------
EndpointInit ==
  /\ os \in {"unix", "windows"} /\ trouble = 0
  /\ file = [s \in Paths |-> NoDaemon]
  /\ dmn = [d \in Daemons |-> [pc |-> "off", step |-> "see", why |-> "none", rival |-> FALSE, armed |-> FALSE]]
  /\ link = [c \in Clients |-> [pc |-> "idle", to |-> NoDaemon]]

DaemonStep(d) == \/ OpenStore(d) \/ BindCaptureSocket(d) \/ ServeUnix(d) \/ CreateFirst(d)
                 \/ (~dmn[d].armed /\ PipeConnected(d)) \/ Rearm(d)

EndpointNext == \/ \E d \in Daemons : \/ StartDaemon(d) \/ OpenStore(d) \/ BindCaptureSocket(d) \/ ServeUnix(d)
                                      \/ CreateFirst(d) \/ PipeConnected(d) \/ Rearm(d) \/ Kill(d)
                \/ \E c \in Clients : ConnectTo(c) \/ AcceptUnix(c)

\* The daemon's tasks run; a client that came is one the accept loop wakes up for.
EndpointFairness ==
  /\ \A d \in Daemons : WF_endpointVars(DaemonStep(d))
  /\ \A c \in Clients : WF_endpointVars(AcceptUnix(c))
-----------------------------------------------------------------------------
\* The files and the daemons have their shape.
EndpointTypeOK ==
  /\ file \in [Paths -> Daemons \cup {NoDaemon}]
  /\ \A d \in Daemons : dmn[d].pc \in StartingUp \cup Serving \cup {"off", "exited"}
  /\ link \in [Clients -> [pc : {"idle", "open", "served", "refused"}, to : Daemons \cup {NoDaemon}]]

\* On Windows one daemon serves the pipe: the instance of the first one is exclusive, and the
\* accept loop never lets go of its last instance before it has the next.
OneServer ==
  os = "windows" => \A d, e \in Daemons : dmn[d].pc \in Serving /\ dmn[e].pc \in Serving => d = e

\* A daemon that starts by itself always comes to serve, whatever the ones before it left behind:
\* removing and binding fail only when another daemon was starting at the same time.
StartFailsOnlyByRival ==
  \A d \in Daemons : dmn[d].why \in {"remove", "bind"} => dmn[d].rival

\* A daemon that serves, and beside which no other one was started, is the one both paths lead
\* to: a client that is given a capture on the control socket fetches it from the same daemon.
PathsLeadToOneDaemon ==
  os = "unix" => \A d \in Daemons : dmn[d].pc = "serving" /\ ~dmn[d].rival => file = [s \in Paths |-> d]

\* A client that is connected is served unless its daemon is killed: a pipe that cannot be created
\* for a while delays the loop and does not end it.
ConnectedIsServed ==
  \A c \in Clients : link[c].pc = "open" ~> (link[c].pc = "served" \/ \E d \in Daemons : link[c].to = d /\ dmn[d].why = "killed")
=============================================================================
