----------------------------- MODULE CtrCommands -----------------------------
(***************************************************************************)
(* The commands of the administration tool, as far as its clients go: the  *)
(* units each declares in its Before function, the clients each uses, and  *)
(* the dependency graph of ctr/ctr.go.  What the commands do with their    *)
(* clients is in CtrBlocks and CtrAddresses.                               *)
(*                                                                         *)
(* A client is named after the unit that sets it: "Store" is both          *)
(* Init.InitStore and the field Ctr.store.  A field whose unit has not run *)
(* is nil, and using it ends the process.                                  *)
(***************************************************************************)
EXTENDS InitUnits

CONSTANT Commands   \* the commands of this instance

VARIABLES cmd, phase
cvars == <<requires, loop, next, units, stack, order, result, cmd, phase>>

CtrUnit == {"Config", "Calico", "Docker", "Etcd", "Store", "Allocator", "PoolManager", "Backend"}

\* Require with the first dependency alone.
CtrRequiresFirst(u) ==
    CASE u \in {"Config", "Docker"}             -> <<>>
      [] u \in {"Calico", "Etcd", "Backend"}    -> <<"Config">>
      [] u = "Store"                            -> <<"Etcd">>
      [] u \in {"Allocator", "PoolManager"}     -> <<"Calico">>

\* The dependencies given to Require; Declare gives none.
CtrRequires(u) ==
    CASE u \in {"Config", "Docker"}             -> <<>>
      [] u \in {"Calico", "Etcd", "Backend"}    -> <<"Config">>
      [] u = "Store"                            -> <<"Etcd">>
      [] u \in {"Allocator", "PoolManager"}     -> <<"Calico", "Store">>

CtrGraph == [u \in CtrUnit |-> CtrRequires(u)]

\* The fields of Ctr that a unit's closure reads.
Reads(u) ==
    CASE u \in {"Config", "Docker"}             -> {}
      [] u \in {"Calico", "Etcd", "Backend"}    -> {"Config"}
      [] u = "Store"                            -> {"Etcd"}
      [] u \in {"Allocator", "PoolManager"}     -> {"Calico", "Store"}

\* A command: the units its Before function declares, the clients Before uses
\* ahead of InitCtr, the clients its action uses, and whether Before may refuse
\* the arguments.
Command(declares, early, uses, checked) ==
    [declares |-> declares, early |-> early, uses |-> uses, checked |-> checked]

AssignIPCmd      == Command(<<"Allocator">>, {}, {"Allocator"}, TRUE)
DiagIPCmd        == Command(<<"Docker", "Calico", "Store">>, {}, {"Store", "Calico", "Docker"}, TRUE)
DiagNodeCmd      == Command(<<"Allocator">>, {}, {"Calico", "Docker"}, TRUE)
DiagPoolCmd      == Command(<<"PoolManager", "Docker">>, {}, {"Calico", "Docker"}, TRUE)
InspectBlockCmd  == Command(<<"Calico", "Backend">>, {}, {"Backend"}, TRUE)
InspectIPCmd     == Command(<<"Store">>, {}, {"Store"}, TRUE)
ListBlocksCmd    == Command(<<"Calico", "Backend">>, {}, {"Calico", "Backend"}, TRUE)
ListIPsCmd       == Command(<<"Store">>, {}, {"Store"}, FALSE)
ReleaseBlocksCmd == Command(<<"Calico", "Backend">>, {}, {"Calico", "Backend"}, TRUE)
ReleaseIPCmd     == Command(<<"PoolManager">>, {}, {"PoolManager"}, TRUE)
ReleaseWEPCmd    == Command(<<"PoolManager", "Calico">>, {}, {"Calico", "PoolManager"}, TRUE)


\* release block looks the host up when it is not given.
ReleaseBlockCmd(host) ==
    Command(<<"Calico", "Backend">>, IF host = "" THEN {"Backend"} ELSE {}, {"Calico"}, TRUE)

CtrCommand == {AssignIPCmd, DiagIPCmd, DiagNodeCmd, DiagPoolCmd, InspectBlockCmd, InspectIPCmd,
               ListBlocksCmd, ListIPsCmd, ReleaseBlocksCmd, ReleaseIPCmd, ReleaseWEPCmd,
               ReleaseBlockCmd(""), ReleaseBlockCmd("host")}

\* diag node never declares the docker client it uses, and release block without a
\* host uses the backend before InitCtr: both end in a nil client.
ReadyCommands == CtrCommand \ {DiagNodeCmd, ReleaseBlockCmd("")}

CInit ==
    /\ cmd \in Commands
    /\ Init
    /\ loop = cmd.declares
    /\ phase = "before"

\* A nil client is used.
UseOf(clients, then) == phase' = IF clients \subseteq inited THEN then ELSE "panic"

\* The command's Before function up to InitCtr.
Before ==
    /\ phase = "before"
    /\ \/ cmd.checked /\ phase' = "usage error"
       \/ UseOf(cmd.early, "init")
    /\ UNCHANGED <<requires, loop, next, units, stack, order, result, cmd>>

\* InitCtr.  Its error is the error of Before, and the action is not called.
InitCtr ==
    /\ phase = "init"
    /\ Next
    /\ phase' = CASE result' = "running" -> "init"
                  [] result' = "nil"     -> "run"
                  [] OTHER               -> "failed"
    /\ UNCHANGED cmd

Action ==
    /\ phase = "run"
    /\ UseOf(cmd.uses, "done")
    /\ UNCHANGED <<requires, loop, next, units, stack, order, result, cmd>>

CNext == Before \/ InitCtr \/ Action
CSpec == CInit /\ [][CNext]_cvars /\ WF_cvars(CNext)

-----------------------------------------------------------------------------
\* The closures of ctr.go dereference or keep the fields other closures set, and
\* what each requires is written by hand: none runs while a field it reads is nil.
ReadsAreSet ==
    requires = CtrGraph =>
        \A i \in 1 .. Len(order) : Reads(order[i]) \subseteq {order[k] : k \in 1 .. i - 1}

\* No command uses a client that its Before function has not created, whichever
\* initialisation fails.
NoNilClient == phase # "panic"

\* InitCtr comes back whatever the graph is: a cycle is noticed rather than
\* followed.
InitReturns == []<>(phase # "init")

\* Neither a closure nor a command meets a client that was not created: what is
\* declared and required by hand covers what is used.
ClientsReady == ReadsAreSet /\ NoNilClient

=============================================================================
