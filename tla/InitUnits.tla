------------------------------ MODULE InitUnits ------------------------------
(***************************************************************************)
(* The initialisation of the administration tool (ctr/utils.go): units     *)
(* with dependencies, initialised depth first, each once.                  *)
(*                                                                         *)
(* A unit is the closure it runs, identified by its code pointer, so two   *)
(* declarations of the same closure are one unit.  A command declares some *)
(* units; Init chooses the declaration and the dependency graph from the   *)
(* sets given as constants, so that one run covers many graphs.            *)
(*                                                                         *)
(* The recursion of initUnit is its call stack: a frame is a unit and the  *)
(* number of its dependencies already asked for.  The ptrs parameter is    *)
(* the units on the stack.  An error unwinds the whole stack, which is one *)
(* step here since no frame handles it.                                    *)
(***************************************************************************)
EXTENDS Naturals, Sequences

CONSTANTS
    Unit,          \* the closures that can be declared
    Graphs,        \* the dependency graphs: functions from Unit to Seq(Unit)
    Declarations   \* what a command declares: sequences of units

ASSUME GraphsAssumption == Graphs \subseteq [Unit -> Seq(Unit)]
ASSUME DeclarationsAssumption == Declarations \subseteq Seq(Unit)

VARIABLES
    requires,   \* unit.requires
    loop,       \* the units InitUnits.init ranges over
    next,       \* its position in them
    units,      \* InitUnits.units, which calls of dep() keep growing
    stack,      \* the calls of initUnit that have not returned
    order,      \* the units whose init succeeded, in that order
    result      \* "running", "nil", or the error returned

vars == <<requires, loop, next, units, stack, order, result>>

Elems(s) == {s[i] : i \in 1 .. Len(s)}

\* unit.inited, set by the deferred function of a call that succeeded.
inited == Elems(order)

\* The units of the calls in progress: the ptrs argument.
ptrs == {stack[i].unit : i \in 1 .. Len(stack)}

Frame == [unit : Unit, asked : Nat]

Init ==
    /\ requires \in Graphs
    /\ loop \in Declarations
    /\ next = 1
    /\ units = loop
    /\ stack = <<>>
    /\ order = <<>>
    /\ result = "running"

\* Called for a unit that is not initialised: either an error or a new frame.
Push(u, below) ==
    \/ /\ u \in ptrs
       /\ result' = "ErrCircularDependencies"
       /\ stack' = <<>>
    \/ /\ u \notin ptrs
       /\ stack' = Append(below, [unit |-> u, asked |-> 0])
       /\ UNCHANGED result

\* The call initUnit(u, ptrs), below being the frames of the callers.
initUnit(u, below) ==
    \/ /\ u \in inited
       /\ stack' = below
       /\ UNCHANGED result
    \/ /\ u \notin inited
       /\ Push(u, below)

\* The loop of InitUnits.init.  Its range is fixed when it starts.
NextUnit ==
    /\ result = "running"
    /\ stack = <<>>
    /\ next <= Len(loop)
    /\ next' = next + 1
    /\ initUnit(loop[next], <<>>)
    /\ UNCHANGED <<requires, loop, units, order>>

Top == stack[Len(stack)]
Below == SubSeq(stack, 1, Len(stack) - 1)

\* A call that asks for the same dependency again.
DependencyAgain ==
    /\ result = "running"
    /\ stack # <<>>
    /\ Top.asked < Len(requires[Top.unit])
    /\ initUnit(requires[Top.unit][Top.asked + 1], stack)
    /\ UNCHANGED <<requires, loop, next, units, order>>

\* The deepest call asks for its next dependency.  dep() declares it again.
Dependency ==
    /\ result = "running"
    /\ stack # <<>>
    /\ Top.asked < Len(requires[Top.unit])
    /\ LET dep == requires[Top.unit][Top.asked + 1] IN
       /\ units' = Append(units, dep)
       /\ initUnit(dep, Append(Below, [Top EXCEPT !.asked = @ + 1]))
    /\ UNCHANGED <<requires, loop, next, order>>

\* One dependency too few.
DependenciesAlmostDone == Top.asked + 1 >= Len(requires[Top.unit])

DependenciesDone == Top.asked = Len(requires[Top.unit])

\* All dependencies are there: the unit's own closure runs, and may fail.
RunInit ==
    /\ result = "running"
    /\ stack # <<>>
    /\ DependenciesDone
    /\ \/ /\ order' = Append(order, Top.unit)
          /\ stack' = Below
          /\ UNCHANGED result
       \/ /\ result' = "init error"
          /\ stack' = <<>>
          /\ UNCHANGED order
    /\ UNCHANGED <<requires, loop, next, units>>

\* A loop that stops before the last declared unit.
ReturnEarly ==
    /\ result = "running"
    /\ stack = <<>>
    /\ next >= Len(loop)
    /\ result' = "nil"
    /\ UNCHANGED <<requires, loop, next, units, stack, order>>

Return ==
    /\ result = "running"
    /\ stack = <<>>
    /\ next > Len(loop)
    /\ result' = "nil"
    /\ UNCHANGED <<requires, loop, next, units, stack, order>>

Next == NextUnit \/ Dependency \/ RunInit \/ Return

\* The code is sequential and no closure blocks for ever: a command that can go
\* on goes on.
Spec == Init /\ [][Next]_vars /\ WF_vars(Next)

-----------------------------------------------------------------------------
\* The whole state is well formed: the closures run, the calls in progress and
\* the position in the loop are of the kinds the code keeps.
InitTypeOK ==
    /\ requires \in [Unit -> Seq(Unit)]
    /\ loop \in Seq(Unit)
    /\ next \in 1 .. Len(loop) + 1
    /\ units \in Seq(Unit)
    /\ stack \in Seq(Frame)
    /\ \A i \in 1 .. Len(stack) : stack[i].asked <= Len(requires[stack[i].unit])
    /\ order \in Seq(Unit)
    /\ result \in {"running", "nil", "ErrCircularDependencies", "init error"}

\* A closure reads what the closures it requires have set (apiConfig, etcd,
\* calico, store): it never runs before all of them succeeded, whatever the graph
\* and however deep the recursion of initUnit.
DependenciesFirst ==
    \A i \in 1 .. Len(order) : \A j \in 1 .. Len(requires[order[i]]) :
        \E k \in 1 .. i - 1 : order[k] = requires[order[i]][j]

\* A client is created once per process: a unit that several others require, or
\* that is declared again by dep(), runs its closure once.
InitOnce == \A i, j \in 1 .. Len(order) : order[i] = order[j] => i = j

\* The units a set of units needs: the least set that has them and is closed
\* under requires.
Closed(T) == \A u \in T : Elems(requires[u]) \subseteq T
Needed == {u \in Unit : \A T \in SUBSET Unit :
                            Elems(loop) \subseteq T /\ Closed(T) => u \in T}

\* Some of the units that are needed wait for one another.
HasCycle == \E S \in SUBSET Needed : S # {} /\ \A u \in S : \E v \in S : v \in Elems(requires[u])

\* ErrCircularDependencies is returned only when needed units wait for one
\* another, and initialisation succeeds only when none do and every declared unit
\* has been initialised.
CyclesAreRejected ==
    /\ result = "ErrCircularDependencies" => HasCycle
    /\ result = "nil" => ~HasCycle /\ inited = Needed

\* InitUnits.init calls the closures in dependency order, each once.
InitInOrder == InitTypeOK /\ DependenciesFirst /\ InitOnce

=============================================================================
