------------------------------- MODULE TrafficLog -------------------------------
(***************************************************************************)
(* The traffic log of the two pages, which is the same code in both: the   *)
(* array of the latest entries and the nodes that show those of the tab.   *)
(* An entry is its type; a node names its entry by how many have been      *)
(* logged since, so that the newest is 0.                                  *)
(***************************************************************************)
EXTENDS Naturals, Sequences

CONSTANT MAX_LOGS     \* 500 in the code

ASSUME LogAssumption == MAX_LOGS \in Nat \ {0}

Types == {"rx", "tx", "evt", "err"}
Tabs == {"all", "rx", "tx", "evt"}

VARIABLES
    view,          \* logs, and the children of trafficStream
    filterMode

logVars == <<view, filterMode>>

LogInit == view = [logs |-> <<>>, shown |-> <<>>] /\ filterMode = "all"

-----------------------------------------------------------------------------
Passes(tab, type) == tab \in {"all", type}

\* The entry of a node.
Entry(v, age) == v.logs[Len(v.logs) - age]

\* Mutant of Logged: the node of the oldest entry stays when the entry goes.
Logged_Stays(v, type) ==
    LET logs == Append(v.logs, type)
        older == [i \in DOMAIN v.shown |-> v.shown[i] + 1]
    IN  [logs |-> IF Len(logs) > MAX_LOGS THEN Tail(logs) ELSE logs,
         shown |-> IF Passes(filterMode, type) THEN Append(older, 0) ELSE older]

\* addLog: of an array that is full the oldest entry goes, and with it whatever
\* is the first node.
Logged(v, type) ==
    LET logs == Append(v.logs, type)
        full == Len(logs) > MAX_LOGS
        kept == IF full /\ v.shown # <<>> THEN Tail(v.shown) ELSE v.shown
        older == [i \in DOMAIN kept |-> kept[i] + 1]
    IN  [logs |-> IF full THEN Tail(logs) ELSE logs,
         shown |-> IF Passes(filterMode, type) THEN Append(older, 0) ELSE older]

Log(type) == view' = Logged(view, type) /\ UNCHANGED filterMode

\* The ages of the entries that a tab lets through.
Ages(logs, tab) == {a \in 0..Len(logs) - 1 : Passes(tab, logs[Len(logs) - a])}

\* renderLogs shows them anew, the oldest first.
IsRendering(s, logs, tab) ==
    /\ {s[i] : i \in DOMAIN s} = Ages(logs, tab)
    /\ \A i, j \in DOMAIN s : i < j => s[i] > s[j]

RenderLogs(logs, tab) ==
    \E n \in 0..Len(logs) : \E s \in [1..n -> Ages(logs, tab)] :
        IsRendering(s, logs, tab) /\ view' = [logs |-> logs, shown |-> s]

SelectTab == \E tab \in Tabs : filterMode' = tab /\ RenderLogs(view.logs, tab)

ClearLogs == view' = [logs |-> <<>>, shown |-> <<>>] /\ UNCHANGED filterMode

LogStep == SelectTab \/ ClearLogs

-----------------------------------------------------------------------------
LogTypeOK ==
    /\ view.logs \in Seq(Types) /\ Len(view.logs) <= MAX_LOGS
    /\ view.shown \in Seq(0..MAX_LOGS - 1)
    /\ filterMode \in Tabs

\* The nodes are entries that are still there and that the tab lets through, in
\* their order and the latest of them without a gap; under "all" they are all
\* the entries.  An entry of another type that goes takes a node of this one
\* with it, so that under another tab the oldest of them may be missing.
ShownAgrees ==
    /\ LogTypeOK
    /\ LET s == view.shown
           nodes == {s[i] : i \in DOMAIN s}
           ages == Ages(view.logs, filterMode)
       IN  /\ nodes \subseteq ages
           /\ \A i, j \in DOMAIN s : i < j => s[i] > s[j]
           /\ \A a \in ages, b \in nodes : a <= b => a \in nodes
           /\ filterMode = "all" => nodes = ages
=============================================================================
