------------------------------ MODULE PlanCapture ------------------------------
(***************************************************************************)
(* Captures of browser traffic (HAR and XHR lists) and Postman collections *)
(* as steps, and steps as captures.  A name stands for what identifies a   *)
(* request, its method and URL; "" is a request without a URL.             *)
(***************************************************************************)
EXTENDS PlanTree

CONSTANTS
    Static,     \* requests for scripts, styles, images
    Preflight,  \* OPTIONS requests
    Blocked,    \* requests to metadata hosts
    Variable,   \* requests whose host is a variable: no URL for a capture
    MaxKept,    \* steps an import of a capture makes: 200
    MaxPause    \* gaps from here on are no think time: 60 s

ASSUME CaptureAssumption == MaxKept \in Nat \ {0} /\ MaxPause \in Nat \ {0}

\* An entry is an EXCEPT of this one; at is when its request was sent, 0 if
\* that cannot be read.
Entry == [name |-> "", uses |-> {}, props |-> {}, pause |-> 0, at |-> 0]

-----------------------------------------------------------------------------
(* Steps to entries: the requests of the journey's first level, disabled     *)
(* ones too.                                                               *)

TopRequests(steps) ==
    SelectSeq(IF steps = <<>> THEN <<[Step EXCEPT !.name = "target"]>> ELSE steps,
              LAMBDA s : s.type = "http")

ToXHR(steps) ==
    LET own == TopRequests(steps)
    IN [i \in DOMAIN own |-> [Entry EXCEPT !.name = own[i].name, !.uses = own[i].uses,
                                           !.props = own[i].props, !.pause = own[i].pause]]

\* A HAR has neither the headers nor the pauses of the steps.
ToHAR(steps) ==
    LET xhr == ToXHR(steps)
    IN [i \in DOMAIN xhr |-> [xhr[i] EXCEPT !.props = {}, !.pause = 0]]

-----------------------------------------------------------------------------
(* Entries to steps.                                                       *)

Keeps(e, includeStatic) ==
    /\ e.name \notin {""} \cup Preflight \cup Blocked \cup Variable
    /\ e.name \in Static => includeStatic

Kept(entries, includeStatic) == SelectSeq(entries, LAMBDA e : Keeps(e, includeStatic))

AsStep(e, pause) ==
    [Step EXCEPT !.name = e.name, !.uses = e.uses, !.props = e.props, !.pause = pause]

\* Faulty variant: what is skipped ends a gap all the same.
PausesOfAll(entries, includeStatic) ==
    LET Do(acc, e) ==
            LET d == e.at - acc.prev
                p == IF e.at # 0 /\ acc.prev # 0 /\ d > 0 /\ d < MaxPause THEN d ELSE 0
            IN [prev |-> IF e.at # 0 THEN e.at ELSE acc.prev,
                list |-> IF Keeps(e, includeStatic) THEN Append(acc.list, p) ELSE acc.list]
    IN FoldLeft(Do, [prev |-> 0, list |-> <<>>], entries).list

\* The pause before each kept entry: the time since the last kept one whose
\* time is known.
Pauses(entries, includeStatic) ==
    LET Do(acc, e) ==
            LET d == e.at - acc.prev
                p == IF e.at # 0 /\ acc.prev # 0 /\ d > 0 /\ d < MaxPause THEN d ELSE 0
            IN [prev |-> IF e.at # 0 THEN e.at ELSE acc.prev, list |-> Append(acc.list, p)]
    IN FoldLeft(Do, [prev |-> 0, list |-> <<>>], Kept(entries, includeStatic)).list

FirstKept(list) == SubSeq(list, 1, IF Len(list) < MaxKept THEN Len(list) ELSE MaxKept)

FromHAR(entries, includeStatic) ==
    LET kept   == Kept(entries, includeStatic)
        pauses == Pauses(entries, includeStatic)
    IN FirstKept([i \in DOMAIN kept |-> AsStep(kept[i], pauses[i])])

\* An XHR list says how long to think.
FromXHR(entries, includeStatic) ==
    LET kept == Kept(entries, includeStatic)
    IN FirstKept([i \in DOMAIN kept |-> AsStep(kept[i], kept[i].pause)])

\* A collection is a tree of groups and requests.  Nothing is too static and
\* nothing is cut off.
RECURSIVE FromPostman(_)
FromPostman(items) ==
    Each(items, LAMBDA it :
        IF it.kids # <<>> THEN FromPostman(it.kids)
        ELSE IF it.type # "http" \/ it.name \in {""} \cup Blocked THEN <<>>
        ELSE <<[Step EXCEPT !.name = it.name, !.uses = it.uses, !.props = it.props]>>)
=============================================================================
