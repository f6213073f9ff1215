----------------------------- MODULE ObjectMap -----------------------------
(***************************************************************************)
(* What the object API promises its clients: a map from paths to objects   *)
(* on which every PUT, DELETE and GET takes effect at one instant between  *)
(* its call and its answer.  A call that fails or is cut off may or may    *)
(* not have taken effect; one that timed out may still do so once, later.  *)
(***************************************************************************)
CONSTANTS
    Callers,    \* the calls
    Names,      \* the names of objects
    Objects,    \* the contents objects may have
    Absent,     \* the state of a name with no object
    Upload      \* the content each caller uploads, if it does

VARIABLES
    obj,    \* the object of each name
    call    \* what each caller asked for, how far it is, and what it saw

mapVars == <<obj, call>>

Contents == Objects \cup {Absent}

Kinds == {"PUT", "DELETE", "GET"}

NotCalled == [phase |-> "idle"]

MapInit ==
    /\ obj \in [Names -> Contents]
    /\ call = [c \in Callers |-> NotCalled]

Invoke(c) ==
    /\ call[c] = NotCalled
    /\ \E kind \in Kinds, name \in Names :
           call' = [call EXCEPT ![c] =
               [phase |-> "pending", kind |-> kind, name |-> name, seen |-> Absent]]
    /\ UNCHANGED obj

\* The instant a call takes effect; the answer may be given with it.
Effect(c) ==
    LET name == call[c].name IN
    CASE call[c].kind = "PUT" -> obj' = [obj EXCEPT ![name] = Upload[c]]
      [] call[c].kind = "DELETE" -> obj' = [obj EXCEPT ![name] = Absent]
      [] call[c].kind = "GET" -> UNCHANGED obj

Take(c) ==
    /\ call[c].phase = "pending"
    /\ Effect(c)
    /\ \E phase \in {"applied", "ok"} :
           call' = [call EXCEPT ![c].phase = phase,
                       ![c].seen = IF call[c].kind = "GET" THEN obj[call[c].name] ELSE Absent]

Succeed(c) ==
    /\ call[c].phase = "applied"
    /\ call' = [call EXCEPT ![c].phase = "ok"]
    /\ UNCHANGED obj

\* A failed call has told its caller nothing.
Failed(c, phase) == [call[c] EXCEPT !.phase = phase, !.seen = Absent]

\* Calls fail one by one, or many at a time when the server dies.
Fail(some) ==
    /\ \A c \in some : call[c].phase \in {"pending", "applied", "late"}
    /\ call' = [c \in Callers |-> IF c \in some THEN Failed(c, "failed") ELSE call[c]]
    /\ UNCHANGED obj

TimeOut(c) ==
    /\ call[c].phase = "pending" /\ call[c].kind = "DELETE"
    /\ call' = [call EXCEPT ![c] = Failed(c, "late")]
    /\ UNCHANGED obj

TakeLate(c) ==
    /\ call[c].phase = "late"
    /\ Effect(c)
    /\ call' = [call EXCEPT ![c].phase = "failed"]

MapNext ==
    \/ \E c \in Callers : Invoke(c) \/ Take(c) \/ Succeed(c) \/ TimeOut(c) \/ TakeLate(c)
    \/ \E some \in SUBSET Callers : Fail(some)

MapSpec == MapInit /\ [][MapNext]_mapVars
=============================================================================
