------------------------------- MODULE KeyFile -------------------------------
(***************************************************************************)
(* The file of API keys: every run of scripts/make_key.py reads it, changes *)
(* what it read, and writes it back, with no lock; the server              *)
(* (app/api/auth.py) reads it at each request.  Runs may overlap, and one  *)
(* may be killed in its save, which truncates the file and then writes it. *)
(***************************************************************************)
EXTENDS Naturals, FiniteSets

CONSTANTS
    Runs,       \* runs of make_key.py
    Names,      \* what keys are called
    MaxUsers    \* MAX_USERS

ASSUME MaxUsersAssumption == MaxUsers \in Nat

VARIABLES
    file,        \* what the file is, see Forms, and
    stored,      \* the entries in it, {} if there are none to be read
    stage,       \* of each run, see RunStages
    change,      \* what a run was asked for, and
    entries,     \* the list it is to write
    issued,      \* what the saves that were completed amount to, in turn
    overlapped   \* has a run read the file before another's save was over?

keyVars == <<file, stored, stage, change, entries, issued, overlapped>>

RunStages == {"new", "loaded", "saving", "saved", "failed", "cut"}

Roles == {"user", "admin"}

(* A key is known by the run that made it. *)
Entries == [name : Names, role : Roles, key : Runs]

Changes == [op : {"issue"}, name : Names, role : Roles] \cup [op : {"revoke"}, name : Names]

NoChange == [op |-> "none"]

Forms == {"absent", "entries", "empty", "garbage"}

KeyTypeOK ==
    /\ file \in Forms
    /\ stored \in SUBSET Entries
    /\ stage \in [Runs -> RunStages]
    /\ change \in [Runs -> Changes \cup {NoChange}]
    /\ entries \in [Runs -> SUBSET Entries]
    /\ issued \in SUBSET Entries
    /\ overlapped \in BOOLEAN

KeyInit ==
    /\ file = "absent" /\ stored = {}
    /\ stage = [m \in Runs |-> "new"]
    /\ change = [m \in Runs |-> NoChange]
    /\ entries = [m \in Runs |-> {}]
    /\ issued = {}
    /\ overlapped = FALSE

-----------------------------------------------------------------------------
(* make_key.py                                                              *)

Readable == file \in {"absent", "entries"}

(* Mutated forms, here and below: stand-ins for a plausible slip in the      *)
(* definition that follows, to see that a property notices it.              *)
Loadable_TornIsEmpty == TRUE

(* json.loads() raises on what is no list. *)
Loadable == Readable

Busy == \E m \in Runs : stage[m] \in {"loaded", "saving"}

Users(E) == {e \in E : e.role # "admin"}

UsersFull_OffByOne(E) == Cardinality(Users(E)) > MaxUsers

UsersFull(E) == Cardinality(Users(E)) >= MaxUsers

Named(E, name) == {e \in E : e.name = name}

Changed(E, m, c) ==
    IF c.op = "issue"
    THEN E \cup {[name |-> c.name, role |-> c.role, key |-> m]}
    ELSE E \ Named(E, c.name)

(* The file is read and the change is one that can be made. *)
Load(m, c) ==
    /\ stage[m] = "new"
    /\ Loadable
    /\ \/ /\ c.op = "issue" /\ Named(stored, c.name) = {}
          /\ c.role = "user" => ~UsersFull(stored)
       \/ c.op = "revoke" /\ Named(stored, c.name) # {}
    /\ stage' = [stage EXCEPT ![m] = "loaded"]
    /\ change' = [change EXCEPT ![m] = c]
    /\ entries' = [entries EXCEPT ![m] = Changed(stored, m, c)]
    /\ overlapped' = (overlapped \/ Busy)
    /\ UNCHANGED <<file, stored, issued>>

(* A file that cannot be read, a name that is taken or is not there, too    *)
(* many users, or only --list.                                              *)
Decline(m) ==
    /\ stage[m] = "new"
    /\ stage' = [stage EXCEPT ![m] = "failed"]
    /\ UNCHANGED <<file, stored, change, entries, issued, overlapped>>

(* write_text() opens the file, which truncates it. *)
Truncate(m) ==
    /\ stage[m] = "loaded"
    /\ stage' = [stage EXCEPT ![m] = "saving"]
    /\ file' = "empty" /\ stored' = {}
    /\ UNCHANGED <<change, entries, issued, overlapped>>

(* The text goes to the start of the file: over that of another run, if one *)
(* wrote in between, and a longer one shows behind it.                      *)
Write(m) ==
    /\ stage[m] = "saving"
    /\ \/ file' = "entries" /\ stored' = entries[m]
       \/ file # "empty" /\ file' = "garbage" /\ stored' = {}
    /\ stage' = [stage EXCEPT ![m] = "saved"]
    /\ issued' = Changed(issued, m, change[m])
    /\ UNCHANGED <<change, entries, overlapped>>

(* Interrupted, in a save perhaps with a part of the text written. *)
Killed(m) ==
    /\ \/ /\ stage[m] = "loaded"
          /\ stage' = [stage EXCEPT ![m] = "failed"]
          /\ UNCHANGED <<file, stored>>
       \/ /\ stage[m] = "saving"
          /\ stage' = [stage EXCEPT ![m] = "cut"]
          /\ \/ UNCHANGED <<file, stored>>
             \/ file' = "garbage" /\ stored' = {}
    /\ UNCHANGED <<change, entries, issued, overlapped>>

-----------------------------------------------------------------------------
(* auth.py: _load_store() takes what it cannot read for no keys, and with    *)
(* no keys authentication is off (auth.py:61-62, 76-82).                    *)
Served == IF Readable THEN stored ELSE {}

-----------------------------------------------------------------------------
(* All runs are over. *)
Over == (\A m \in Runs : stage[m] \in {"saved", "failed", "cut"}) /\ UNCHANGED keyVars

KeyNext ==
    \/ \E m \in Runs :
         \/ \E c \in Changes : Load(m, c)
         \/ Decline(m) \/ Truncate(m) \/ Write(m) \/ Killed(m)
    \/ Over

KeySpec == KeyInit /\ [][KeyNext]_keyVars

-----------------------------------------------------------------------------
(* Properties                                                               *)

(* "At most MAX_USERS basic users may exist at once" (make_key.py:9), and a  *)
(* name is taken once (make_key.py:67): so it is in whatever can be read,   *)
(* however runs overlap and overwrite each other.                           *)
CapHolds ==
    /\ Cardinality(Users(Served)) <= MaxUsers
    /\ \A d, e \in Served : d.name = e.name => d = e

(* As long as no two runs overlap, the keys the server knows are those of    *)
(* all the saves up to now, except while one is under way or was            *)
(* interrupted, when it knows none at all and asks nobody for a key; and no  *)
(* later run builds on what an interrupted one left (make_key.py:27, 33;    *)
(* auth.py:51-54).                                                          *)
ServedAreIssued ==
    \/ overlapped
    \/ Served = issued
    \/ Served = {} /\ \E m \in Runs : stage[m] \in {"saving", "cut"}
=============================================================================
