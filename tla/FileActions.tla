---------------------------- MODULE FileActions -----------------------------
(***************************************************************************)
(* file_operation of actions.py: a request is validated, bound to the      *)
(* version of the file it names, asked for a password (unless the owner    *)
(* waived it) and executed in a thread, while other requests and other     *)
(* programs change the same paths.  All paths lie in one folder.  Names,   *)
(* sizes and encodings are left out: a request with an invalid one ends    *)
(* before it touches anything.                                             *)
(***************************************************************************)
EXTENDS Naturals

CONSTANTS
    Requests, Paths,
    Other,          \* what another program writes
    Absent,         \* no file or folder at a path; no version bound
    NoOrder,        \* a request not made yet
    MaxChanges,     \* bound: changes by other programs
    MaxFaults       \* bound: failed system calls and ends of the process

(* Contents are told apart by where their pieces come from: what a path    *)
(* held at first, the text of a request, another program.  "torn" names    *)
(* the requests that have written, or deleted, only a part of it.          *)
Pieces == Requests \cup Paths \cup {Other}
Nodes == [kind : {"file", "folder"}, of : SUBSET Pieces, torn : SUBSET Requests]
Node(k, s) == [kind |-> k, of |-> s, torn |-> {}]
Absentee == Nodes \cup {Absent}

FileAssumption ==
    /\ MaxChanges \in Nat /\ MaxFaults \in Nat
    /\ Requests \cap Paths = {}
    /\ Other \notin Requests \cup Paths
    /\ Absent \notin Nodes

Single == {"create_directory", "append_text", "replace_text", "trash"}
Writes == {"write_text", "append_text", "replace_text"}
Order(o, p, d, w) == [op |-> o, path |-> p, destination |-> d, overwrite |-> w]
Orders ==
    {Order(o, p, p, FALSE) : o \in Single, p \in Paths}
    \cup {Order("write_text", p, p, w) : p \in Paths, w \in BOOLEAN}
    \cup {o \in [op : {"copy", "move", "rename"}, path : Paths,
                 destination : Paths, overwrite : BOOLEAN] : o.path # o.destination}

Stages == {"idle", "validated", "asked", "check", "kind", "verify", "recheck", "read",
           "flag", "temporary", "load", "put", "open", "fill", "swap", "into", "attempt",
           "fallback", "unlink", "report", "over"}
Waiting == {"validated", "asked"}
Running == Stages \ ({"idle", "over"} \cup Waiting)

VARIABLES
    disk,           \* what is at each path
    order, at,      \* each request: its arguments, where it is
    pin,            \* _expected_sha256, bound when it was asked
    expected,       \* the version a replace_text was read from
    hand,           \* what it has read, or prepared to be put
    flag,           \* append_text: path.exists() when it chose to overwrite
    temporary,      \* its temporary file exists
    outcome,        \* what it has reported
    during,         \* history: the versions of its path since it began
    changes, faults

bound == <<order, pin, expected>>
own == <<hand, flag, temporary>>
vars == <<disk, bound, at, own, outcome, during, changes, faults>>

TypeOK ==
    /\ disk \in [Paths -> Absentee]
    /\ order \in [Requests -> Orders \cup {NoOrder}]
    /\ at \in [Requests -> Stages]
    /\ pin \in [Requests -> Absentee]
    /\ expected \in [Requests -> Absentee]
    /\ hand \in [Requests -> Absentee]
    /\ flag \in [Requests -> BOOLEAN]
    /\ temporary \in [Requests -> BOOLEAN]
    /\ outcome \in [Requests -> {"none", "ok", "failed", "raised", "dead"}]
    /\ during \in [Requests -> SUBSET Absentee]
    /\ changes \in 0 .. MaxChanges /\ faults \in 0 .. MaxFaults

Init ==
    /\ disk \in [Paths -> Absentee]
    /\ \A p \in Paths : disk[p] \in {Absent, Node("file", {p}), Node("folder", {p})}
    /\ order = [r \in Requests |-> NoOrder]
    /\ at = [r \in Requests |-> "idle"]
    /\ pin = [r \in Requests |-> Absent]
    /\ expected = [r \in Requests |-> Absent]
    /\ hand = [r \in Requests |-> Absent]
    /\ flag = [r \in Requests |-> FALSE]
    /\ temporary = [r \in Requests |-> FALSE]
    /\ outcome = [r \in Requests |-> "none"]
    /\ during = [r \in Requests |-> {}]
    /\ changes = 0 /\ faults = 0

-----------------------------------------------------------------------------
Exists(p) == disk[p] # Absent
IsFile(p) == Exists(p) /\ disk[p].kind = "file"
IsFolder(p) == Exists(p) /\ disk[p].kind = "folder"
Source(r) == order[r].path
Target(r) == order[r].destination
Op(r) == order[r].op

(* While it copies, a request keeps both ends open without sharing their   *)
(* deletion: Windows lets nobody rename, replace or delete them.           *)
InUse(p, q) == at[q] = "fill" /\ p \in {Source(q), Target(q)}
Held(p, r) == \E q \in Requests \ {r} : InUse(p, q)

Becomes(r, stage) == at' = [at EXCEPT ![r] = stage] /\ UNCHANGED outcome
Ends(r, result) ==
    /\ at' = [at EXCEPT ![r] = "over"]
    /\ outcome' = [outcome EXCEPT ![r] = result]

(* The temporary file is renamed, or removed in the finally of             *)
(* _atomic_write_text and _copy_path.                                      *)
Cleaned(r) == [temporary EXCEPT ![r] = FALSE]

(* ActionValidationError or any exception of the handler: reported as a    *)
(* failure by execute_validated. The finally may fail as well: a handle    *)
(* that another program has open on the temporary file keeps it there.     *)
Fails(r) ==
    /\ Ends(r, "failed")
    /\ temporary' \in {Cleaned(r), temporary}
    /\ UNCHANGED <<disk, hand, flag>>

Proceeds(r, test, stage) ==
    IF test THEN Becomes(r, stage) /\ UNCHANGED <<disk, own>> ELSE Fails(r)

Alone == UNCHANGED <<bound, changes, faults>>

(* The versions of its path that a running request has met.                *)
Track == during' = [r \in Requests |->
            IF at'[r] \in Running
            THEN (IF at[r] \in Running THEN during[r] ELSE {}) \cup {disk'[order[r].path]}
            ELSE {}]

(* _source_and_destination.                                                *)
Sound(o) ==
    /\ Exists(o.path)
    /\ Exists(o.destination) => o.overwrite /\ IsFile(o.destination)

(* _validate_file_operation.                                               *)
Valid(o) ==
    CASE o.op = "create_directory" -> ~Exists(o.path)
      [] o.op = "write_text" -> Exists(o.path) => IsFile(o.path) /\ o.overwrite
      [] o.op = "append_text" -> Exists(o.path) => IsFile(o.path)
      [] o.op = "replace_text" -> IsFile(o.path)
      [] o.op \in {"copy", "move", "rename"} -> Sound(o)
      [] o.op = "trash" -> Exists(o.path)

(* preflight.  A replace_text names the version it was read from, which    *)
(* has to be the present one.                                              *)
Ask(r, o) ==
    /\ at[r] = "idle" /\ Valid(o)
    /\ order' = [order EXCEPT ![r] = o]
    /\ expected' = [expected EXCEPT ![r] = IF o.op = "replace_text" THEN disk[o.path] ELSE Absent]
    /\ Becomes(r, "validated")
    /\ UNCHANGED <<disk, pin, own, changes, faults>>

(* canonicalize_authorization_args: only a file that exists is bound.      *)
Bind(r) ==
    /\ at[r] = "validated"
    /\ pin' = [pin EXCEPT ![r] =
                 IF Op(r) \in Writes /\ IsFile(Source(r)) THEN disk[Source(r)] ELSE Absent]
    /\ Becomes(r, "asked")
    /\ UNCHANGED <<disk, order, expected, own, changes, faults>>

(* Cancelled, or not answered in its time.                                 *)
Drop(r) ==
    /\ at[r] = "asked"
    /\ Ends(r, "failed")
    /\ UNCHANGED <<disk, own>> /\ Alone

(* The password was right, or none is asked: execute_validated.            *)
Begin(r) ==
    /\ at[r] = "asked"
    /\ Becomes(r, "check")
    /\ UNCHANGED <<disk, own>> /\ Alone

-----------------------------------------------------------------------------
Holds(r, node) == hand' = [hand EXCEPT ![r] = node]
With(r, node) == IF node = Absent THEN Node("file", {r})
                 ELSE [node EXCEPT !.of = @ \cup {r}]

(* The tests each handler makes first.                                     *)
Check(r) ==
    /\ at[r] = "check"
    /\ \/ /\ Op(r) = "create_directory"
          /\ Proceeds(r, ~Exists(Source(r)), "put")
       \/ /\ Op(r) = "write_text"
          /\ Proceeds(r, Exists(Source(r)) => IsFile(Source(r)) /\ order[r].overwrite, "verify")
       \/ /\ Op(r) = "append_text"
          /\ Proceeds(r, Exists(Source(r)) => IsFile(Source(r)), "verify")
       \/ /\ Op(r) = "replace_text"
          /\ IF IsFile(Source(r)) /\ disk[Source(r)] = expected[r]
             THEN /\ Holds(r, With(r, disk[Source(r)]))
                  /\ Becomes(r, "verify")
                  /\ UNCHANGED <<disk, flag, temporary>>
             ELSE Fails(r)
       \/ /\ Op(r) \in {"copy", "move", "rename"}
          /\ Proceeds(r, Sound(order[r]), "kind")
       \/ /\ Op(r) = "trash"
          /\ Proceeds(r, Exists(Source(r)), "put")
    /\ Alone

(* Mutant: a copy over a file writes into it.                              *)
RouteInPlace(r) ==
    IF Op(r) = "copy" THEN "open"
    ELSE IF Op(r) = "rename" \/ order[r].overwrite THEN "swap"
    ELSE "into"

(* Copies over a file go through a temporary one, others are made in       *)
(* place; a move without overwrite is shutil.move.                         *)
Route(r) ==
    IF Op(r) = "copy" THEN IF order[r].overwrite THEN "temporary" ELSE "open"
    ELSE IF Op(r) = "rename" \/ order[r].overwrite THEN "swap"
    ELSE "into"

Kind(r) ==
    /\ at[r] = "kind"
    /\ Proceeds(r, ~(order[r].overwrite /\ IsFolder(Source(r))), Route(r))
    /\ Alone

(* Mutant: the bound version is not compared.                              *)
UnchangedAlways(r) == TRUE

(* _verify_file_precondition.                                              *)
Unchanged(r) == pin[r] = Absent \/ disk[Source(r)] = pin[r]

Verify(r) ==
    /\ at[r] = "verify"
    /\ Proceeds(r, Unchanged(r),
                CASE Op(r) = "write_text" -> "temporary"
                  [] Op(r) = "append_text" -> "read"
                  [] OTHER -> "recheck")
    /\ Alone

Recheck(r) ==
    /\ at[r] = "recheck"
    /\ Proceeds(r, disk[Source(r)] = expected[r], "temporary")
    /\ Alone

Read(r) ==
    /\ at[r] = "read"
    /\ IF IsFolder(Source(r)) THEN Fails(r)
       ELSE /\ Holds(r, With(r, disk[Source(r)]))
            /\ Becomes(r, "flag")
            /\ UNCHANGED <<disk, flag, temporary>>
    /\ Alone

Flag(r) ==
    /\ at[r] = "flag"
    /\ flag' = [flag EXCEPT ![r] = Exists(Source(r))]
    /\ Becomes(r, "temporary")
    /\ UNCHANGED <<disk, hand, temporary>> /\ Alone

(* mkstemp, and for a text its writing.                                    *)
Temporary(r) ==
    /\ at[r] = "temporary"
    /\ temporary' = [temporary EXCEPT ![r] = TRUE]
    /\ IF Op(r) = "write_text" THEN Holds(r, Node("file", {r})) ELSE UNCHANGED hand
    /\ Becomes(r, IF Op(r) = "copy" THEN "load" ELSE "put")
    /\ UNCHANGED <<disk, flag>> /\ Alone

(* copy2 into the temporary file.                                          *)
Load(r) ==
    /\ at[r] = "load"
    /\ IF IsFile(Source(r))
       THEN /\ Holds(r, disk[Source(r)])
            /\ Becomes(r, "put")
            /\ UNCHANGED <<disk, flag, temporary>>
       ELSE Fails(r)
    /\ Alone

(* Mutant: os.replace for every write.                                     *)
ReplacesAlways(r) == TRUE

(* os.replace takes the place of a file, os.rename refuses an existing     *)
(* path.                                                                   *)
Replaces(r) == order[r].overwrite \/ Op(r) = "replace_text" \/ (Op(r) = "append_text" /\ flag[r])

Placeable(r, p) ==
    /\ ~Held(p, r)
    /\ Exists(p) => Replaces(r) /\ IsFile(p)

Put(r) ==
    /\ at[r] = "put" /\ Op(r) \in Writes \cup {"copy"}
    /\ IF Placeable(r, Target(r))
       THEN /\ disk' = [disk EXCEPT ![Target(r)] = hand[r]]
            /\ temporary' = Cleaned(r)
            /\ Becomes(r, "report")
            /\ UNCHANGED <<hand, flag>>
       ELSE Fails(r)
    /\ Alone

MakeDirectory(r) ==
    /\ at[r] = "put" /\ Op(r) = "create_directory"
    /\ IF Exists(Source(r)) THEN Fails(r)
       ELSE /\ disk' = [disk EXCEPT ![Source(r)] = Node("folder", {r})]
            /\ Becomes(r, "report")
            /\ UNCHANGED own
    /\ Alone

Trash(r) ==
    /\ at[r] = "put" /\ Op(r) = "trash"
    /\ IF Exists(Source(r)) /\ ~Held(Source(r), r)
       THEN /\ disk' = [disk EXCEPT ![Source(r)] = Absent]
            /\ Becomes(r, "report")
            /\ UNCHANGED own
       ELSE Fails(r)
    /\ Alone

-----------------------------------------------------------------------------
Moved(r) == [disk EXCEPT ![Target(r)] = disk[Source(r)], ![Source(r)] = Absent]
Movable(r) ==
    /\ Exists(Source(r)) /\ ~Held(Source(r), r)
    /\ Placeable(r, Target(r))
    /\ Exists(Target(r)) => IsFile(Source(r))

(* rename, and move over a file: one system call.                          *)
Swap(r) ==
    /\ at[r] = "swap"
    /\ IF Movable(r)
       THEN disk' = Moved(r) /\ Becomes(r, "report") /\ UNCHANGED own
       ELSE Fails(r)
    /\ Alone

(* shutil.move, when the destination has become a folder: into it, unless  *)
(* the name is taken there.                                                *)
Into(r) ==
    /\ at[r] = "into"
    /\ \/ ~IsFolder(Target(r)) /\ Proceeds(r, TRUE, "attempt")
       \/ /\ IsFolder(Target(r)) /\ Exists(Source(r)) /\ ~Held(Source(r), r)
          /\ disk' = [disk EXCEPT ![Source(r)] = Absent,
                                  ![Target(r)].of = @ \cup disk[Source(r)].of,
                                  ![Target(r)].torn = @ \cup disk[Source(r)].torn]
          /\ Becomes(r, "report")
          /\ UNCHANGED own
       \/ IsFolder(Target(r)) /\ Fails(r)
    /\ Alone

(* os.rename.  Any OSError, of an existing destination too, leads to a     *)
(* copy and the deletion of the source.                                    *)
Attempt(r) ==
    /\ at[r] = "attempt"
    /\ \/ Movable(r) /\ disk' = Moved(r) /\ Becomes(r, "report") /\ UNCHANGED own
       \/ Proceeds(r, TRUE, "fallback")
    /\ Alone

(* The destination is created, or by shutil.move truncated, and filled     *)
(* later.  copy2 into a folder that has appeared adds to it.               *)
Opens(r) ==
    /\ Holds(r, disk[Source(r)])
    /\ disk' = [disk EXCEPT ![Target(r)] =
                  [IF IsFolder(Target(r)) THEN disk[Target(r)] ELSE Node(disk[Source(r)].kind, {})
                     EXCEPT !.torn = @ \cup {r}]]
    /\ Becomes(r, "fill")
    /\ UNCHANGED <<flag, temporary>>

Open(r) ==
    /\ at[r] = "open"
    /\ IF Exists(Source(r)) /\ ~Exists(Target(r)) THEN Opens(r) ELSE Fails(r)
    /\ Alone

Fallback(r) ==
    /\ at[r] = "fallback"
    /\ IF Exists(Source(r)) /\ ~Held(Target(r), r) /\ (Exists(Target(r)) => IsFile(Source(r)))
       THEN Opens(r) ELSE Fails(r)
    /\ Alone

Fill(r) ==
    /\ at[r] = "fill"
    /\ disk' = [disk EXCEPT ![Target(r)].of = @ \cup hand[r].of,
                            ![Target(r)].torn = (@ \ {r}) \cup hand[r].torn]
    /\ Becomes(r, IF Op(r) = "move" THEN "unlink" ELSE "report")
    /\ UNCHANGED own /\ Alone

(* The source of a fallen back move goes last; rmtree may stop half way.   *)
Unlink(r) ==
    /\ at[r] = "unlink"
    /\ \/ /\ Exists(Source(r)) /\ ~Held(Source(r), r)
          /\ disk' = [disk EXCEPT ![Source(r)] = Absent]
          /\ Becomes(r, "report") /\ UNCHANGED <<own, faults>>
       \/ /\ ~Exists(Source(r)) \/ Held(Source(r), r)
          /\ Fails(r) /\ UNCHANGED faults
       \/ /\ IsFolder(Source(r)) /\ faults < MaxFaults
          /\ disk' = [disk EXCEPT ![Source(r)].torn = @ \cup {r}]
          /\ Ends(r, "failed")
          /\ faults' = faults + 1 /\ UNCHANGED own
    /\ UNCHANGED <<bound, changes>>

(* Mutant: a failure of the audit is reported as one of the action.        *)
ReportInside(r) ==
    /\ at[r] = "report"
    /\ Ends(r, "ok") \/ Ends(r, "failed")
    /\ UNCHANGED <<disk, own>> /\ Alone

(* _record: the audit is written after the effect; its failure reaches the *)
(* caller as an exception.                                                 *)
Report(r) ==
    /\ at[r] = "report"
    /\ Ends(r, "ok") \/ Ends(r, "raised")
    /\ UNCHANGED <<disk, own>> /\ Alone

-----------------------------------------------------------------------------
(* A system call of a running request fails.                               *)
Fault(r) ==
    /\ at[r] \in Running \ {"report"} /\ faults < MaxFaults
    /\ faults' = faults + 1
    /\ Fails(r)
    /\ UNCHANGED <<bound, changes>>

(* The process ends: its threads and challenges with it.                   *)
Crash ==
    /\ faults < MaxFaults
    /\ faults' = faults + 1
    /\ \E r \in Requests : at[r] \in Running
    /\ at' = [r \in Requests |-> IF at[r] \in Running \cup Waiting THEN "over" ELSE at[r]]
    /\ outcome' = [r \in Requests |-> IF at[r] \in Running THEN "dead" ELSE outcome[r]]
    /\ UNCHANGED <<disk, bound, own, changes>>

(* Another program creates, rewrites or deletes.                           *)
Stranger(p, node) ==
    /\ changes < MaxChanges
    /\ changes' = changes + 1
    /\ disk[p] # node
    /\ \A q \in Requests : ~InUse(p, q)
    /\ IsFolder(p) => node = Absent
    /\ IsFile(p) => node # Node("folder", {Other})
    /\ disk' = [disk EXCEPT ![p] = node]
    /\ UNCHANGED <<bound, at, own, outcome, faults>>

Step(r) ==
    \/ \E o \in Orders : Ask(r, o)
    \/ Bind(r) \/ Drop(r) \/ Begin(r)
    \/ Check(r) \/ Kind(r) \/ Verify(r) \/ Recheck(r) \/ Read(r) \/ Flag(r)
    \/ Temporary(r) \/ Load(r) \/ Put(r) \/ MakeDirectory(r) \/ Trash(r)
    \/ Swap(r) \/ Into(r) \/ Attempt(r) \/ Open(r) \/ Fallback(r) \/ Fill(r) \/ Unlink(r)
    \/ Report(r) \/ Fault(r)

Next ==
    /\ \/ \E r \in Requests : Step(r)
       \/ Crash
       \/ \E p \in Paths, node \in {Absent, Node("file", {Other}), Node("folder", {Other})} :
             Stranger(p, node)
    /\ Track

Spec == Init /\ [][Next]_vars

-----------------------------------------------------------------------------
Steps(r) == at[r] \in Running /\ at'[r] # at[r]
Puts(r) == at[r] = "put" /\ at'[r] = "report"

(* Without overwrite, a write, a copy, a rename or a new folder never      *)
(* changes what exists at its destination, also when it appeared after the *)
(* tests (README.md:136).  append_text and shutil.move do: see Seen and    *)
(* README.                                                                 *)
KeepsOthers ==
    \A r \in Requests :
        /\ Steps(r) /\ ~order[r].overwrite
        /\ Op(r) \in {"write_text", "copy", "rename", "create_directory"}
        /\ at[r] # "fill" /\ Exists(Target(r))
        => disk'[Target(r)] = disk[Target(r)]

NoSilentOverwrite == [][KeepsOthers]_vars

(* Only what a copy or a move makes in place is ever seen in part: a text  *)
(* and a copy over a file are whole or not there, wherever they fail.  The *)
(* part may outlive its request: it was left by a failure, or taken by an  *)
(* edit that read it before the copy was complete.                         *)
WholeFiles ==
    \A p \in Paths : Exists(p) => \A r \in disk[p].torn :
        Op(r) \in {"copy", "move"} /\ ~order[r].overwrite

(* A text is put on a version of its file that it met after it began, and  *)
(* which is the one bound at the request; whatever stayed in the file      *)
(* since then is kept by an addition or a replacement.  So two additions   *)
(* that do not overlap never lose each other's text.                       *)
Seen ==
    \A r \in Requests : Puts(r) =>
        /\ pin[r] # Absent => pin[r] \in during[r]
        /\ Op(r) \in {"append_text", "replace_text"} =>
              \A x \in Pieces :
                  (\A v \in during[r] : v # Absent /\ x \in v.of)
                  => x \in disk'[Target(r)].of

ChangesAreSeen == [][Seen]_vars

(* The text, or the folder, of a request that reported a failure is at no  *)
(* path, nor in what another request made of a path; what such a request   *)
(* may leave is its temporary file, and one that succeeded leaves none.    *)
FailureIsClean ==
    \A r \in Requests :
        /\ temporary[r] => at[r] \in Running \/ outcome[r] \in {"failed", "dead"}
        /\ outcome[r] = "failed" =>
              \A p \in Paths : Exists(p) => r \notin disk[p].of
=============================================================================
