------------------------------ MODULE Governance ------------------------------
(***************************************************************************)
(* Recorded workflows on the server: the compiled files of a workflow, by  *)
(* a version number (src/server/routes/workflowRoutes.ts), and the record  *)
(* of its lifecycle (src/server/governance/workflowLifecycle.ts), which    *)
(* decides whether it may run live.                                        *)
(***************************************************************************)
EXTENDS Naturals

CONSTANTS Workflows,   \* ids of recorded workflows
          OnDisk,      \* bound: lifecycle records there may be at the start
          MaxEdits     \* bound: compilations


VARIABLES status,    \* lifecycle status of a workflow, NoRecord before there is one
          content,   \* version of its files, 0 when there are none
          edits      \* compilations so far, which number the versions

governance == <<status, content, edits>>

NoRecord == "none"
Statuses == {"draft", "validated", "approved", "published", "deprecated", "archived"}
Allowed == [draft |-> {"validated", "archived"},
            validated |-> {"draft", "approved", "archived"},
            approved |-> {"published", "deprecated", "archived"},
            published |-> {"deprecated", "archived"},
            deprecated |-> {"archived", "published"},
            archived |-> {}]
LiveRunnableLoose(s) == s \notin {"draft", "archived"}
LiveRunnable(s) == s \in {"approved", "published"}

ASSUME GovernanceAssumption == /\ MaxEdits \in Nat
                               /\ OnDisk \subseteq [Workflows -> Statuses \union {NoRecord}]

(* The records are read from disk.                                         *)
GovernanceInit == /\ status \in OnDisk
                  /\ content = [w \in Workflows |-> IF status[w] = NoRecord THEN 0 ELSE 1]
                  /\ edits = 1

GetOrCreate(w) == IF status[w] = NoRecord THEN [status EXCEPT ![w] = "draft"] ELSE status

(* compileWorkflow writes all the files of the directory.                  *)
Compile(w) == /\ edits < MaxEdits /\ edits' = edits + 1
              /\ content' = [content EXCEPT ![w] = edits']

(* POST /workflows/import: the id is the name of the workflow.             *)
Import(w) == Compile(w) /\ status' = GetOrCreate(w)

(* PUT /workflows/recorded/:id; the record is made before the check.       *)
Save(w) == /\ status' = GetOrCreate(w)
           /\ \/ status[w] # "published" /\ Compile(w)
              \/ status[w] = "published" /\ UNCHANGED <<content, edits>>

(* POST /workflows/recorded/:id/duplicate: into a directory that is free.  *)
Duplicate(w, copy) == /\ content[w] # 0 /\ content[copy] = 0
                      /\ Compile(copy) /\ status' = GetOrCreate(copy)

(* POST /workflows/:id/lifecycle: to the status it has it is no            *)
(* transition, to one that is not allowed it is refused.                   *)
Transition(w, to) ==
    LET from == GetOrCreate(w)[w]
    IN /\ status' = IF to \in Allowed[from] THEN [status EXCEPT ![w] = to] ELSE GetOrCreate(w)
       /\ UNCHANGED <<content, edits>>

Govern == \E w \in Workflows :
             \/ Import(w) \/ Save(w) \/ \E copy \in Workflows : Duplicate(w, copy)
             \/ \E to \in Statuses : Transition(w, to)

GovernanceTypeOK == /\ status \in [Workflows -> Statuses \union {NoRecord}]
                    /\ content \in [Workflows -> Nat] /\ edits \in Nat
=============================================================================
