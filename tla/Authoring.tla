------------------------------ MODULE Authoring ------------------------------
(***************************************************************************)
(* controlplane/authoring.py, propose_edit: an edit from the UI is written *)
(* into the working copy, validated there, and restored or committed.  The *)
(* edit routes of app.py run in the server's thread pool, as many at a     *)
(* time as there are requests; the node save of resource_routes.py runs on *)
(* the event loop, so that nothing is begun beside it, with the toggle of  *)
(* a lifecycle that follows.  Nothing locks a file from its reading to its *)
(* restoration.                                                            *)
(*                                                                         *)
(* A text is who wrote it, whether its validator would accept it, and      *)
(* whether an entry was overlaid on it (a node, a toggled flag).  A        *)
(* validator looks at its whole family of files, here in one step.         *)
(***************************************************************************)
EXTENDS Naturals, FiniteSets

CONSTANTS
  Edits,          \* requests
  Files,          \* editable files
  Family(_),      \* the files that are validated with a file
  Model,          \* the file of resource nodes, which node saves write
  Fragment,       \* the file of lifecycles, which toggles write
  MaxMishaps      \* bound on writes, validators and restorations that fail, deaths

ASSUME AuthoringAssumption ==
  /\ IsFiniteSet(Files) /\ {Model, Fragment} \subseteq Files
  /\ \A f \in Files : f \in Family(f) /\ Family(f) \subseteq Files
  /\ MaxMishaps \in Nat

VARIABLES
  copy,       \* the working copy: the text of each file
  head,       \* the text of each file in the last commit
  edit,       \* the requests
  mishaps,
  \* History.
  accepted,   \* the text of the last accepted change of each file
  met         \* files that two requests were busy with at a time

authoringVars == <<copy, head, edit, mishaps, accepted, met>>

Written(by, valid, over) == [by |-> by, valid |-> valid, over |-> over]
Initial == Written("repository", TRUE, FALSE)
Torn == Written("nobody", FALSE, FALSE)   \* a file that was truncated and not yet written
Absent == Initial                         \* no original is needed before it is read

NewEdit ==
  [at |-> "new", kind |-> "save", file |-> Model, text |-> Initial, original |-> Absent,
   refused |-> FALSE, dirty |-> FALSE, broken |-> FALSE]

AuthoringInit ==
  /\ copy = [f \in Files |-> Initial] /\ head = copy
  /\ edit = [e \in Edits |-> NewEdit]
  /\ mishaps = 0 /\ accepted = copy /\ met = {}

-----------------------------------------------------------------------------
Settled(e) == edit[e].at \in {"new", "done", "died"}
Busy(f) == {e \in Edits : ~Settled(e) /\ edit[e].file = f}
EventLoopBlocked == \E e \in Edits : ~Settled(e) /\ edit[e].kind \in {"node", "toggle"}

\* Is the text of f one that some request has applied and not yet validated, or torn?
Provisional(f) ==
  \/ copy[f] = Torn
  \/ \E e \in Busy(f) : edit[e].at \in {"validate", "settle"} /\ copy[f] = edit[e].text

Stands(e, place) == edit[e].at = place
Goes(e, new) == edit' = [edit EXCEPT ![e] = new]

\* Who comes to a file while another is busy with it.
Comes(e, f) == met' = IF Busy(f) \ {e} # {} THEN met \cup {f} ELSE met

\* A save or the "validate only" of the editor.  A path that is not editable and a
\* text that does not parse are refused before anything is read.
StartEdit(e) ==
  /\ Stands(e, "new") /\ ~EventLoopBlocked
  /\ \E kind \in {"save", "check"}, f \in Files, valid \in BOOLEAN :
       /\ Goes(e, [NewEdit EXCEPT !.at = "read", !.kind = kind, !.file = f,
                                  !.text = Written(e, valid, FALSE)])
       /\ Comes(e, f)
  /\ UNCHANGED <<copy, head, mishaps, accepted>>

\* save_node: the document is read and the node's entry overlaid; a document that
\* does not parse ends it.
StartNode(e) ==
  /\ Stands(e, "new") /\ ~EventLoopBlocked
  /\ Goes(e, [NewEdit EXCEPT !.at = IF copy[Model] = Torn THEN "done" ELSE "read",
                             !.kind = "node", !.refused = copy[Model] = Torn,
                             !.text = [copy[Model] EXCEPT !.over = TRUE]])
  /\ Comes(e, Model)
  /\ UNCHANGED <<copy, head, mishaps, accepted>>

\* A request that has ended; a node save that was accepted goes on with the toggle
\* of its lifecycle, where the form asks for it.
Ended(e, refused) ==
  LET done == [edit[e] EXCEPT !.at = "done", !.refused = refused]
  IN  \/ Goes(e, done)
      \/ edit[e].kind = "node" /\ ~refused
         /\ Goes(e, [done EXCEPT !.at = "toggle", !.kind = "toggle", !.file = Fragment])

\* The original is read.  A text that changes nothing is done.
ReadOriginal(e) ==
  /\ Stands(e, "read")
  /\ IF copy[edit[e].file] = edit[e].text
     THEN Ended(e, FALSE)
     ELSE Goes(e, [edit[e] EXCEPT !.at = "write", !.original = copy[edit[e].file],
                                  !.dirty = Provisional(edit[e].file)])
  /\ UNCHANGED <<copy, head, mishaps, accepted, met>>

Mishap == mishaps < MaxMishaps /\ mishaps' = mishaps + 1

\* _write_atomic: another file that replaces this one, or none.
Write(e) ==
  /\ Stands(e, "write")
  /\ \/ /\ copy' = [copy EXCEPT ![edit[e].file] = edit[e].text]
        /\ Goes(e, [edit[e] EXCEPT !.at = "validate"])
        /\ UNCHANGED mishaps
     \/ Mishap /\ Ended(e, TRUE) /\ UNCHANGED copy
  /\ UNCHANGED <<head, accepted, met>>

\* The validators see what the family's files hold now.
Verdict(e) == \A f \in Family(edit[e].file) : copy[f].valid

RunValidators(e) ==
  /\ Stands(e, "validate")
  /\ \E works \in BOOLEAN :
       /\ IF works THEN UNCHANGED mishaps ELSE Mishap
       /\ Goes(e, [edit[e] EXCEPT !.at = "settle", !.refused = ~works \/ ~Verdict(e)])
  /\ UNCHANGED <<copy, head, accepted, met>>

-----------------------------------------------------------------------------
\* Mutant of Undone: a text that is refused stays.
UndoneIfChecked(e) == edit[e].kind = "check"

Undone(e) == edit[e].refused \/ edit[e].kind = "check"

\* The original comes back; where that fails the exception ends the request and the
\* text stays.
Restore(e) ==
  /\ Stands(e, "settle") /\ Undone(e)
  /\ \/ /\ copy' = [copy EXCEPT ![edit[e].file] = edit[e].original]
        /\ Ended(e, edit[e].refused)
        /\ UNCHANGED mishaps
     \/ /\ Mishap
        /\ Goes(e, [edit[e] EXCEPT !.at = "done", !.refused = TRUE, !.broken = TRUE])
        /\ UNCHANGED copy
  /\ UNCHANGED <<head, accepted, met>>

\* git commits what the file holds now; a commit that fails leaves a warning.
Commit(e) ==
  /\ Stands(e, "settle") /\ ~Undone(e)
  /\ accepted' = [accepted EXCEPT ![edit[e].file] = edit[e].text]
  /\ \/ head' = [head EXCEPT ![edit[e].file] = copy[edit[e].file]] /\ UNCHANGED mishaps
     \/ Mishap /\ UNCHANGED head
  /\ Ended(e, FALSE)
  /\ UNCHANGED <<copy, met>>

\* set_lifecycle_flags: the fragment is read and its flags set; it is neither
\* validated nor committed, and not replaced but truncated and written.
ReadFragment(e) ==
  /\ Stands(e, "toggle")
  /\ Goes(e, [edit[e] EXCEPT !.at = IF copy[Fragment] = Torn THEN "done" ELSE "truncate",
                             !.text = [copy[Fragment] EXCEPT !.over = TRUE],
                             !.dirty = @ \/ Provisional(Fragment)])
  /\ Comes(e, Fragment)
  /\ UNCHANGED <<copy, head, mishaps, accepted>>

TruncateFragment(e) ==
  /\ Stands(e, "truncate")
  /\ copy' = [copy EXCEPT ![Fragment] = Torn]
  /\ Goes(e, [edit[e] EXCEPT !.at = "rewrite"])
  /\ UNCHANGED <<head, mishaps, accepted, met>>

WriteFragment(e) ==
  /\ Stands(e, "rewrite")
  /\ \/ /\ copy' = [copy EXCEPT ![Fragment] = edit[e].text]
        /\ accepted' = [accepted EXCEPT ![Fragment] = edit[e].text]
        /\ Goes(e, [edit[e] EXCEPT !.at = "done"])
        /\ UNCHANGED mishaps
     \/ /\ Mishap
        /\ Goes(e, [edit[e] EXCEPT !.at = "done", !.broken = TRUE])
        /\ UNCHANGED <<copy, accepted>>
  /\ UNCHANGED <<head, met>>

\* The server ends with what it was doing; what comes after it is a new server.
Dies ==
  /\ \E e \in Edits : ~Settled(e)
  /\ Mishap
  /\ edit' = [e \in Edits |-> IF Settled(e) THEN edit[e]
                              ELSE [edit[e] EXCEPT !.at = "died",
                                      !.broken = Stands(e, "validate") \/ Stands(e, "settle")
                                                 \/ Stands(e, "rewrite")]]
  /\ UNCHANGED <<copy, head, accepted, met>>

AuthoringNext ==
  \/ \E e \in Edits :
       \/ StartEdit(e) \/ StartNode(e) \/ ReadOriginal(e) \/ Write(e) \/ RunValidators(e)
       \/ Restore(e) \/ Commit(e)
       \/ ReadFragment(e) \/ TruncateFragment(e) \/ WriteFragment(e)
  \/ Dies

AuthoringSpec == AuthoringInit /\ [][AuthoringNext]_authoringVars

-----------------------------------------------------------------------------
AtRest == \A e \in Edits : Settled(e)
Interrupted(f) == \E e \in Edits : edit[e].file = f /\ edit[e].broken

\* No edit leaves more behind than it was accepted for.  Once the requests are over,
\* a file that no two of them were busy with at a time holds the last text that was
\* accepted for it, unless a server died or a restoration failed; one that holds a
\* text its validator refuses was met by two of them while one had read what the other
\* had only applied, or was left so by a death or a failed restoration; and the last
\* commit holds such a text only of a file that two were busy with.
EditsSound ==
  AtRest => \A f \in Files :
    /\ copy[f] # accepted[f] => f \in met \/ Interrupted(f)
    /\ ~copy[f].valid => \/ Interrupted(f)
                         \/ \E e \in Edits : edit[e].file = f /\ edit[e].dirty
    /\ ~head[f].valid => f \in met
=============================================================================
