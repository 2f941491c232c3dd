--------------------------- MODULE BlueprintEditor ---------------------------
(***************************************************************************)
(* The blueprint editor of one browser tab (dashboard/public/app.js) and   *)
(* the blueprints the dashboard stores for it.  The tab has one editor     *)
(* state, state.currentBlueprint, which every handler reads and replaces;  *)
(* handlers await answers in between, so they interleave.  A blueprint's   *)
(* contents are the set of edits it holds.                                 *)
(***************************************************************************)
EXTENDS FiniteSets, Naturals

CONSTANTS Stored,    \* the blueprints stored when the tab opens
          Unborn,    \* identifiers the dashboard will give to new blueprints
          Edits,     \* the edits the user makes, each once
          Calls,     \* the handlers that leave or replace a blueprint
          None       \* the id of a blueprint that was never saved

ASSUME EditorAssumption ==
  /\ Stored \cap Unborn = {}
  /\ None # "unmade" /\ {None, "unmade"} \cap (Stored \cup Unborn) = {}
  /\ Calls \cap {"button", "upload"} = {}

VARIABLES
  known,      \* the blueprints the dashboard stores
  server,     \* their contents
  ed,         \* state.currentBlueprint, its saved fingerprint and visibility
  save,       \* the running saveBlueprint: savingBlueprint is save.pc # "idle"
  calls,      \* the running handlers
  form,       \* the Ansible task dialog: the blueprint it was opened on
  upload,     \* the upload dialog and its request
  made,       \* where each edit was made (history)
  discarded,  \* the edits the user chose to discard (history)
  late        \* the edits made while a load or a save was under way (history)

vars == <<known, server, ed, save, calls, form, upload, made, discarded, late>>
history == <<made, discarded, late>>

Blueprints == Stored \cup Unborn
Targets == Stored \cup {"new", "leave"}
Unmade == "unmade"

Empty == [id |-> None, content |-> {}, saved |-> {}, visible |-> FALSE]
NoSave == [pc |-> "idle", id |-> None, content |-> {}, by |-> "button"]
NoCall == [pc |-> "idle", target |-> "leave", content |-> {}]
NoForm == [pc |-> "closed", id |-> None]
NoUpload == [pc |-> "closed", asked |-> None, target |-> None]

Dirty == ed.content # ed.saved
Saving == save.pc # "idle"
Asking == \E c \in Calls : calls[c].pc = "asking"
Modal == Asking \/ form.pc # "closed" \/ upload.pc # "closed"

Init == /\ known = Stored
        /\ server = [b \in Blueprints |-> {}]
        /\ ed = Empty
        /\ save = NoSave
        /\ calls = [c \in Calls |-> NoCall]
        /\ form = NoForm
        /\ upload = NoUpload
        /\ made = [e \in Edits |-> Unmade]
        /\ discarded = {}
        /\ late = {}

---------------------------------------------------------------------------
(* Editing *)

Busy == Saving \/ \E c \in Calls : calls[c].pc \in {"fetching", "got"}

Make(e) == /\ ed' = [ed EXCEPT !.content = @ \cup {e}]
           /\ made' = [made EXCEPT ![e] = ed.id]
           /\ late' = IF Busy THEN late \cup {e} ELSE late

\* The user edits the visible workspace; a save makes it inert, a modal
\* dialog covers it.
Edit(e) == /\ made[e] = Unmade
           /\ ed.visible /\ ~Saving /\ ~Modal
           /\ Make(e)
           /\ UNCHANGED <<known, server, save, calls, form, upload, discarded>>

OpenForm == /\ ed.visible /\ ~Saving /\ ~Modal
            /\ form' = [pc |-> "open", id |-> ed.id]
            /\ UNCHANGED <<known, server, ed, save, calls, upload, history>>

\* Apply asks the dashboard to check the YAML first.
SubmitForm == /\ form.pc = "open" /\ ~Asking
              /\ form' = [form EXCEPT !.pc = "checking"]
              /\ UNCHANGED <<known, server, ed, save, calls, upload, history>>

\* updateVm changes the VM it was opened on, if the editor still has it.
ApplyForm(e) == /\ form.pc = "checking"
                /\ made[e] = Unmade
                /\ form' = NoForm
                /\ IF form.id = ed.id
                     THEN Make(e) ELSE UNCHANGED <<ed, made, late>>
                /\ UNCHANGED <<known, server, save, calls, upload, discarded>>

FormRefused == /\ form.pc = "checking"
               /\ form' = [form EXCEPT !.pc = "open"]
               /\ UNCHANGED <<known, server, ed, save, calls, upload, history>>

CloseForm == /\ form.pc # "closed"
             /\ form' = NoForm
             /\ UNCHANGED <<known, server, ed, save, calls, upload, history>>

---------------------------------------------------------------------------
(* Leaving or replacing a blueprint *)

\* What a guarded handler does once guardBlueprintChanges answered true.
Proceed(c, t, e) ==
  IF t \in Stored
    THEN /\ calls' = [calls EXCEPT ![c] = [NoCall EXCEPT !.pc = "fetching", !.target = t]]
         /\ ed' = e
    ELSE /\ calls' = [calls EXCEPT ![c] = NoCall]
         /\ ed' = IF t = "new" THEN [Empty EXCEPT !.visible = TRUE]
                               ELSE [e EXCEPT !.visible = FALSE]

Guarded_Bug(c, t) == ~Saving /\ Proceed(c, t, ed)

\* guardBlueprintChanges: refused during a save, no question when nothing is
\* unsaved, and a second dialog answers "cancel" at once.
Guarded(c, t) ==
  /\ ~Saving
  /\ \/ ~Dirty /\ Proceed(c, t, ed)
     \/ /\ Dirty /\ ~Asking
        /\ calls' = [calls EXCEPT ![c] = [NoCall EXCEPT !.pc = "asking", !.target = t]]
        /\ UNCHANGED ed

\* The browser's Back button starts a handler under a modal dialog too.
Leave(c, t) == /\ calls[c].pc = "idle"
               /\ Guarded(c, t)
               /\ UNCHANGED <<known, server, save, form, upload, history>>

Stay(c) == /\ calls[c].pc = "asking"
           /\ calls' = [calls EXCEPT ![c] = NoCall]
           /\ UNCHANGED <<known, server, ed, save, form, upload, history>>

Discard(c) == /\ calls[c].pc = "asking"
              /\ discarded' = discarded \cup (ed.content \ ed.saved)
              /\ Proceed(c, calls[c].target, Empty)
              /\ UNCHANGED <<known, server, save, form, upload, made, late>>

\* The blueprint is read when the request is handled, shown when it arrives.
Read(c) == /\ calls[c].pc = "fetching"
           /\ calls' = [calls EXCEPT ![c].pc = "got", ![c].content = server[calls[c].target]]
           /\ UNCHANGED <<known, server, ed, save, form, upload, history>>

Show(c) == /\ calls[c].pc = "got"
           /\ ed' = [id |-> calls[c].target, content |-> calls[c].content,
                     saved |-> calls[c].content, visible |-> TRUE]
           /\ calls' = [calls EXCEPT ![c] = NoCall]
           /\ UNCHANGED <<known, server, save, form, upload, history>>

LoadFails(c) == /\ calls[c].pc \in {"fetching", "got"}
                /\ calls' = [calls EXCEPT ![c] = NoCall]
                /\ UNCHANGED <<known, server, ed, save, form, upload, history>>

---------------------------------------------------------------------------
(* saveBlueprint *)

Begin(by) == save' = [pc |-> "sent", id |-> ed.id, content |-> ed.content, by |-> by]

SaveButton == /\ ed.visible /\ ~Modal /\ ~Saving
              /\ Begin("button")
              /\ UNCHANGED <<known, server, ed, calls, form, upload, history>>

\* "Save changes" in the guard's dialog.
SaveFirst(c) == /\ calls[c].pc = "asking" /\ ~Saving
                /\ Begin(c)
                /\ calls' = [calls EXCEPT ![c].pc = "saving"]
                /\ UNCHANGED <<known, server, ed, form, upload, history>>

\* The name, the module or a VM is refused, or another save runs.
SaveRefused(c) == /\ calls[c].pc = "asking"
                  /\ calls' = [calls EXCEPT ![c] = NoCall]
                  /\ UNCHANGED <<known, server, ed, save, form, upload, history>>

StoredAs_Bug == {save.id}

\* PUT for a blueprint that has an identifier, POST for a new one.
StoredAs == IF save.id = None THEN Unborn \ known ELSE {save.id}

\* The dashboard stores the blueprint; a new one gets an identifier.
Store == /\ save.pc = "sent"
         /\ \E b \in StoredAs :
              /\ known' = known \cup {b}
              /\ server' = [server EXCEPT ![b] = save.content]
              /\ save' = [save EXCEPT !.pc = "answered", !.id = b]
         /\ UNCHANGED <<ed, calls, form, upload, history>>

Answered_Bug == [ed EXCEPT !.id = save.id, !.saved = ed.content]

\* The answer replaces the editor's blueprint as a whole.
Answered == [id |-> save.id, content |-> save.content, saved |-> save.content,
             visible |-> ed.visible]

Answer == /\ save.pc = "answered"
          /\ ed' = Answered
          /\ save' = [save EXCEPT !.pc = "refreshing"]
          /\ UNCHANGED <<known, server, calls, form, upload, history>>

Release_Bug == save' = [save EXCEPT !.pc = "failed"]

Release == save' = NoSave

\* The request fails, before or after the dashboard stored it, or the list
\* cannot be read after it: whoever awaits saveBlueprint gets the error.
SaveFails == /\ Saving
             /\ Release
             /\ calls' = [c \in Calls |-> IF save.by = c THEN NoCall ELSE calls[c]]
             /\ upload' = IF save.by = "upload" /\ upload.pc = "saving"
                            THEN [upload EXCEPT !.pc = "open"] ELSE upload
             /\ UNCHANGED <<known, server, ed, form, history>>

\* The lists are read again, then the caller goes on with the editor's
\* blueprint of that moment.
Saved == /\ save.pc = "refreshing"
         /\ save' = NoSave
         /\ \/ /\ save.by = "button"
               /\ UNCHANGED <<ed, calls, upload>>
            \/ /\ save.by \in Calls
               /\ Proceed(save.by, calls[save.by].target, ed)
               /\ UNCHANGED upload
            \/ /\ save.by = "upload"
               /\ upload' = IF upload.pc # "saving" THEN upload
                            ELSE [upload EXCEPT !.pc = "sending", !.target = ed.id]
               /\ UNCHANGED <<ed, calls>>
         /\ UNCHANGED <<known, server, form, history>>

---------------------------------------------------------------------------
(* promptFileUpload *)

OpenUpload == /\ ed.visible /\ ~Saving /\ ~Modal
              /\ upload' = [NoUpload EXCEPT !.pc = "open", !.asked = ed.id]
              /\ UNCHANGED <<known, server, ed, save, calls, form, history>>

SubmitUpload == /\ upload.pc = "open" /\ ~Asking /\ ~Saving
                /\ upload' = [upload EXCEPT !.pc = "saving"]
                /\ Begin("upload")
                /\ UNCHANGED <<known, server, ed, calls, form, history>>

Uploaded == /\ upload.pc = "sending"
            /\ upload' = NoUpload
            /\ ed' = [ed EXCEPT !.saved = ed.content]
            /\ UNCHANGED <<known, server, save, calls, form, history>>

\* The request, or the VM the editor should have at that place, is missing.
UploadFails == /\ upload.pc = "sending"
               /\ upload' = [upload EXCEPT !.pc = "open", !.target = None]
               /\ UNCHANGED <<known, server, ed, save, calls, form, history>>

\* Closing the dialog aborts the request.
CloseUpload == /\ upload.pc # "closed"
               /\ upload' = NoUpload
               /\ UNCHANGED <<known, server, ed, save, calls, form, history>>

Next == \/ \E e \in Edits : Edit(e) \/ ApplyForm(e)
        \/ OpenForm \/ SubmitForm \/ FormRefused \/ CloseForm
        \/ \E c \in Calls, t \in Targets : Leave(c, t)
        \/ \E c \in Calls : Stay(c) \/ Discard(c) \/ Read(c) \/ Show(c) \/ LoadFails(c)
        \/ SaveButton \/ Store \/ Answer \/ SaveFails \/ Saved
        \/ \E c \in Calls : SaveFirst(c) \/ SaveRefused(c)
        \/ OpenUpload \/ SubmitUpload \/ Uploaded \/ UploadFails \/ CloseUpload

Spec == Init /\ [][Next]_vars

\* A request is answered or fails: the browser settles every fetch.
Fairness == /\ WF_vars(Store \/ Answer \/ SaveFails \/ Saved)
            /\ \A c \in Calls : WF_vars(Read(c) \/ Show(c) \/ LoadFails(c))

FairSpec == Spec /\ Fairness

---------------------------------------------------------------------------
\* The values the tab's variables take.
TypeOK ==
  /\ known \in SUBSET Blueprints
  /\ server \in [Blueprints -> SUBSET Edits]
  /\ ed \in [id : Blueprints \cup {None}, content : SUBSET Edits,
             saved : SUBSET Edits, visible : BOOLEAN]
  /\ save \in [pc : {"idle", "sent", "answered", "refreshing"},
               id : Blueprints \cup {None}, content : SUBSET Edits,
               by : {"button", "upload"} \cup Calls]
  /\ calls \in [Calls -> [pc : {"idle", "asking", "saving", "fetching", "got"},
                          target : Targets, content : SUBSET Edits]]
  /\ form \in [pc : {"closed", "open", "checking"}, id : Blueprints \cup {None}]
  /\ upload \in [pc : {"closed", "open", "saving", "sending"},
                 asked : Blueprints \cup {None}, target : Blueprints \cup {None}]
  /\ made \in [Edits -> Blueprints \cup {None, Unmade}]
  /\ discarded \subseteq Edits
  /\ late \subseteq Edits

\* An edit is only ever stored in the blueprint it was made on, or, made on a
\* new blueprint, in one the dashboard created: no answer that arrives while
\* another blueprint is shown carries edits over.
EditsStayHome ==
  \A b \in Blueprints : \A e \in server[b] :
    made[e] = b \/ (made[e] = None /\ b \in Unborn)

\* An edit the user did not discard is in the editor or stored, unless it was
\* made while a load or a save was under way: leaving, replacing, failed saves
\* and failed loads lose nothing else.
KeptUnlessLate ==
  \A e \in Edits :
    made[e] # Unmade /\ e \notin discarded \cup late =>
      e \in ed.content \/ \E b \in Blueprints : e \in server[b]

\* The flag that refuses every save and every guarded handler is released.
EverySaveEnds == Saving ~> ~Saving

---------------------------------------------------------------------------
(* What the documentation says and the code does not keep *)

\* README.md:24 "protects unsaved changes when leaving or replacing a
\* blueprint": no unsaved edit leaves the editor except by the user's choice.
UnsavedKept ==
  [][\A e \in ed.content \ ed.saved :
       e \in ed'.content \/ e \in discarded' \/ \E b \in Blueprints : e \in server[b]]_vars

\* app.js:4092 "Uploading saves the current blueprint and attaches the file to
\* this VM": the file is sent for the blueprint the dialog was opened on.
UploadWhereAsked ==
  upload.pc = "sending" => upload.asked \in {None, upload.target}
=============================================================================
