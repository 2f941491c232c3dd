-------------------------- MODULE DashboardProofs --------------------------
(***************************************************************************)
(* Proofs about the dashboard's pages, for every value of their constants: *)
(* the blueprint editor loses no edit and stores none elsewhere, actions   *)
(* on VMs report what Proxmox ended, and a clean-up of orphaned disks      *)
(* deletes what it should and nothing it must keep.                        *)
(***************************************************************************)
EXTENDS MCDashboard, TLAPS, FiniteSetTheorems

---------------------------------------------------------------------------
(* The blueprint editor *)

Fetching == \E c \in Calls : calls[c].pc \in {"fetching", "got"}

\* What the user gave up or the properties except, and what is kept of the edits
\* of a blueprint: those and what the dashboard stores of it.
Exempt == discarded \cup late
StoredOf(i) == IF i \in Blueprints THEN server[i] ELSE {}
Kept(i) == Exempt \cup StoredOf(i)

\* The edit may be stored in a blueprint with this identifier.
Home(e, i) == made[e] = i \/ (made[e] = None /\ i \in Unborn)

\* The tab knows only identifiers the dashboard has given, and loads only
\* blueprints that are stored.
Identified ==
  /\ ed.id \in known \cup {None} /\ save.id \in known \cup {None}
  /\ save.pc \in {"answered", "refreshing"} => save.id \in known
  /\ Stored \subseteq known
  /\ \A b \in Blueprints \ known : server[b] = {}
  /\ \A c \in Calls : calls[c].pc \in {"fetching", "got"} => calls[c].target \in Stored

\* One question at a time, none during a save, and one dialog.
OneDialog ==
  /\ \A c \in Calls : calls[c].pc = "asking" =>
       ~ Saving /\ \A d \in Calls : calls[d].pc = "asking" => c = d
  /\ form.pc = "closed" \/ upload.pc = "closed"
  /\ upload.pc = "saving" => Saving /\ save.by = "upload"

\* Wherever an edit is, it was made there.
AllHome ==
  /\ \A b \in Blueprints : \A e \in server[b] : Home(e, b)
  /\ \A e \in ed.content : Home(e, ed.id)
  /\ Saving => \A e \in save.content : Home(e, save.id)
  /\ \A c \in Calls : calls[c].pc = "got" => \A e \in calls[c].content : Home(e, calls[c].target)

\* What counts as saved is kept, and so is the whole workspace while an answer
\* may replace it.
SavedIsKept ==
  /\ ed.saved \subseteq Kept(ed.id)
  /\ Fetching \/ save.pc = "refreshing" \/ upload.pc = "sending" => ed.content \subseteq Kept(ed.id)
  /\ save.pc \in {"sent", "answered"} => ed.content \subseteq save.content \cup Kept(ed.id)
  /\ save.pc = "answered" => StoredOf(save.id) = save.content
  /\ \A c \in Calls : calls[c].pc = "got" => calls[c].content \subseteq Kept(calls[c].target)

\* What the tab is going to store or to show is not older than what is stored.
NoneOlder ==
  /\ StoredOf(ed.id) \subseteq ed.content \cup Exempt
  /\ save.pc = "sent" =>
       /\ StoredOf(save.id) \subseteq save.content \cup Exempt
       /\ ed.id = save.id /\ save.id # None => save.content \subseteq ed.content \cup Exempt
       /\ Fetching => save.content \subseteq Kept(save.id)
  /\ \A c \in Calls : calls[c].pc = "got" =>
       StoredOf(calls[c].target) \subseteq calls[c].content \cup Exempt

EditorInv ==
  TypeOK /\ Identified /\ OneDialog /\ AllHome /\ SavedIsKept /\ NoneOlder /\ KeptUnlessLate

---------------------------------------------------------------------------
(* Each step of the editor *)

Editors == [id : Blueprints \cup {None}, content : SUBSET Edits, saved : SUBSET Edits, visible : BOOLEAN]
EditCalls == [pc : {"idle", "asking", "saving", "fetching", "got"}, target : Targets, content : SUBSET Edits]
Saves == [pc : {"idle", "sent", "answered", "refreshing"}, id : Blueprints \cup {None},
          content : SUBSET Edits, by : {"button", "upload"} \cup Calls]
Uploads == [pc : {"closed", "open", "saving", "sending"},
            asked : Blueprints \cup {None}, target : Blueprints \cup {None}]

\* A tab starts with an empty editor.
LEMMA EditorInit ==
  Init => EditorInv
<1>. SUFFICES ASSUME Init PROVE EditorInv
  OBVIOUS
<1>. USE EditorAssumption
     DEF Init, Blueprints, Targets, Exempt, Kept, StoredOf, Home, Fetching, Saving, Unmade, history,
         Empty, NoSave, NoCall, NoForm, NoUpload
<1>1. TypeOK
  BY DEF TypeOK
<1>2. Identified /\ OneDialog /\ AllHome /\ SavedIsKept /\ NoneOlder /\ KeptUnlessLate
  BY DEF Identified, OneDialog, AllHome, SavedIsKept, NoneOlder, KeptUnlessLate
<1>. QED
  BY <1>1, <1>2 DEF EditorInv

\* The user edits, or a dialog applies an edit.
LEMMA EditSteps ==
  ASSUME EditorInv, NEW e \in Edits, Edit(e) \/ ApplyForm(e)
  PROVE  EditorInv'
<1>. USE EditorAssumption
     DEF EditorInv, Blueprints, Targets, Exempt, Kept, StoredOf, Home, Fetching, Saving, Asking, Modal,
         Busy, Unmade, history, Dirty,
         Edit, ApplyForm, Make, NoForm
<1>1. TypeOK'
  BY DEF TypeOK
<1>2. Identified' /\ OneDialog'
  BY DEF TypeOK, Identified, OneDialog
<1>3. AllHome' /\ SavedIsKept' /\ NoneOlder' /\ KeptUnlessLate'
  BY DEF TypeOK, Identified, OneDialog, AllHome, SavedIsKept, NoneOlder, KeptUnlessLate
<1>. QED
  BY <1>1, <1>2, <1>3 DEF EditorInv

\* The Ansible task dialog
LEMMA FormSteps ==
  ASSUME EditorInv, OpenForm \/ SubmitForm \/ FormRefused \/ CloseForm
  PROVE  EditorInv'
<1>. USE EditorAssumption
     DEF EditorInv, Blueprints, Targets, Exempt, Kept, StoredOf, Home, Fetching, Saving, Asking, Modal,
         Busy, Unmade, history, Dirty,
         OpenForm, SubmitForm, FormRefused, CloseForm, NoForm
<1>1. TypeOK'
  BY DEF TypeOK
<1>2. Identified' /\ OneDialog'
  BY DEF TypeOK, Identified, OneDialog
<1>3. AllHome' /\ SavedIsKept' /\ NoneOlder' /\ KeptUnlessLate'
  BY DEF TypeOK, Identified, OneDialog, AllHome, SavedIsKept, NoneOlder, KeptUnlessLate
<1>. QED
  BY <1>1, <1>2, <1>3 DEF EditorInv

\* The upload dialog is opened.
LEMMA OpenStep ==
  ASSUME EditorInv, OpenUpload
  PROVE  EditorInv'
<1>. USE EditorAssumption
     DEF EditorInv, Blueprints, Targets, Exempt, Kept, StoredOf, Home, Fetching, Saving, Asking, Modal,
         Busy, Unmade, history, Dirty,
         OpenUpload, NoUpload
<1>1. TypeOK'
  BY DEF TypeOK
<1>2. Identified' /\ OneDialog'
  BY DEF TypeOK, Identified, OneDialog
<1>3. AllHome' /\ SavedIsKept' /\ NoneOlder' /\ KeptUnlessLate'
  BY DEF TypeOK, Identified, OneDialog, AllHome, SavedIsKept, NoneOlder, KeptUnlessLate
<1>. QED
  BY <1>1, <1>2, <1>3 DEF EditorInv

\* It is shut, and its request aborted.
LEMMA CloseStep ==
  ASSUME EditorInv, CloseUpload
  PROVE  EditorInv'
<1>. USE EditorAssumption
     DEF EditorInv, Blueprints, Targets, Exempt, Kept, StoredOf, Home, Fetching, Saving, Asking, Modal,
         Busy, Unmade, history, Dirty,
         CloseUpload, NoUpload
<1>1. TypeOK'
  BY DEF TypeOK
<1>2. Identified' /\ OneDialog'
  BY DEF TypeOK, Identified, OneDialog
<1>3. AllHome' /\ SavedIsKept' /\ NoneOlder' /\ KeptUnlessLate'
  BY DEF TypeOK, Identified, OneDialog, AllHome, SavedIsKept, NoneOlder, KeptUnlessLate
<1>. QED
  BY <1>1, <1>2, <1>3 DEF EditorInv

\* The dialog is shown again after a failed upload.
LEMMA UploadFailsStep ==
  ASSUME EditorInv, UploadFails
  PROVE  EditorInv'
<1>. USE EditorAssumption
     DEF EditorInv, Blueprints, Targets, Exempt, Kept, StoredOf, Home, Fetching, Saving, Asking, Modal,
         Busy, Unmade, history, Dirty,
         UploadFails
<1>1. TypeOK'
  <2>. DEFINE open == [upload EXCEPT !.pc = "open"]
  <2>1. upload' = [open EXCEPT !.target = None]
    OBVIOUS
  <2>2. open \in Uploads
    BY DEF TypeOK, Uploads
  <2>. HIDE DEF open
  <2>3. upload' \in Uploads
    BY <2>1, <2>2 DEF Uploads
  <2>. QED
    BY <2>3 DEF TypeOK, Uploads
<1>2. Identified' /\ OneDialog'
  BY DEF TypeOK, Identified, OneDialog
<1>3. AllHome' /\ SavedIsKept' /\ NoneOlder' /\ KeptUnlessLate'
  BY DEF TypeOK, Identified, OneDialog, AllHome, SavedIsKept, NoneOlder, KeptUnlessLate
<1>. QED
  BY <1>1, <1>2, <1>3 DEF EditorInv

\* An upload begins with a save.
LEMMA SubmitStep ==
  ASSUME EditorInv, SubmitUpload
  PROVE  EditorInv'
<1>. USE EditorAssumption
     DEF EditorInv, Blueprints, Targets, Exempt, Kept, StoredOf, Home, Fetching, Saving, Asking, Modal,
         Busy, Unmade, history, Dirty,
         SubmitUpload, Begin
<1>1. TypeOK'
  BY DEF TypeOK
<1>2. Identified' /\ OneDialog'
  BY DEF TypeOK, Identified, OneDialog
<1>3. AllHome' /\ SavedIsKept' /\ NoneOlder' /\ KeptUnlessLate'
  BY DEF TypeOK, Identified, OneDialog, AllHome, SavedIsKept, NoneOlder, KeptUnlessLate
<1>. QED
  BY <1>1, <1>2, <1>3 DEF EditorInv

\* The blueprint of an upload counts as saved.
LEMMA UploadedStep ==
  ASSUME EditorInv, Uploaded
  PROVE  EditorInv'
<1>. USE EditorAssumption
     DEF EditorInv, Blueprints, Targets, Exempt, Kept, StoredOf, Home, Fetching, Saving, Asking, Modal,
         Busy, Unmade, history, Dirty,
         Uploaded, NoUpload
<1>1. TypeOK'
  BY DEF TypeOK
<1>2. Identified' /\ OneDialog'
  BY DEF TypeOK, Identified, OneDialog
<1>3. AllHome' /\ SavedIsKept' /\ NoneOlder' /\ KeptUnlessLate'
  BY DEF TypeOK, Identified, OneDialog, AllHome, SavedIsKept, NoneOlder, KeptUnlessLate
<1>. QED
  BY <1>1, <1>2, <1>3 DEF EditorInv

\* A handler ends: the user stays, the save is refused, the load fails.
LEMMA EndSteps ==
  ASSUME EditorInv, NEW c \in Calls, Stay(c) \/ SaveRefused(c) \/ LoadFails(c)
  PROVE  EditorInv'
<1>. USE EditorAssumption
     DEF EditorInv, Blueprints, Targets, Exempt, Kept, StoredOf, Home, Fetching, Saving, Asking, Modal,
         Busy, Unmade, history, Dirty,
         Stay, SaveRefused, LoadFails, NoCall
<1>1. TypeOK'
  BY DEF TypeOK
<1>2. Identified'
  BY DEF TypeOK, Identified
<1>3. OneDialog'
  BY DEF TypeOK, OneDialog
<1>4. AllHome'
  BY DEF TypeOK, Identified, OneDialog, AllHome, SavedIsKept, NoneOlder, KeptUnlessLate
<1>5. SavedIsKept'
  BY DEF TypeOK, Identified, OneDialog, AllHome, SavedIsKept, NoneOlder, KeptUnlessLate
<1>6. NoneOlder'
  BY DEF TypeOK, Identified, OneDialog, AllHome, SavedIsKept, NoneOlder, KeptUnlessLate
<1>7. KeptUnlessLate'
  BY DEF TypeOK, Identified, OneDialog, AllHome, SavedIsKept, NoneOlder, KeptUnlessLate
<1>. QED
  BY <1>1, <1>2, <1>3, <1>4, <1>5, <1>6, <1>7 DEF EditorInv

\* The dashboard reads a blueprint that is loaded.
LEMMA ReadStep ==
  ASSUME EditorInv, NEW c \in Calls, Read(c)
  PROVE  EditorInv'
<1>. USE EditorAssumption
     DEF EditorInv, Blueprints, Targets, Exempt, Kept, StoredOf, Home, Fetching, Saving, Asking, Modal,
         Busy, Unmade, history, Dirty,
         Read
<1>1. TypeOK'
  <2>. DEFINE half == [calls EXCEPT ![c].pc = "got"]
  <2>1. calls' = [half EXCEPT ![c].content = server[calls[c].target]]
    BY DEF TypeOK
  <2>2. half \in [Calls -> EditCalls]
    BY DEF TypeOK, EditCalls
  <2>3. server[calls[c].target] \in SUBSET Edits
    BY DEF TypeOK, Identified
  <2>. HIDE DEF half
  <2>4. half[c] \in EditCalls /\ calls'[c] = [half[c] EXCEPT !.content = server[calls[c].target]]
    BY <2>1, <2>2
  <2>5. calls'[c] \in EditCalls
    BY <2>3, <2>4 DEF EditCalls
  <2>6. calls' \in [Calls -> EditCalls]
    BY <2>1, <2>2, <2>5
  <2>. QED
    BY <2>6 DEF TypeOK, EditCalls
<1>2. Identified' /\ OneDialog'
  BY DEF TypeOK, Identified, OneDialog
<1>3. AllHome' /\ SavedIsKept' /\ NoneOlder' /\ KeptUnlessLate'
  BY DEF TypeOK, Identified, OneDialog, AllHome, SavedIsKept, NoneOlder, KeptUnlessLate
<1>. QED
  BY <1>1, <1>2, <1>3 DEF EditorInv

\* It is shown in the place of the one before.
LEMMA ShowStep ==
  ASSUME EditorInv, NEW c \in Calls, Show(c)
  PROVE  EditorInv'
<1>. USE EditorAssumption
     DEF EditorInv, Blueprints, Targets, Exempt, Kept, StoredOf, Home, Fetching, Saving, Asking, Modal,
         Busy, Unmade, history, Dirty,
         Show, NoCall
<1>1. TypeOK'
  <2>1. ed' \in Editors
    BY DEF TypeOK, Identified, Editors
  <2>2. calls' \in [Calls -> EditCalls]
    BY DEF TypeOK, EditCalls
  <2>. QED
    BY <2>1, <2>2 DEF TypeOK, Editors, EditCalls
<1>2. Identified' /\ OneDialog'
  BY DEF TypeOK, Identified, OneDialog
<1>3. AllHome' /\ SavedIsKept' /\ NoneOlder' /\ KeptUnlessLate'
  BY DEF TypeOK, Identified, OneDialog, AllHome, SavedIsKept, NoneOlder, KeptUnlessLate
<1>. QED
  BY <1>1, <1>2, <1>3 DEF EditorInv

\* The save button
LEMMA SaveButtonStep ==
  ASSUME EditorInv, SaveButton
  PROVE  EditorInv'
<1>. USE EditorAssumption
     DEF EditorInv, Blueprints, Targets, Exempt, Kept, StoredOf, Home, Fetching, Saving, Asking, Modal,
         Busy, Unmade, history, Dirty,
         SaveButton, Begin
<1>1. TypeOK'
  BY DEF TypeOK
<1>2. Identified' /\ OneDialog'
  BY DEF TypeOK, Identified, OneDialog
<1>3. AllHome' /\ SavedIsKept' /\ NoneOlder' /\ KeptUnlessLate'
  BY DEF TypeOK, Identified, OneDialog, AllHome, SavedIsKept, NoneOlder, KeptUnlessLate
<1>. QED
  BY <1>1, <1>2, <1>3 DEF EditorInv

\* The guard's question is answered with a save.
LEMMA SaveFirstStep ==
  ASSUME EditorInv, NEW c \in Calls, SaveFirst(c)
  PROVE  EditorInv'
<1>. USE EditorAssumption
     DEF EditorInv, Blueprints, Targets, Exempt, Kept, StoredOf, Home, Fetching, Saving, Asking, Modal,
         Busy, Unmade, history, Dirty,
         SaveFirst, Begin
<1>1. TypeOK'
  BY DEF TypeOK
<1>2. Identified' /\ OneDialog'
  BY DEF TypeOK, Identified, OneDialog
<1>3. AllHome' /\ SavedIsKept' /\ NoneOlder' /\ KeptUnlessLate'
  BY DEF TypeOK, Identified, OneDialog, AllHome, SavedIsKept, NoneOlder, KeptUnlessLate
<1>. QED
  BY <1>1, <1>2, <1>3 DEF EditorInv

\* The dashboard stores what is saved.
LEMMA StoreStep ==
  ASSUME EditorInv, Store
  PROVE  EditorInv'
<1>. USE EditorAssumption
     DEF EditorInv, Blueprints, Targets, Exempt, Kept, StoredOf, Home, Fetching, Saving, Asking, Modal,
         Busy, Unmade, history, Dirty,
         Store, StoredAs
<1>1. TypeOK'
  <2>. DEFINE half == [save EXCEPT !.pc = "answered"]
  <2>1. PICK b \in StoredAs : /\ known' = known \cup {b}
                             /\ server' = [server EXCEPT ![b] = save.content]
                             /\ save' = [save EXCEPT !.pc = "answered", !.id = b]
    OBVIOUS
  <2>5. b \in Blueprints
    BY DEF TypeOK, Identified
  <2>6. save' = [half EXCEPT !.id = b]
    BY <2>1
  <2>2. half \in Saves
    BY DEF TypeOK, Saves
  <2>. HIDE DEF half
  <2>3. save' \in Saves
    BY <2>2, <2>5, <2>6 DEF Saves
  <2>4. known' \subseteq Blueprints /\ server' \in [Blueprints -> SUBSET Edits]
    BY <2>1, <2>5 DEF TypeOK
  <2>. QED
    BY <2>3, <2>4 DEF TypeOK, Saves
<1>2. Identified' /\ OneDialog'
  BY DEF TypeOK, Identified, OneDialog
<1>3. AllHome' /\ SavedIsKept' /\ NoneOlder' /\ KeptUnlessLate'
  BY DEF TypeOK, Identified, OneDialog, AllHome, SavedIsKept, NoneOlder, KeptUnlessLate
<1>. QED
  BY <1>1, <1>2, <1>3 DEF EditorInv

\* The answer replaces the editor's blueprint.
LEMMA AnswerStep ==
  ASSUME EditorInv, Answer
  PROVE  EditorInv'
<1>. USE EditorAssumption
     DEF EditorInv, Blueprints, Targets, Exempt, Kept, StoredOf, Home, Fetching, Saving, Asking, Modal,
         Busy, Unmade, history, Dirty,
         Answer, Answered
<1>1. TypeOK'
  BY DEF TypeOK
<1>2. Identified' /\ OneDialog'
  BY DEF TypeOK, Identified, OneDialog
<1>3. AllHome' /\ SavedIsKept' /\ NoneOlder' /\ KeptUnlessLate'
  BY DEF TypeOK, Identified, OneDialog, AllHome, SavedIsKept, NoneOlder, KeptUnlessLate
<1>. QED
  BY <1>1, <1>2, <1>3 DEF EditorInv

\* A save fails.
LEMMA SaveFailsStep ==
  ASSUME EditorInv, SaveFails
  PROVE  EditorInv'
<1>. USE EditorAssumption
     DEF EditorInv, Blueprints, Targets, Exempt, Kept, StoredOf, Home, Fetching, Saving, Asking, Modal,
         Busy, Unmade, history, Dirty,
         SaveFails, Release, NoSave, NoCall
<1>1. TypeOK'
  BY DEF TypeOK
<1>2. Identified' /\ OneDialog'
  BY DEF TypeOK, Identified, OneDialog
<1>3. AllHome' /\ SavedIsKept' /\ NoneOlder' /\ KeptUnlessLate'
  BY DEF TypeOK, Identified, OneDialog, AllHome, SavedIsKept, NoneOlder, KeptUnlessLate
<1>. QED
  BY <1>1, <1>2, <1>3 DEF EditorInv

\* A guarded handler goes on: it leaves the workspace as it is, or empties it, and
\* ends or fetches a blueprint.
GoesOn(c) ==
  /\ ed' \in Editors /\ calls' \in [Calls -> EditCalls]
  /\ \A d \in Calls \ {c} : calls'[d] = calls[d]
  /\ calls'[c].pc = "idle" \/ (calls'[c].pc = "fetching" /\ calls'[c].target \in Stored)
  /\ \/ ed'.id = ed.id /\ ed'.content = ed.content /\ ed'.saved = ed.saved
     \/ ed'.id = None /\ ed'.content = {} /\ ed'.saved = {}

\* What the guarded call does when it goes on
LEMMA Proceeding ==
  ASSUME TypeOK, NEW c \in Calls, NEW t \in Targets, NEW e \in {ed, Empty}, Proceed(c, t, e)
  PROVE  GoesOn(c)
<1>0. e \in Editors /\ (e = ed \/ (e.id = None /\ e.content = {} /\ e.saved = {}))
  <2>0. ed \in Editors
    BY DEF TypeOK, Editors
  <2>1. CASE e = ed
    BY <2>0, <2>1
  <2>2. CASE e = Empty
    BY <2>2 DEF Editors, Empty
  <2>. QED
    BY <2>1, <2>2
<1>. USE DEF TypeOK, Editors, EditCalls, Targets, NoCall, Empty, GoesOn
<1>. DEFINE half == [NoCall EXCEPT !.pc = "fetching"]
           gone == [half EXCEPT !.target = t]
<1>1. CASE t \in Stored
  <2>1. half \in EditCalls /\ half.pc = "fetching"
    BY <1>1
  <2>2. gone \in EditCalls /\ gone.pc = "fetching" /\ gone.target = t
    <3>. HIDE DEF half
    <3>. QED
      BY <2>1
  <2>3. calls' = [calls EXCEPT ![c] = gone] /\ ed' = e
    BY <1>1 DEF Proceed
  <2>. HIDE DEF gone
  <2>. QED
    BY <1>0, <1>1, <2>2, <2>3
<1>2. CASE t \notin Stored
  <2>1. calls' = [calls EXCEPT ![c] = NoCall]
    BY <1>2 DEF Proceed
  <2>2. CASE ed' = [Empty EXCEPT !.visible = TRUE]
    BY <2>1, <2>2
  <2>3. CASE ed' = [e EXCEPT !.visible = FALSE]
    BY <1>0, <2>1, <2>3
  <2>. QED
    BY <1>2, <2>2, <2>3 DEF Proceed
<1>. QED
  BY <1>1, <1>2

\* It may do so when everything in the workspace is kept or given up.
LEMMA GoingOn ==
  ASSUME EditorInv, NEW c \in Calls, GoesOn(c),
         discarded \subseteq discarded', discarded' \subseteq Edits,
         ed.content \subseteq Kept(ed.id) \cup discarded',
         (save' = save /\ ~ Saving) \/ (save' = NoSave /\ save.by \in Calls),
         UNCHANGED <<known, server, form, upload, made, late>>
  PROVE  EditorInv'
<1>. USE EditorAssumption
     DEF EditorInv, Blueprints, Targets, Exempt, Kept, StoredOf, Home, Fetching, Saving,
           Asking, Modal, Busy, Unmade, history, Dirty,
         GoesOn, NoSave
<1>0. save' \in Saves /\ ~ Saving'
  BY DEF TypeOK, Saves
<1>9. upload.pc # "saving"
  BY DEF OneDialog
<1>1. TypeOK'
  BY <1>0 DEF TypeOK, Editors, EditCalls, Saves
<1>2. Identified'
  BY DEF TypeOK, Identified
<1>3. OneDialog'
  BY <1>0, <1>9 DEF TypeOK, OneDialog
<1>4. AllHome'
  BY DEF TypeOK, Identified, OneDialog, AllHome, SavedIsKept, NoneOlder, KeptUnlessLate
<1>5. SavedIsKept'
  BY DEF TypeOK, Identified, OneDialog, AllHome, SavedIsKept, NoneOlder, KeptUnlessLate
<1>6. NoneOlder'
  BY DEF TypeOK, Identified, OneDialog, AllHome, SavedIsKept, NoneOlder, KeptUnlessLate
<1>7. KeptUnlessLate'
  BY DEF TypeOK, Identified, OneDialog, AllHome, SavedIsKept, NoneOlder, KeptUnlessLate
<1>. QED
  BY <1>1, <1>2, <1>3, <1>4, <1>5, <1>6, <1>7 DEF EditorInv

\* A call that would leave the editor goes on, or asks first.
LEMMA LeaveStep ==
  ASSUME EditorInv, NEW c \in Calls, NEW t \in Targets, Leave(c, t)
  PROVE  EditorInv'
<1>1. CASE ~ Dirty /\ Proceed(c, t, ed)
  <2>1. ed.content \subseteq Kept(ed.id)
    BY <1>1 DEF Dirty, EditorInv, SavedIsKept
  <2>2. GoesOn(c)
    BY <1>1, Proceeding DEF EditorInv
  <2>3. ~ Saving /\ UNCHANGED <<known, server, save, form, upload, history>>
    BY DEF Leave, Guarded
  <2>4. discarded' \subseteq Edits
    BY <2>3 DEF EditorInv, TypeOK, history
  <2>. QED
    BY <2>1, <2>2, <2>3, <2>4, GoingOn DEF history
<1>2. CASE Dirty /\ ~ Asking /\ UNCHANGED ed
           /\ calls' = [calls EXCEPT ![c] = [NoCall EXCEPT !.pc = "asking", !.target = t]]
  <2>. DEFINE half == [NoCall EXCEPT !.pc = "asking"]
             asks == [half EXCEPT !.target = t]
  <2>1. half \in EditCalls /\ half.pc = "asking"
    BY <1>2 DEF EditCalls, NoCall, Targets
  <2>2. asks \in EditCalls /\ asks.pc = "asking"
    <3>. HIDE DEF half
    <3>. QED
      BY <2>1 DEF EditCalls
  <2>3. calls' = [calls EXCEPT ![c] = asks] /\ ~ Saving /\ calls[c].pc = "idle"
        /\ UNCHANGED <<known, server, ed, save, form, upload, history>>
    BY <1>2 DEF Leave, Guarded
  <2>. HIDE DEF asks
  <2>. USE DEF EditorInv, Blueprints, Targets, Exempt, Kept, StoredOf, Home, Fetching, Saving,
           Asking, Modal, Busy, Unmade, history, Dirty
  <2>4. TypeOK'
    <3>1. calls' \in [Calls -> EditCalls]
      BY <2>2, <2>3 DEF TypeOK, EditCalls
    <3>. QED
      BY <2>3, <3>1 DEF TypeOK, EditCalls
  <2>5. Identified' /\ OneDialog' /\ AllHome'
    BY <1>2, <2>2, <2>3 DEF TypeOK, Identified, OneDialog, AllHome
  <2>6. SavedIsKept' /\ NoneOlder' /\ KeptUnlessLate'
    BY <2>2, <2>3 DEF TypeOK, SavedIsKept, NoneOlder, KeptUnlessLate
  <2>. QED
    BY <2>4, <2>5, <2>6
<1>. QED
  BY <1>1, <1>2 DEF Leave, Guarded

\* The user discards the edits: they are given up, and the call goes on.
LEMMA DiscardStep ==
  ASSUME EditorInv, NEW c \in Calls, Discard(c)
  PROVE  EditorInv'
<1>1. GoesOn(c)
  BY Proceeding DEF Discard, EditorInv, TypeOK
<1>2. ed.content \subseteq Kept(ed.id) \cup discarded'
  BY DEF Discard, EditorInv, SavedIsKept
<1>3. discarded \subseteq discarded' /\ discarded' \subseteq Edits
  BY DEF Discard, EditorInv, TypeOK
<1>4. save' = save /\ ~ Saving /\ UNCHANGED <<known, server, form, upload, made, late>>
  BY DEF Discard, EditorInv, OneDialog
<1>. QED
  BY <1>1, <1>2, <1>3, <1>4, GoingOn

\* The list is read again after a save; what waited for it goes on.
LEMMA SavedStep ==
  ASSUME EditorInv, Saved
  PROVE  EditorInv'
<1>0. save' = NoSave /\ save.pc = "refreshing" /\ UNCHANGED <<known, server, form, history>>
  BY DEF Saved
<1>1. CASE save.by \in Calls /\ Proceed(save.by, calls[save.by].target, ed) /\ UNCHANGED upload
  <2>1. GoesOn(save.by)
    BY <1>1, Proceeding DEF EditorInv, TypeOK
  <2>2. ed.content \subseteq Kept(ed.id) /\ discarded' \subseteq Edits
    BY <1>0 DEF EditorInv, SavedIsKept, TypeOK, history
  <2>. QED
    BY <1>0, <1>1, <2>1, <2>2, GoingOn DEF history
<1>2. CASE save.by = "button" /\ UNCHANGED <<ed, calls, upload>>
  <2>. USE <1>0, <1>2 DEF EditorInv, Blueprints, Targets, Exempt, Kept, StoredOf, Home, Fetching, Saving,
           Asking, Modal, Busy, Unmade, history, Dirty, NoSave
  <2>1. TypeOK'
    BY DEF TypeOK
  <2>2. Identified' /\ OneDialog'
    BY DEF TypeOK, Identified, OneDialog
  <2>3. AllHome' /\ SavedIsKept' /\ NoneOlder' /\ KeptUnlessLate'
    BY DEF TypeOK, Identified, OneDialog, AllHome, SavedIsKept, NoneOlder, KeptUnlessLate
  <2>. QED
    BY <2>1, <2>2, <2>3 DEF EditorInv
<1>3. CASE /\ save.by = "upload"
           /\ upload' = IF upload.pc # "saving" THEN upload
                        ELSE [upload EXCEPT !.pc = "sending", !.target = ed.id]
           /\ UNCHANGED <<ed, calls>>
  <2>. USE <1>0, <1>3 DEF EditorInv, Blueprints, Targets, Exempt, Kept, StoredOf, Home, Fetching, Saving,
           Asking, Modal, Busy, Unmade, history, Dirty, NoSave
  <2>1. TypeOK'
    BY DEF TypeOK
  <2>2. Identified' /\ OneDialog'
    BY DEF TypeOK, Identified, OneDialog
  <2>3. AllHome' /\ SavedIsKept' /\ NoneOlder' /\ KeptUnlessLate'
    BY DEF TypeOK, Identified, OneDialog, AllHome, SavedIsKept, NoneOlder, KeptUnlessLate
  <2>. QED
    BY <2>1, <2>2, <2>3 DEF EditorInv
<1>. QED
  BY <1>1, <1>2, <1>3 DEF Saved

\* Every step of the editor
LEMMA EditorStep ==
  ASSUME EditorInv, [Next]_vars
  PROVE  EditorInv'
<1>1. CASE UNCHANGED vars
  <2>. USE <1>1 DEF vars, EditorInv, Blueprints, Targets, Exempt, Kept, StoredOf, Home, Fetching, Saving,
           Asking, Modal, Busy, Unmade, history, Dirty
  <2>1. TypeOK'
    BY DEF TypeOK
  <2>2. Identified' /\ OneDialog'
    BY DEF TypeOK, Identified, OneDialog
  <2>3. AllHome' /\ SavedIsKept' /\ NoneOlder' /\ KeptUnlessLate'
    BY DEF TypeOK, Identified, OneDialog, AllHome, SavedIsKept, NoneOlder, KeptUnlessLate
  <2>. QED
    BY <2>1, <2>2, <2>3 DEF EditorInv
<1>2. CASE Next
  BY <1>2, EditSteps, FormSteps, LeaveStep, EndSteps, DiscardStep, ReadStep, ShowStep, SaveButtonStep,
     SaveFirstStep, StoreStep, AnswerStep, SaveFailsStep, SavedStep, OpenStep, SubmitStep, UploadedStep,
     UploadFailsStep, CloseStep DEF Next
<1>. QED
  BY <1>1, <1>2

---------------------------------------------------------------------------
(* Actions on VMs, for any VMs, actions, powers, lanes and number of tasks: *)
(* Buttons and Bulk are two cases of it                                     *)

Act(V, A, P, L, T) == INSTANCE VmActions WITH
  VMs <- V, Actions <- A, Powers <- P, Lanes <- L, MaxTasks <- T, faults <- lost

Snapshots == {"create", "restore", "delete"}
Underway == {"post", "checked", "read", "poll"}
Calling(V) == Browsers \X V \X {"bulk", "snapshot", "guest"}
Idle == [pc |-> "idle", act |-> "none", task |-> 0]
Nothing == [vm |-> "none", act |-> "none", state |-> "none"]

VmSet == [power : {"absent", "stopped", "running"}, snap : BOOLEAN, locked : BOOLEAN]
TaskSet(V, A) == [vm : V, act : A, state : {"running", "ok", "failed", "lost"}]
BulkRecords(V, A) == [running : BOOLEAN, act : A \cup {"none"},
                result : [V -> {"none", "waiting", "running", "done"}]]
BulkSet(V, A) == {r \in BulkRecords(V, A) : r.running => r.act \in A}
CallRecords(A, T) == [pc : {"idle", "confirm", "post", "checked", "read", "poll", "success"},
               act : A \cup {"none"}, task : (1 .. T) \cup {0}]
CallSet(A, T) == {r \in CallRecords(A, T) : r.pc # "idle" => r.act \in A}

ActTypes(V, A, T) ==
  /\ busy \in BOOLEAN /\ lost \in Nat
  /\ vm \in [V -> VmSet]
  /\ task \in [1 .. T -> {Nothing} \cup TaskSet(V, A)]
  /\ seen \in [Browsers -> [busy : BOOLEAN, vm : [V -> VmSet]]]
  /\ bulk \in [Browsers -> BulkSet(V, A)]
  /\ call \in [Calling(V) -> CallSet(A, T)]

\* A VM is locked by one snapshot task, and by nothing else.
Locks(i, v) == task[i].vm = v /\ task[i].act \in Snapshots /\ task[i].state = "running"
LocksShown(V, T) ==
  /\ \A v \in V : vm[v].locked <=> \E i \in 1 .. T : Locks(i, v)
  /\ \A i, j \in 1 .. T, v \in V : Locks(i, v) /\ Locks(j, v) => i = j

\* A request polls a task of its own VM and action, and has reported what became
\* of it.
Own(r, v, T) ==
  /\ r.pc \in {"poll", "success"} =>
       /\ r.task \in 1 .. T /\ task[r.task].state # "none"
       /\ task[r.task].vm = v /\ task[r.task].act = r.act
  /\ r.pc = "success" => task[r.task].state = "ok"
OwnTasks(V, T) == \A c \in Calling(V) : Own(call[c], c[2], T)

\* The requests of a bulk action are the ones it waits for, it runs while there
\* are any, and meanwhile no snapshot request is sent for a VM still to come.
BulkLists(V) ==
  \A b \in Browsers, v \in V :
    /\ call[<<b, v, "bulk">>].pc \in Underway <=> bulk[b].result[v] = "running"
    /\ bulk[b].result[v] \in {"waiting", "running"} =>
         bulk[b].running /\ call[<<b, v, "snapshot">>].pc \notin Underway

ActInv(V, A, T) ==
  ActTypes(V, A, T) /\ LocksShown(V, T) /\ OwnTasks(V, T) /\ BulkLists(V)

\* What a request is named by
LEMMA Triples ==
  ASSUME NEW V
  PROVE  /\ \A c \in Calling(V) : /\ c[1] \in Browsers /\ c[2] \in V
                                  /\ c[3] \in {"bulk", "snapshot", "guest"}
                                  /\ c = <<c[1], c[2], c[3]>>
         /\ \A b \in Browsers, v \in V, k \in {"bulk", "snapshot", "guest"} : <<b, v, k>> \in Calling(V)
BY DEF Calling

\* Nothing is under way at first.
LEMMA ActInit ==
  ASSUME NEW V, NEW A, NEW P, NEW L, NEW T, Act(V, A, P, L, T)!Init
  PROVE  ActInv(V, A, T)
<1>. USE DEF Act!Init, Act!NoTask, Act!Rest, Act!NoBulk, Act!Ids, Act!CallIds, Act!Kinds, Calling
<1>1. ActTypes(V, A, T)
  BY DEF ActTypes, VmSet, TaskSet, BulkSet, BulkRecords, CallSet, CallRecords, Nothing
<1>2. LocksShown(V, T) /\ OwnTasks(V, T) /\ BulkLists(V)
  BY DEF LocksShown, Locks, OwnTasks, Own, BulkLists, Underway
<1>. QED
  BY <1>1, <1>2 DEF ActInv

\* What the invariant shows
LEMMA ActShows ==
  ASSUME NEW V, NEW A, NEW P, NEW L, NEW T, ActInv(V, A, T)
  PROVE  /\ Act(V, A, P, L, T)!TypeOK /\ Act(V, A, P, L, T)!SuccessIsDone
         /\ Act(V, A, P, L, T)!SnapshotMeetsNoBulk /\ Act(V, A, P, L, T)!BulkIsComplete
<1>. USE DEF ActInv, Act!Ids, Act!CallIds, Act!Kinds
<1>1. Act(V, A, P, L, T)!TypeOK
  <2>1. \A v \in V : vm[v].locked \in BOOLEAN
    BY DEF ActTypes, VmSet
  <2>2. \A v \in V : vm[v].locked = (\E i \in 1 .. T :
          task[i].vm = v /\ task[i].act \in Snapshots /\ task[i].state = "running")
    BY <2>1 DEF LocksShown, Locks
  <2>. QED
    BY <2>2 DEF ActTypes, Act!TypeOK, Act!Vm, Act!NoTask, Act!Call, Act!Result, Act!Snapshot,
       VmSet, TaskSet, BulkSet, BulkRecords, CallSet, CallRecords, Nothing, Calling, Snapshots
<1>2. Act(V, A, P, L, T)!SuccessIsDone
  <2>1. SUFFICES ASSUME NEW c \in Calling(V), call[c].pc = "success"
                 PROVE  /\ call[c].task # 0
                        /\ task[call[c].task] = [vm |-> c[2], act |-> call[c].act, state |-> "ok"]
    BY DEF Act!SuccessIsDone, Calling
  <2>2. /\ call[c].task \in 1 .. T /\ task[call[c].task].vm = c[2]
        /\ task[call[c].task].act = call[c].act /\ task[call[c].task].state = "ok"
    BY <2>1 DEF OwnTasks, Own
  <2>3. task[call[c].task] \in TaskSet(V, A)
    BY <2>2 DEF ActTypes, Nothing
  <2>. QED
    BY <2>2, <2>3 DEF TaskSet
<1>3. Act(V, A, P, L, T)!SnapshotMeetsNoBulk /\ Act(V, A, P, L, T)!BulkIsComplete
  BY DEF Act!SnapshotMeetsNoBulk, Act!BulkIsComplete, Act!UnderWay, Act!Operating, BulkLists, Underway
<1>. QED
  BY <1>1, <1>2, <1>3

---------------------------------------------------------------------------
(* Steps that leave the requests or the tasks alone *)

\* Steps that only the lab or what a browser shows takes part in
LEMMA ActStays ==
  ASSUME NEW V, NEW A, NEW T, ActInv(V, A, T), UNCHANGED <<vm, task, bulk, call>>,
         busy' \in BOOLEAN, lost' \in Nat,
         seen' \in [Browsers -> [busy : BOOLEAN, vm : [V -> VmSet]]]
  PROVE  ActInv(V, A, T)'
BY DEF ActInv, ActTypes, LocksShown, Locks, OwnTasks, Own, BulkLists

\* One request moves on.
LEMMA CallMoves ==
  ASSUME NEW V, NEW A, NEW T, ActInv(V, A, T), UNCHANGED <<busy, vm, task, seen>>, lost' = lost,
         NEW c \in Calling(V), NEW r \in CallSet(A, T), Own(r, c[2], T),
         call' = [call EXCEPT ![c] = r], bulk' \in [Browsers -> BulkSet(V, A)],
         BulkLists(V)'
  PROVE  ActInv(V, A, T)'
<1>1. ActTypes(V, A, T)'
  BY DEF ActInv, ActTypes
<1>2. LocksShown(V, T)'
  BY DEF ActInv, LocksShown, Locks
<1>3. OwnTasks(V, T)'
  BY DEF ActInv, ActTypes, OwnTasks, Own
<1>. QED
  BY <1>1, <1>2, <1>3 DEF ActInv

\* ... without a change of what is under way
LEMMA ListsStay ==
  ASSUME NEW V, NEW A, NEW T, ActInv(V, A, T), bulk' = bulk, NEW c \in Calling(V), NEW r,
         call' = [call EXCEPT ![c] = r], r.pc \in Underway <=> call[c].pc \in Underway
  PROVE  BulkLists(V)'
<1>1. \A d \in Calling(V) : call'[d].pc \in Underway <=> call[d].pc \in Underway
  BY DEF ActInv, ActTypes
<1>2. \A b \in Browsers, v \in V : <<b, v, "bulk">> \in Calling(V) /\ <<b, v, "snapshot">> \in Calling(V)
  BY Triples
<1>. QED
  BY <1>1, <1>2 DEF ActInv, BulkLists

\* A request that is under way ends.
LEMMA CallEnds ==
  ASSUME NEW V, NEW A, NEW P, NEW L, NEW T, ActInv(V, A, T), NEW c \in Calling(V),
         call[c].pc \in Underway, NEW end \in {"error", "success"}, Act(V, A, P, L, T)!End(c, end)
  PROVE  /\ bulk' \in [Browsers -> BulkSet(V, A)] /\ BulkLists(V)'
         /\ \E r \in CallSet(A, T) :
              /\ call' = [call EXCEPT ![c] = r]
              /\ r = Idle \/ (end = "success" /\ r.pc = "success" /\ r.act = call[c].act /\ r.task = call[c].task)
<1>. USE DEF ActInv
<1>. DEFINE r == IF end = "success" THEN [call[c] EXCEPT !.pc = "success"] ELSE Idle
<1>1. call' = [call EXCEPT ![c] = r]
  BY DEF Act!End, Act!Rest, Idle
<1>2. r \in CallSet(A, T)
  <2>1. call[c] \in CallRecords(A, T) /\ call[c].act \in A
    BY DEF ActTypes, CallSet, Underway
  <2>2. r \in CallRecords(A, T) /\ (r.pc # "idle" => r.act \in A)
    BY <2>1 DEF CallRecords, Idle
  <2>. QED
    BY <2>2 DEF CallSet
<1>3. /\ r.pc \notin Underway
      /\ r = Idle \/ (end = "success" /\ r.pc = "success" /\ r.act = call[c].act /\ r.task = call[c].task)
  BY DEF ActTypes, CallSet, CallRecords, Idle, Underway
<1>. HIDE DEF r
<1>4. /\ c[1] \in Browsers /\ c[2] \in V /\ c = <<c[1], c[2], c[3]>>
      /\ \A b \in Browsers, v \in V, k \in {"bulk", "snapshot", "guest"} : <<b, v, k>> \in Calling(V)
  BY Triples
<1>4a. \A d \in Calling(V) : call'[d] = IF d = c THEN r ELSE call[d]
  BY <1>1 DEF ActTypes
<1>4b. \A b \in Browsers, v \in V : c[3] = "bulk" =>
         /\ <<b, v, "snapshot">> # c /\ (<<b, v, "bulk">> = c <=> b = c[1] /\ v = c[2])
  BY <1>4
<1>4c. \A b \in Browsers, v \in V : c[3] # "bulk" => <<b, v, "bulk">> # c
  BY <1>4
<1>5. CASE c[3] = "bulk"
  <2>1. bulk' = [bulk EXCEPT ![c[1]].result[c[2]] = "done"]
    BY <1>5 DEF Act!End
  <2>2. bulk' \in [Browsers -> BulkSet(V, A)]
    <3>1. bulk \in [Browsers -> BulkRecords(V, A)] /\ \A b \in Browsers : bulk[b].running => bulk[b].act \in A
      BY DEF ActTypes, BulkSet
    <3>2. /\ bulk' \in [Browsers -> BulkRecords(V, A)]
          /\ \A b \in Browsers : bulk'[b].running = bulk[b].running /\ bulk'[b].act = bulk[b].act
      BY <1>4, <2>1, <3>1 DEF BulkRecords
    <3>. QED
      BY <3>1, <3>2 DEF BulkSet
  <2>3. \A b \in Browsers, v \in V :
          /\ bulk'[b].running = bulk[b].running
          /\ bulk'[b].result[v] = IF b = c[1] /\ v = c[2] THEN "done" ELSE bulk[b].result[v]
    BY <1>4, <2>1 DEF ActTypes, BulkSet, BulkRecords
  <2>5. BulkLists(V)'
    <3>. SUFFICES ASSUME NEW b \in Browsers, NEW v \in V
                  PROVE  /\ call'[<<b, v, "bulk">>].pc \in Underway <=> bulk'[b].result[v] = "running"
                         /\ bulk'[b].result[v] \in {"waiting", "running"} =>
                              bulk'[b].running /\ call'[<<b, v, "snapshot">>].pc \notin Underway
      BY DEF BulkLists
    <3>1. call'[<<b, v, "snapshot">>] = call[<<b, v, "snapshot">>]
      BY <1>4, <1>4a, <1>4b, <1>5
    <3>2. CASE b = c[1] /\ v = c[2]
      BY <1>3, <1>4, <1>4a, <1>4b, <1>5, <2>3, <3>2
    <3>3. CASE ~ (b = c[1] /\ v = c[2])
      <4>1. call'[<<b, v, "bulk">>] = call[<<b, v, "bulk">>] /\ bulk'[b].result[v] = bulk[b].result[v]
        BY <1>4, <1>4a, <1>4b, <1>5, <2>3, <3>3
      <4>. QED
        BY <2>3, <3>1, <4>1 DEF BulkLists
    <3>. QED
      BY <3>2, <3>3
  <2>. QED
    BY <1>1, <1>2, <1>3, <2>2, <2>5
<1>6. CASE c[3] # "bulk"
  <2>1. bulk' = bulk
    BY <1>6 DEF Act!End
  <2>2. \A b \in Browsers, v \in V :
          /\ call'[<<b, v, "bulk">>] = call[<<b, v, "bulk">>]
          /\ call'[<<b, v, "snapshot">>] = call[<<b, v, "snapshot">>] \/ call'[<<b, v, "snapshot">>].pc \notin Underway
    BY <1>3, <1>4, <1>4a, <1>4c, <1>6
  <2>3. BulkLists(V)'
    BY <2>1, <2>2 DEF BulkLists
  <2>. QED
    BY <1>1, <1>2, <1>3, <2>1, <2>3 DEF ActTypes
<1>. QED
  BY <1>5, <1>6

---------------------------------------------------------------------------
(* Each step of the actions on VMs *)

\* A request fails, without a step of its own in Proxmox.
LEMMA CallFails ==
  ASSUME NEW V, NEW A, NEW P, NEW L, NEW T, ActInv(V, A, T), NEW c \in Calling(V),
         call[c].pc \in Underway, Act(V, A, P, L, T)!End(c, "error"),
         UNCHANGED <<busy, vm, task, seen, lost>>
  PROVE  ActInv(V, A, T)'
<1>1. /\ bulk' \in [Browsers -> BulkSet(V, A)] /\ BulkLists(V)'
      /\ Idle \in CallSet(A, T) /\ call' = [call EXCEPT ![c] = Idle]
  BY CallEnds, "error" # "success"
<1>2. Own(Idle, c[2], T)
  BY DEF Own, Idle
<1>. QED
  BY <1>1, <1>2, CallMoves

\* The checks of the dashboard
LEMMA CheckSteps ==
  ASSUME NEW V, NEW A, NEW P, NEW L, NEW T, ActInv(V, A, T), NEW c \in Calling(V),
         Act(V, A, P, L, T)!CheckStatus(c) \/ Act(V, A, P, L, T)!CheckVm(c)
  PROVE  ActInv(V, A, T)'
<1>1. /\ call[c].pc \in {"post", "checked"} /\ UNCHANGED <<busy, vm, task, seen, lost>>
      /\ \/ Act(V, A, P, L, T)!End(c, "error")
         \/ \E pc \in {"checked", "read"} : Act(V, A, P, L, T)!Goto(c, pc)
  BY DEF Act!CheckStatus, Act!CheckVm
<1>2. ASSUME NEW pc \in {"checked", "read"}, Act(V, A, P, L, T)!Goto(c, pc)
      PROVE  ActInv(V, A, T)'
  <2>. DEFINE r == [call[c] EXCEPT !.pc = pc]
  <2>1. call[c] \in CallSet(A, T) /\ call \in [Calling(V) -> CallSet(A, T)] /\ bulk \in [Browsers -> BulkSet(V, A)]
    BY DEF ActInv, ActTypes
  <2>2. r \in CallSet(A, T) /\ r.pc = pc
    <3>1. call[c] \in CallRecords(A, T) /\ call[c].act \in A
      BY <1>1, <2>1 DEF CallSet
    <3>2. r \in CallRecords(A, T) /\ r.pc = pc /\ r.act \in A
      BY <3>1 DEF CallRecords
    <3>. QED
      BY <3>2 DEF CallSet
  <2>3. call' = [call EXCEPT ![c] = r] /\ bulk' = bulk
    BY <1>2, <2>1 DEF Act!Goto
  <2>. HIDE DEF r
  <2>4. Own(r, c[2], T)
    BY <2>2 DEF Own
  <2>5. BulkLists(V)'
    BY <1>1, <2>2, <2>3, ListsStay DEF Underway
  <2>. QED
    BY <1>1, <2>1, <2>2, <2>3, <2>4, <2>5, CallMoves
<1>. QED
  BY <1>1, <1>2, CallFails DEF Underway

\* The end of a poll
LEMMA PollSteps ==
  ASSUME NEW V, NEW A, NEW P, NEW L, NEW T, ActInv(V, A, T), NEW c \in Calling(V),
         Act(V, A, P, L, T)!Poll(c) \/ Act(V, A, P, L, T)!GiveUp(c)
  PROVE  ActInv(V, A, T)'
<1>1. /\ call[c].pc = "poll" /\ UNCHANGED <<busy, vm, task, seen, lost>>
      /\ \/ Act(V, A, P, L, T)!End(c, "error")
         \/ Act(V, A, P, L, T)!End(c, "success") /\ task[call[c].task].state = "ok"
  BY DEF Act!Poll, Act!GiveUp, Act!Verdict
<1>2. CASE Act(V, A, P, L, T)!End(c, "success") /\ task[call[c].task].state = "ok"
  <2>1. PICK r \in CallSet(A, T) :
          /\ call' = [call EXCEPT ![c] = r]
          /\ r = Idle \/ (r.pc = "success" /\ r.act = call[c].act /\ r.task = call[c].task)
    BY <1>1, <1>2, CallEnds DEF Underway
  <2>2. bulk' \in [Browsers -> BulkSet(V, A)] /\ BulkLists(V)'
    BY <1>1, <1>2, CallEnds DEF Underway
  <2>3. Own(r, c[2], T)
    BY <1>1, <1>2, <2>1 DEF ActInv, OwnTasks, Own, Idle
  <2>. QED
    BY <1>1, <2>1, <2>2, <2>3, CallMoves
<1>. QED
  BY <1>1, <1>2, CallFails DEF Underway

\* The buttons of one VM, and the answer to their question: a snapshot request is
\* sent only when no bulk action runs.
LEMMA ButtonSteps ==
  ASSUME NEW V, NEW A, NEW P, NEW L, NEW T, ActInv(V, A, T), NEW b \in Browsers, NEW v \in V,
         Act(V, A, P, L, T)!StartSingle(b, v) \/ Act(V, A, P, L, T)!Confirm(b, v)
  PROVE  ActInv(V, A, T)'
<1>1. PICK k \in {"snapshot", "guest"}, pc \in {"idle", "confirm", "post"}, a \in A, t \in (1 .. T) \cup {0} :
        /\ call' = [call EXCEPT ![<<b, v, k>>] = [pc |-> pc, act |-> a, task |-> t]]
        /\ pc = "post" => ~ bulk[b].running \/ k = "guest"
        /\ UNCHANGED <<busy, vm, task, seen, bulk, lost>>
  <2>1. CASE Act(V, A, P, L, T)!StartSingle(b, v)
    BY <2>1 DEF Act!StartSingle
  <2>2. CASE Act(V, A, P, L, T)!Confirm(b, v)
    <3>1. <<b, v, "snapshot">> \in Calling(V)
      BY Triples
    <3>2. call[<<b, v, "snapshot">>] \in CallSet(A, T)
      BY <3>1 DEF ActInv, ActTypes
    <3>. DEFINE pc == IF bulk[b].running THEN "idle" ELSE "post"
                r  == [call[<<b, v, "snapshot">>] EXCEPT !.pc = pc]
    <3>3. r = [pc |-> pc, act |-> r.act, task |-> r.task] /\ r.act \in A /\ r.task \in (1 .. T) \cup {0}
      <4>1. call[<<b, v, "snapshot">>] \in CallRecords(A, T) /\ call[<<b, v, "snapshot">>].act \in A
        BY <2>2, <3>2 DEF CallSet, Act!Confirm
      <4>. QED
        BY <4>1 DEF CallRecords
    <3>4. call' = [call EXCEPT ![<<b, v, "snapshot">>] = r] /\ UNCHANGED <<busy, vm, task, seen, bulk, lost>>
      BY <2>2, <3>1 DEF Act!Confirm, ActInv, ActTypes
    <3>. QED
      BY <3>3, <3>4
  <2>. QED
    BY <2>1, <2>2
<1>. DEFINE c == <<b, v, k>>
            r == [pc |-> pc, act |-> a, task |-> t]
<1>2. c \in Calling(V) /\ c[2] = v /\ r \in CallSet(A, T) /\ r.pc = pc
  BY Triples DEF CallSet, CallRecords
<1>3. Own(r, c[2], T)
  BY DEF Own
<1>4. BulkLists(V)'
  <2>. SUFFICES ASSUME NEW x \in Browsers, NEW w \in V
                PROVE  /\ call'[<<x, w, "bulk">>].pc \in Underway <=> bulk'[x].result[w] = "running"
                       /\ bulk'[x].result[w] \in {"waiting", "running"} =>
                            bulk'[x].running /\ call'[<<x, w, "snapshot">>].pc \notin Underway
    BY DEF BulkLists
  <2>1. /\ <<x, w, "bulk">> \in Calling(V) /\ <<x, w, "snapshot">> \in Calling(V)
        /\ <<x, w, "bulk">> # c /\ (<<x, w, "snapshot">> = c => x = b /\ w = v /\ k = "snapshot")
    BY Triples
  <2>2. call'[<<x, w, "bulk">>] = call[<<x, w, "bulk">>]
    BY <1>1, <1>2, <2>1 DEF ActInv, ActTypes
  <2>3. CASE <<x, w, "snapshot">> # c
    <3>1. call'[<<x, w, "snapshot">>] = call[<<x, w, "snapshot">>]
      BY <1>1, <1>2, <2>1, <2>3 DEF ActInv, ActTypes
    <3>. QED
      BY <1>1, <2>2, <3>1 DEF ActInv, BulkLists
  <2>4. CASE <<x, w, "snapshot">> = c
    <3>1. call'[<<x, w, "snapshot">>].pc = pc
      BY <1>1, <1>2, <2>4 DEF ActInv, ActTypes
    <3>. QED
      BY <1>1, <2>1, <2>2, <2>4, <3>1 DEF ActInv, BulkLists, Underway
  <2>. QED
    BY <2>3, <2>4
<1>. QED
  BY <1>1, <1>2, <1>3, <1>4, CallMoves DEF ActInv, ActTypes

\* One VM of a bulk action after the other
LEMMA TakeStep ==
  ASSUME NEW V, NEW A, NEW P, NEW L, NEW T, ActInv(V, A, T), NEW b \in Browsers, NEW v \in V,
         Act(V, A, P, L, T)!TakeNext(b, v)
  PROVE  ActInv(V, A, T)'
<1>. DEFINE c == <<b, v, "bulk">>
            r == [pc |-> "post", act |-> bulk[b].act, task |-> 0]
<1>1. /\ bulk' = [bulk EXCEPT ![b].result[v] = "running"] /\ call' = [call EXCEPT ![c] = r]
      /\ bulk[b].result[v] = "waiting" /\ UNCHANGED <<busy, vm, task, seen, lost>>
  BY DEF Act!TakeNext
<1>2. c \in Calling(V) /\ r \in CallSet(A, T) /\ Own(r, c[2], T)
  <2>1. bulk[b].act \in A
    BY DEF ActInv, ActTypes, BulkSet, Act!TakeNext
  <2>2. r \in CallSet(A, T) /\ Own(r, c[2], T)
    BY <2>1 DEF CallSet, CallRecords, Own
  <2>. QED
    BY <2>2, Triples
<1>3. /\ bulk' \in [Browsers -> BulkSet(V, A)]
      /\ \A x \in Browsers, w \in V :
           /\ bulk'[x].running = bulk[x].running
           /\ bulk'[x].result[w] = IF x = b /\ w = v THEN "running" ELSE bulk[x].result[w]
  BY <1>1 DEF ActInv, ActTypes, BulkSet, BulkRecords
<1>4. \A x \in Browsers, w \in V :
        /\ call'[<<x, w, "snapshot">>] = call[<<x, w, "snapshot">>]
        /\ IF x = b /\ w = v THEN call'[<<x, w, "bulk">>].pc = "post"
                             ELSE call'[<<x, w, "bulk">>] = call[<<x, w, "bulk">>]
  <2>1. \A d \in Calling(V) : call'[d] = IF d = c THEN r ELSE call[d]
    BY <1>1 DEF ActInv, ActTypes
  <2>2. \A x \in Browsers, w \in V :
          /\ <<x, w, "snapshot">> \in Calling(V) \ {c} /\ <<x, w, "bulk">> \in Calling(V)
          /\ <<x, w, "bulk">> = c <=> x = b /\ w = v
    BY Triples
  <2>3. r.pc = "post"
    OBVIOUS
  <2>. HIDE DEF c, r
  <2>. QED
    BY <2>1, <2>2, <2>3
<1>5. BulkLists(V)'
  <2>. SUFFICES ASSUME NEW x \in Browsers, NEW w \in V
                PROVE  /\ call'[<<x, w, "bulk">>].pc \in Underway <=> bulk'[x].result[w] = "running"
                       /\ bulk'[x].result[w] \in {"waiting", "running"} =>
                            bulk'[x].running /\ call'[<<x, w, "snapshot">>].pc \notin Underway
    BY DEF BulkLists
  <2>1. CASE x = b /\ w = v
    BY <1>1, <1>3, <1>4, <2>1 DEF ActInv, BulkLists, Underway
  <2>2. CASE ~ (x = b /\ w = v)
    BY <1>1, <1>3, <1>4, <2>2 DEF ActInv, BulkLists
  <2>. QED
    BY <2>1, <2>2
<1>. HIDE DEF c, r
<1>. QED
  BY <1>1, <1>2, <1>3, <1>5, CallMoves

\* A bulk action begins or ends, and the details are read.
LEMMA BulkSteps ==
  ASSUME NEW V, NEW A, NEW P, NEW L, NEW T, ActInv(V, A, T), NEW b \in Browsers,
         Act(V, A, P, L, T)!StartBulk(b) \/ Act(V, A, P, L, T)!EndBulk(b)
  PROVE  ActInv(V, A, T)'
<1>1. UNCHANGED <<busy, vm, task, call, lost>>
  BY DEF Act!StartBulk, Act!EndBulk
<1>2. /\ seen' \in [Browsers -> [busy : BOOLEAN, vm : [V -> VmSet]]]
      /\ bulk' \in [Browsers -> BulkSet(V, A)] /\ BulkLists(V)'
  <2>1. CASE Act(V, A, P, L, T)!StartBulk(b)
    <3>1. PICK a \in A, result \in [V -> {"none", "waiting", "done"}] :
            /\ bulk' = [bulk EXCEPT ![b] = [running |-> TRUE, act |-> a, result |-> result]]
            /\ \A v \in V : result[v] = "waiting" => ~ Act(V, A, P, L, T)!Operating(b, v)
      <4>1. PICK a \in A, S \in SUBSET V :
              bulk' = [bulk EXCEPT ![b] =
                [running |-> TRUE, act |-> a,
                 result |-> [v \in V |-> IF v \notin S THEN "none"
                                         ELSE IF /\ Act(V, A, P, L, T)!Available(b, v, a)
                                                 /\ ~ Act(V, A, P, L, T)!Operating(b, v)
                                              THEN "waiting" ELSE "done"]]]
        BY <2>1 DEF Act!StartBulk
      <4>. DEFINE result == [v \in V |-> IF v \notin S THEN "none"
                                        ELSE IF /\ Act(V, A, P, L, T)!Available(b, v, a)
                                                /\ ~ Act(V, A, P, L, T)!Operating(b, v)
                                             THEN "waiting" ELSE "done"]
      <4>2. result \in [V -> {"none", "waiting", "done"}]
        OBVIOUS
      <4>3. \A v \in V : result[v] = "waiting" => ~ Act(V, A, P, L, T)!Operating(b, v)
        OBVIOUS
      <4>4. bulk' = [bulk EXCEPT ![b] = [running |-> TRUE, act |-> a, result |-> result]]
        BY <4>1
      <4>. HIDE DEF result
      <4>. QED
        BY <4>2, <4>3, <4>4
    <3>2. ~ bulk[b].running /\ seen' = seen
      BY <2>1 DEF Act!StartBulk
    <3>3. \A v \in V : /\ call[<<b, v, "bulk">>].pc \notin Underway
                       /\ result[v] = "waiting" => call[<<b, v, "snapshot">>].pc \notin Underway
      BY <3>1, <3>2 DEF ActInv, BulkLists, Act!Operating, Act!UnderWay, Underway
    <3>4. bulk' \in [Browsers -> BulkSet(V, A)]
      BY <3>1 DEF ActInv, ActTypes, BulkSet, BulkRecords
    <3>5. \A x \in Browsers : IF x = b THEN bulk'[x].running /\ bulk'[x].result = result ELSE bulk'[x] = bulk[x]
      BY <3>1 DEF ActInv, ActTypes
    <3>6. BulkLists(V)'
      <4>. SUFFICES ASSUME NEW x \in Browsers, NEW w \in V
                    PROVE  /\ call'[<<x, w, "bulk">>].pc \in Underway <=> bulk'[x].result[w] = "running"
                           /\ bulk'[x].result[w] \in {"waiting", "running"} =>
                                bulk'[x].running /\ call'[<<x, w, "snapshot">>].pc \notin Underway
        BY DEF BulkLists
      <4>1. CASE x = b
        BY <1>1, <3>1, <3>3, <3>5, <4>1
      <4>2. CASE x # b
        BY <1>1, <3>5, <4>2 DEF ActInv, BulkLists
      <4>. QED
        BY <4>1, <4>2
    <3>. QED
      BY <3>2, <3>4, <3>6 DEF ActInv, ActTypes
  <2>2. CASE Act(V, A, P, L, T)!EndBulk(b)
    <3>1. /\ bulk' = [bulk EXCEPT ![b].running = FALSE]
          /\ \A v \in V : bulk[b].result[v] \notin {"waiting", "running"}
      BY <2>2 DEF Act!EndBulk
    <3>2. /\ bulk' \in [Browsers -> BulkSet(V, A)]
          /\ \A x \in Browsers : bulk'[x].result = bulk[x].result /\ (x # b => bulk'[x].running = bulk[x].running)
      BY <3>1 DEF ActInv, ActTypes, BulkSet, BulkRecords
    <3>3. seen' \in [Browsers -> [busy : BOOLEAN, vm : [V -> VmSet]]]
      <4>1. CASE seen' = seen
        BY <4>1 DEF ActInv, ActTypes
      <4>2. CASE seen' = [seen EXCEPT ![b] = [busy |-> busy, vm |-> vm]]
        BY <4>2 DEF ActInv, ActTypes
      <4>. QED
        BY <2>2, <4>1, <4>2 DEF Act!EndBulk
    <3>4. BulkLists(V)'
      <4>. SUFFICES ASSUME NEW x \in Browsers, NEW w \in V
                    PROVE  /\ call'[<<x, w, "bulk">>].pc \in Underway <=> bulk'[x].result[w] = "running"
                           /\ bulk'[x].result[w] \in {"waiting", "running"} =>
                                bulk'[x].running /\ call'[<<x, w, "snapshot">>].pc \notin Underway
        BY DEF BulkLists
      <4>1. CASE x = b
        <5>1. bulk'[x].result[w] = bulk[x].result[w] /\ bulk[x].result[w] \notin {"waiting", "running"}
          BY <3>1, <3>2, <4>1
        <5>2. call'[<<x, w, "bulk">>].pc \in Underway <=> bulk[x].result[w] = "running"
          BY <1>1 DEF ActInv, BulkLists
        <5>. QED
          BY <5>1, <5>2
      <4>2. CASE x # b
        BY <1>1, <3>2, <4>2 DEF ActInv, BulkLists
      <4>. QED
        BY <4>1, <4>2
    <3>. QED
      BY <3>2, <3>3, <3>4
  <2>. QED
    BY <2>1, <2>2
<1>. QED
  BY <1>1, <1>2 DEF ActInv, ActTypes, LocksShown, Locks, OwnTasks, Own

\* The details are read, and an operation of the lab begins or ends.
LEMMA ViewSteps ==
  ASSUME NEW V, NEW A, NEW P, NEW L, NEW T, ActInv(V, A, T),
         \/ \E b \in Browsers : Act(V, A, P, L, T)!Refresh(b)
         \/ Act(V, A, P, L, T)!LabBegins \/ Act(V, A, P, L, T)!LabEnds
  PROVE  ActInv(V, A, T)'
<1>0. /\ busy \in BOOLEAN /\ lost \in Nat /\ vm \in [V -> VmSet]
      /\ seen \in [Browsers -> [busy : BOOLEAN, vm : [V -> VmSet]]]
  BY DEF ActInv, ActTypes
<1>1. CASE \E b \in Browsers : Act(V, A, P, L, T)!Refresh(b)
  BY <1>0, <1>1, ActStays DEF Act!Refresh
<1>2. CASE Act(V, A, P, L, T)!LabBegins
  BY <1>0, <1>2, ActStays DEF Act!LabBegins, Act!Fault
<1>3. CASE Act(V, A, P, L, T)!LabEnds
  BY <1>0, <1>3, ActStays DEF Act!LabEnds
<1>. QED
  BY <1>1, <1>2, <1>3

\* A task stays what it is once it has started, and a success stays one.
TasksGo(T) ==
  \A i \in 1 .. T : task[i].state # "none" =>
    /\ task'[i].vm = task[i].vm /\ task'[i].act = task[i].act /\ task'[i].state # "none"
    /\ task[i].state = "ok" => task'[i].state = "ok"

\* A request keeps its own task while the tasks only go on.
LEMMA OwnStays ==
  ASSUME NEW V, NEW T, TasksGo(T), NEW c \in Calling(V), Own(call[c], c[2], T), call'[c] = call[c]
  PROVE  Own(call[c], c[2], T)'
BY DEF TasksGo, Own

\* Proxmox accepts or refuses a request.
LEMMA RequestStep ==
  ASSUME NEW V, NEW A, NEW P, NEW L, NEW T, ActInv(V, A, T), NEW c \in Calling(V),
         Act(V, A, P, L, T)!Request(c)
  PROVE  ActInv(V, A, T)'
<1>. DEFINE a == call[c].act
            v == c[2]
            new == [vm |-> v, act |-> a, state |-> "running"]
<1>1. /\ call[c].pc = "read" /\ UNCHANGED <<busy, seen>> /\ v \in V /\ a \in A
      /\ call[c] \in CallRecords(A, T) /\ call \in [Calling(V) -> CallSet(A, T)]
      /\ vm \in [V -> VmSet] /\ lost \in Nat /\ bulk \in [Browsers -> BulkSet(V, A)]
      /\ task \in [1 .. T -> {Nothing} \cup TaskSet(V, A)]
  BY Triples DEF Act!Request, ActInv, ActTypes, CallSet
<1>2. CASE Act(V, A, P, L, T)!End(c, "error") /\ UNCHANGED <<vm, task, lost>>
  BY <1>1, <1>2, CallFails DEF Underway
<1>3. CASE \E i \in 1 .. T :
        /\ task[i] = Nothing /\ task' = [task EXCEPT ![i] = new]
        /\ \/ /\ call' = [call EXCEPT ![c].pc = "poll", ![c].task = i]
              /\ UNCHANGED <<bulk, lost>>
           \/ Act(V, A, P, L, T)!Fault /\ Act(V, A, P, L, T)!End(c, "error")
        /\ vm' = [vm EXCEPT ![v].locked = @ \/ a \in Snapshots]
        /\ a \in Snapshots => ~ vm[v].locked
  <2>1. PICK i \in 1 .. T :
          /\ task[i] = Nothing /\ task' = [task EXCEPT ![i] = new]
          /\ \/ /\ call' = [call EXCEPT ![c].pc = "poll", ![c].task = i]
                /\ UNCHANGED <<bulk, lost>>
             \/ Act(V, A, P, L, T)!Fault /\ Act(V, A, P, L, T)!End(c, "error")
          /\ vm' = [vm EXCEPT ![v].locked = @ \/ a \in Snapshots]
          /\ a \in Snapshots => ~ vm[v].locked
    BY <1>3
  <2>2. new \in TaskSet(V, A) /\ new.vm = v /\ new.act = a /\ new.state = "running"
    BY <1>1 DEF TaskSet
  <2>3. /\ task' \in [1 .. T -> {Nothing} \cup TaskSet(V, A)]
        /\ \A j \in 1 .. T : task'[j] = IF j = i THEN new ELSE task[j]
    BY <1>1, <2>1, <2>2
  <2>4. task[i].state = "none" /\ TasksGo(T)
    BY <2>1, <2>3 DEF TasksGo, Nothing
  <2>5. /\ vm' \in [V -> VmSet]
        /\ \A w \in V : vm'[w].locked <=> vm[w].locked \/ (w = v /\ a \in Snapshots)
    <3>. DEFINE lock == vm[v].locked \/ a \in Snapshots
    <3>1. vm' = [vm EXCEPT ![v].locked = lock] /\ lock \in BOOLEAN
      BY <1>1, <2>1 DEF VmSet
    <3>2. lock <=> vm[v].locked \/ a \in Snapshots
      OBVIOUS
    <3>. HIDE DEF lock
    <3>. QED
      BY <1>1, <3>1, <3>2 DEF VmSet
  <2>6. LocksShown(V, T)'
    <3>1. \A j \in 1 .. T, w \in V : Locks(j, w)' <=> Locks(j, w) \/ (j = i /\ w = v /\ a \in Snapshots)
      BY <2>2, <2>3, <2>4 DEF Locks
    <3>. QED
      BY <2>1, <2>5, <3>1 DEF ActInv, LocksShown
  <2>7. /\ bulk' \in [Browsers -> BulkSet(V, A)] /\ BulkLists(V)' /\ lost' \in Nat
        /\ \E r \in CallSet(A, T) : call' = [call EXCEPT ![c] = r] /\ Own(r, v, T)'
    <3>1. CASE /\ call' = [call EXCEPT ![c].pc = "poll", ![c].task = i]
               /\ UNCHANGED <<bulk, lost>>
      <4>1. PICK half \in CallRecords(A, T) : half = [call[c] EXCEPT !.pc = "poll"] /\ half.pc = "poll" /\ half.act = a
        <5>. DEFINE polls == [call[c] EXCEPT !.pc = "poll"]
        <5>1. polls \in CallRecords(A, T) /\ polls.pc = "poll" /\ polls.act = a
          BY <1>1 DEF CallRecords
        <5>. QED
          BY <5>1
      <4>2. PICK r \in CallRecords(A, T) : r = [half EXCEPT !.task = i] /\ r.pc = "poll" /\ r.act = a /\ r.task = i
        <5>. DEFINE polls == [half EXCEPT !.task = i]
        <5>1. polls \in CallRecords(A, T) /\ polls.pc = "poll" /\ polls.act = a /\ polls.task = i
          BY <4>1 DEF CallRecords
        <5>. QED
          BY <5>1
      <4>3. call' = [call EXCEPT ![c] = r]
        BY <1>1, <3>1, <4>1, <4>2
      <4>4. r \in CallSet(A, T) /\ Own(r, v, T)'
        <5>1. task'[i].state = "running" /\ task'[i].vm = v /\ task'[i].act = r.act
          BY <2>2, <2>3, <4>2
        <5>. QED
          BY <1>1, <4>2, <5>1 DEF CallSet, Own
      <4>5. BulkLists(V)'
        <5>1. r.pc \in Underway <=> call[c].pc \in Underway
          BY <1>1, <4>2 DEF Underway
        <5>. QED
          BY <3>1, <4>3, <5>1, ListsStay
      <4>. QED
        BY <1>1, <3>1, <4>3, <4>4, <4>5
    <3>2. CASE Act(V, A, P, L, T)!Fault /\ Act(V, A, P, L, T)!End(c, "error")
      <4>1. /\ bulk' \in [Browsers -> BulkSet(V, A)] /\ BulkLists(V)'
            /\ Idle \in CallSet(A, T) /\ call' = [call EXCEPT ![c] = Idle]
        <5>1. call[c].pc \in Underway
          BY <1>1 DEF Underway
        <5>. QED
          BY <3>2, <5>1, CallEnds, "error" # "success"
      <4>2. Own(Idle, v, T)' /\ lost' \in Nat
        BY <1>1, <3>2 DEF Own, Idle, Act!Fault
      <4>. QED
        BY <4>1, <4>2
    <3>. QED
      BY <2>1, <3>1, <3>2
  <2>8. call' \in [Calling(V) -> CallSet(A, T)] /\ OwnTasks(V, T)'
    <3>1. PICK r \in CallSet(A, T) : call' = [call EXCEPT ![c] = r] /\ Own(r, v, T)'
      BY <2>7
    <3>2. call' \in [Calling(V) -> CallSet(A, T)] /\ call'[c] = r /\ \A d \in Calling(V) \ {c} : call'[d] = call[d]
      BY <1>1, <3>1
    <3>3. ASSUME NEW d \in Calling(V) PROVE Own(call[d], d[2], T)'
      <4>1. CASE d = c
        BY <3>1, <3>2, <4>1 DEF Own
      <4>2. CASE d # c
        BY <2>4, <3>2, <4>2, OwnStays DEF ActInv, OwnTasks
      <4>. QED
        BY <4>1, <4>2
    <3>. QED
      BY <3>2, <3>3 DEF OwnTasks
  <2>. QED
    BY <1>1, <2>3, <2>5, <2>6, <2>7, <2>8 DEF ActInv, ActTypes
<1>. QED
  BY <1>2, <1>3 DEF Act!Request, Act!NoTask, Nothing, Act!Snapshot, Snapshots, Act!Ids

\* What the steps of Proxmox, of the guests and of the lab have in common: requests
\* and bulk actions stay, tasks go on.
LEMMA TaskMoves ==
  ASSUME NEW V, NEW A, NEW T, ActInv(V, A, T), UNCHANGED <<busy, seen, bulk, call, lost>>,
         vm' \in [V -> VmSet], task' \in [1 .. T -> {Nothing} \cup TaskSet(V, A)],
         TasksGo(T), LocksShown(V, T)'
  PROVE  ActInv(V, A, T)'
<1>1. ActTypes(V, A, T)' /\ BulkLists(V)'
  BY DEF ActInv, ActTypes, BulkLists
<1>2. OwnTasks(V, T)'
  BY OwnStays DEF ActInv, OwnTasks
<1>. QED
  BY <1>1, <1>2 DEF ActInv

\* A guest that goes down loses its processes, and none of the snapshot tasks.
LEMMA Losing ==
  ASSUME NEW V, NEW A, NEW P, NEW L, NEW T, NEW v,
         task \in [1 .. T -> {Nothing} \cup TaskSet(V, A)]
  PROVE  LET lose == Act(V, A, P, L, T)!Lost(v) IN
         /\ lose \in [1 .. T -> {Nothing} \cup TaskSet(V, A)]
         /\ \A i \in 1 .. T :
              /\ lose[i].vm = task[i].vm /\ lose[i].act = task[i].act
              /\ lose[i].state = task[i].state
                 \/ (task[i].act \notin Snapshots /\ task[i].state = "running" /\ lose[i].state = "lost")
<1>. DEFINE lose == Act(V, A, P, L, T)!Lost(v)
<1>1. ASSUME NEW i \in 1 .. T
      PROVE  /\ lose[i] \in {Nothing} \cup TaskSet(V, A)
             /\ lose[i].vm = task[i].vm /\ lose[i].act = task[i].act
             /\ lose[i].state = task[i].state
                 \/ (task[i].act \notin Snapshots /\ task[i].state = "running" /\ lose[i].state = "lost")
  <2>1. lose[i] = IF task[i].vm = v /\ task[i].act \notin Snapshots /\ task[i].state = "running"
                  THEN [task[i] EXCEPT !.state = "lost"] ELSE task[i]
    BY DEF Act!Lost, Act!Ids, Act!Snapshot, Snapshots
  <2>. HIDE DEF lose
  <2>2. CASE task[i].state = "running"
    <3>1. task[i] \in TaskSet(V, A)
      BY <2>2 DEF Nothing
    <3>. QED
      BY <2>1, <3>1 DEF TaskSet
  <2>3. CASE task[i].state # "running"
    BY <2>1, <2>3
  <2>. QED
    BY <2>2, <2>3
<1>2. lose = [i \in 1 .. T |-> lose[i]]
  BY DEF Act!Lost, Act!Ids
<1>. HIDE DEF lose
<1>3. lose \in [1 .. T -> {Nothing} \cup TaskSet(V, A)]
  BY <1>1, <1>2
<1>. QED
  BY <1>1, <1>3 DEF lose

\* A snapshot task, or a process of a guest, ends.
LEMMA TaskEndsStep ==
  ASSUME NEW V, NEW A, NEW P, NEW L, NEW T, ActInv(V, A, T), NEW i \in 1 .. T,
         Act(V, A, P, L, T)!TaskEnds(i)
  PROVE  ActInv(V, A, T)'
<1>. DEFINE v == task[i].vm
            a == task[i].act
<1>1. /\ task \in [1 .. T -> {Nothing} \cup TaskSet(V, A)] /\ vm \in [V -> VmSet]
      /\ task[i].state = "running" /\ UNCHANGED <<busy, seen, bulk, call, lost>>
  BY DEF ActInv, ActTypes, Act!TaskEnds
<1>2. PICK ok \in BOOLEAN :
        /\ task' = [(IF a = "restore" /\ ok THEN Act(V, A, P, L, T)!Lost(v) ELSE task)
                      EXCEPT ![i].state = IF ok THEN "ok" ELSE "failed"]
        /\ vm' = IF a \notin Snapshots THEN vm
                 ELSE [vm EXCEPT ![v].locked = FALSE, ![v].snap = IF ok THEN a # "delete" ELSE @]
  BY DEF Act!TaskEnds, Act!Snapshot, Snapshots
<1>. DEFINE base == IF a = "restore" /\ ok THEN Act(V, A, P, L, T)!Lost(v) ELSE task
            end == IF ok THEN "ok" ELSE "failed"
<1>3. task[i] \in TaskSet(V, A) /\ v \in V
  BY <1>1 DEF Nothing, TaskSet
<1>4. /\ base \in [1 .. T -> {Nothing} \cup TaskSet(V, A)]
      /\ \A j \in 1 .. T :
           /\ base[j].vm = task[j].vm /\ base[j].act = task[j].act
           /\ base[j].state = task[j].state
              \/ (task[j].act \notin Snapshots /\ task[j].state = "running" /\ base[j].state = "lost")
  BY <1>1, Losing
<1>5. task' = [base EXCEPT ![i].state = end] /\ end \in {"ok", "failed"}
  BY <1>2
<1>. HIDE DEF base, end
<1>6. base[i] \in TaskSet(V, A)
  <2>1. base[i].state # "none"
    BY <1>1, <1>4
  <2>. QED
    BY <1>4, <2>1 DEF Nothing
<1>7. /\ task' \in [1 .. T -> {Nothing} \cup TaskSet(V, A)]
      /\ task'[i].vm = v /\ task'[i].act = a /\ task'[i].state = end
      /\ \A j \in (1 .. T) \ {i} : task'[j] = base[j]
  <2>. DEFINE last == [base[i] EXCEPT !.state = end]
  <2>1. last \in TaskSet(V, A) /\ last.vm = v /\ last.act = a /\ last.state = end
    BY <1>4, <1>5, <1>6 DEF TaskSet
  <2>2. task' = [base EXCEPT ![i] = last]
    BY <1>4, <1>5
  <2>. HIDE DEF last
  <2>. QED
    BY <1>4, <2>1, <2>2
<1>8. TasksGo(T)
  <2>. SUFFICES ASSUME NEW j \in 1 .. T, task[j].state # "none"
                PROVE  /\ task'[j].vm = task[j].vm /\ task'[j].act = task[j].act /\ task'[j].state # "none"
                       /\ task[j].state = "ok" => task'[j].state = "ok"
    BY DEF TasksGo
  <2>1. CASE j = i
    BY <1>1, <1>5, <1>7, <2>1
  <2>2. CASE j # i
    BY <1>4, <1>7, <2>2
  <2>. QED
    BY <2>1, <2>2
<1>9. \A j \in 1 .. T, w \in V : Locks(j, w)' <=> Locks(j, w) /\ j # i
  <2>. SUFFICES ASSUME NEW j \in 1 .. T, NEW w \in V PROVE Locks(j, w)' <=> Locks(j, w) /\ j # i
    OBVIOUS
  <2>1. CASE j = i
    BY <1>5, <1>7, <2>1 DEF Locks
  <2>2. CASE j # i
    BY <1>4, <1>7, <2>2 DEF Locks
  <2>. QED
    BY <2>1, <2>2
<1>10. vm' \in [V -> VmSet] /\ \A w \in V : vm'[w].locked <=> vm[w].locked /\ ~ (w = v /\ a \in Snapshots)
  <2>1. CASE a \notin Snapshots
    BY <1>1, <1>2, <2>1
  <2>2. CASE a \in Snapshots
    <3>. DEFINE half == [vm EXCEPT ![v].locked = FALSE]
                snap == IF ok THEN a # "delete" ELSE vm[v].snap
    <3>1. half \in [V -> VmSet] /\ \A w \in V : half[w].locked <=> vm[w].locked /\ w # v
      BY <1>1, <1>3 DEF VmSet
    <3>2. vm' = [half EXCEPT ![v].snap = snap] /\ snap \in BOOLEAN
      BY <1>1, <1>2, <1>3, <2>2 DEF VmSet
    <3>. HIDE DEF half, snap
    <3>3. vm' \in [V -> VmSet] /\ \A w \in V : vm'[w].locked = half[w].locked
      BY <1>3, <3>1, <3>2 DEF VmSet
    <3>. QED
      BY <2>2, <3>1, <3>3
  <2>. QED
    BY <2>1, <2>2
<1>11. LocksShown(V, T)'
  <2>1. a \in Snapshots => Locks(i, v)
    BY <1>1 DEF Locks
  <2>2. \A w \in V : Locks(i, w) => w = v /\ a \in Snapshots
    BY DEF Locks
  <2>. QED
    BY <1>3, <1>9, <1>10, <2>1, <2>2 DEF ActInv, LocksShown
<1>. QED
  BY <1>1, <1>7, <1>8, <1>10, <1>11, TaskMoves

\* The lab starts, stops, destroys or creates a VM that is not locked.
LEMMA LabActsStep ==
  ASSUME NEW V, NEW A, NEW P, NEW L, NEW T, ActInv(V, A, T), NEW v \in V,
         P \subseteq {"absent", "stopped", "running"}, Act(V, A, P, L, T)!LabActs(v)
  PROVE  ActInv(V, A, T)'
<1>1. /\ task \in [1 .. T -> {Nothing} \cup TaskSet(V, A)] /\ vm \in [V -> VmSet]
      /\ UNCHANGED <<busy, seen, bulk, call, lost>> /\ task' = Act(V, A, P, L, T)!Lost(v)
  BY DEF ActInv, ActTypes, Act!LabActs
<1>2. PICK p \in P : vm' = [vm EXCEPT ![v].power = p, ![v].snap = @ /\ p # "absent"]
  BY DEF Act!LabActs
<1>3. vm' \in [V -> VmSet] /\ \A w \in V : vm'[w].locked = vm[w].locked
  <2>. DEFINE half == [vm EXCEPT ![v].power = p]
              snap == vm[v].snap /\ p # "absent"
  <2>1. half \in [V -> VmSet] /\ \A w \in V : half[w].locked = vm[w].locked
    BY <1>1 DEF VmSet
  <2>2. vm' = [half EXCEPT ![v].snap = snap] /\ snap \in BOOLEAN
    BY <1>1, <1>2 DEF VmSet
  <2>. HIDE DEF half, snap
  <2>. QED
    BY <2>1, <2>2 DEF VmSet
<1>4. /\ task' \in [1 .. T -> {Nothing} \cup TaskSet(V, A)]
      /\ \A i \in 1 .. T :
           /\ task'[i].vm = task[i].vm /\ task'[i].act = task[i].act
           /\ task'[i].state = task[i].state
              \/ (task[i].act \notin Snapshots /\ task[i].state = "running" /\ task'[i].state = "lost")
  BY <1>1, Losing
<1>5. TasksGo(T)
  BY <1>4 DEF TasksGo
<1>6. \A i \in 1 .. T, w \in V : Locks(i, w)' <=> Locks(i, w)
  BY <1>4 DEF Locks
<1>7. LocksShown(V, T)'
  BY <1>3, <1>6 DEF ActInv, LocksShown
<1>. QED
  BY <1>1, <1>3, <1>4, <1>5, <1>7, TaskMoves

\* Every step of the browsers, the dashboard, Proxmox and the lab
LEMMA ActStep ==
  ASSUME NEW V, NEW A, NEW P, NEW L, NEW T, P \subseteq {"absent", "stopped", "running"},
         ActInv(V, A, T), Act(V, A, P, L, T)!Next
  PROVE  ActInv(V, A, T)'
<1>1. ASSUME NEW b \in Browsers, Act(V, A, P, L, T)!BrowserNext(b) PROVE ActInv(V, A, T)'
  BY <1>1, ViewSteps, BulkSteps, TakeStep, ButtonSteps DEF Act!BrowserNext
<1>2. ASSUME NEW c \in Act(V, A, P, L, T)!CallIds, Act(V, A, P, L, T)!CallNext(c) PROVE ActInv(V, A, T)'
  <2>1. c \in Calling(V)
    BY DEF Act!CallIds, Act!Kinds, Calling
  <2>. QED
    BY <1>2, <2>1, CheckSteps, RequestStep, PollSteps DEF Act!CallNext
<1>3. ASSUME NEW i \in Act(V, A, P, L, T)!Ids, Act(V, A, P, L, T)!TaskEnds(i) PROVE ActInv(V, A, T)'
  BY <1>3, TaskEndsStep DEF Act!Ids
<1>. QED
  BY <1>1, <1>2, <1>3, ViewSteps, LabActsStep DEF Act!Next

---------------------------------------------------------------------------
(* The clean-up of orphaned disks *)

DiskTypes ==
  /\ exists \subseteq DiskIds /\ running \subseteq exists /\ pool \subseteq DiskIds
  /\ config \in [DiskIds -> SUBSET DiskIds]
  /\ deletion \in [DiskIds -> {"none", "running", "ok", "watched", "missing", "failed"}]
  /\ req \in [Requests -> Disks!Pc] /\ run \in Disks!Run /\ flag \in BOOLEAN

\* One clean-up at a time; before the inventory it knows nothing.
OneCleanup ==
  /\ \A r, s \in Requests : Disks!Cleaning(r) /\ Disks!Cleaning(s) => r = s
  /\ flag <=> \E r \in Requests : Disks!Cleaning(r)
  /\ \A r \in Requests : req[r] = "inventory" => run = Disks!NoRun
  /\ ~ flag => run = Disks!NoRun

\* What is tracked of the volumes: the protected ones and the orphans of now
Tracked ==
  /\ kept \subseteq Disks!Protects
  /\ orphans \subseteq DiskIds /\ \A d \in orphans \cap pool : d \in Disks!Orphans

\* A clean-up at pc that knows what n says spares the volume of p: it has read
\* the VM, and it has read a config that names the volume, or will.
Spares(pc, n, p) ==
  /\ pc = "configs" => p[1] \in n.ids /\ (p[1] \in n.left \/ p[2] \in n.ids \cup n.refs)
  /\ pc = "content" => p[2] \in n.ids \cup n.refs
  /\ pc \in {"delete", "poll"} => p[2] \notin n.found

\* No deletion of a volume that must be kept runs, or will be asked for.
KeptSpared ==
  \A p \in kept : deletion[p[2]] # "running" /\ \A r \in Requests : Spares(req[r], run, p)

\* An orphan is not taken for a volume in use; it is on the list, or its deletion
\* is under way, unless the clean-up knows of an error.
Left == orphans \cap pool
Meets(pc, n) ==
  /\ pc \in {"configs", "content"} => Left \cap (n.ids \cup n.refs) = {}
  /\ pc = "content" /\ ~ n.errors => n.left = Nodes \/ Left \subseteq n.found
  /\ pc = "delete" /\ ~ n.errors => Left \subseteq n.found
  /\ pc = "poll" =>
       /\ n.current \in DiskIds
       /\ deletion[n.current] \in {"running", "failed"} \/ n.current \notin Left
       /\ ~ n.errors => Left \subseteq n.found \cup {n.current}
OrphansMet == \A r \in Requests : Meets(req[r], run)

DiskInv == DiskTypes /\ OneCleanup /\ Tracked /\ KeptSpared /\ OrphansMet

\* What the labs do: what is tracked shrinks.
LEMMA LabSteps ==
  ASSUME DiskInv, NEW v \in DiskIds,
         Disks!CreateVm(v) \/ Disks!AddVolume(v) \/ Disks!StartVm(v) \/ Disks!DestroyVm(v)
  PROVE  DiskInv'
<1>. USE DEF DiskInv, Disks!Op, Disks!Track
<1>1. DiskTypes'
  BY DEF DiskTypes, Disks!CreateVm, Disks!AddVolume, Disks!StartVm, Disks!DestroyVm
<1>2. UNCHANGED <<deletion, flag, req, run>> /\ kept' = kept \cap Disks!Protects'
      /\ orphans' = orphans \cap (Disks!Orphans' \cup (DiskIds \ pool'))
  BY DEF Disks!CreateVm, Disks!AddVolume, Disks!StartVm, Disks!DestroyVm
<1>3. Left' \subseteq Left
  <2>. SUFFICES ASSUME NEW d \in orphans', d \in pool' PROVE d \in pool
    BY <1>2 DEF Left
  <2>1. CASE Disks!AddVolume(v)
    <3>1. d \in Disks!Orphans'
      BY <1>2
    <3>2. d \notin exists'
      <4>1. ASSUME d \in exists' PROVE FALSE
        <5>1. <<d, d>> \in Disks!Protects' /\ <<d, d>>[2] = d
          BY <4>1 DEF Disks!Protects
        <5>2. d \in Disks!Protected'
          BY <5>1 DEF Disks!Protected
        <5>. QED
          BY <3>1, <5>2 DEF Disks!Orphans
      <4>. QED
        BY <4>1
    <3>. QED
      BY <2>1, <3>2 DEF Disks!AddVolume
  <2>2. CASE Disks!CreateVm(v) \/ Disks!StartVm(v) \/ Disks!DestroyVm(v)
    BY <2>2 DEF Disks!CreateVm, Disks!StartVm, Disks!DestroyVm
  <2>. QED
    BY <2>1, <2>2
<1>4. OneCleanup'
  BY <1>2 DEF OneCleanup, Disks!Cleaning
<1>5. Tracked'
  BY <1>2 DEF Tracked
<1>6. KeptSpared'
  BY <1>2 DEF KeptSpared
<1>7. OrphansMet'
  BY <1>2, <1>3 DEF OrphansMet, Meets
<1>. QED
  BY <1>1, <1>4, <1>5, <1>6, <1>7

\* The end of a deletion: an orphan it leaves behind was not deleted for a fault.
LEMMA DeletionEnds ==
  ASSUME DiskInv, NEW v \in DiskIds, Disks!TaskEnds(v)
  PROVE  DiskInv'
<1>. USE DEF DiskInv, Disks!Track
<1>1. DiskTypes'
  BY DEF DiskTypes, Disks!TaskEnds
<1>2. /\ UNCHANGED <<exists, config, running, flag, req, run>> /\ kept' = kept \cap Disks!Protects'
      /\ orphans' = orphans \cap (Disks!Orphans' \cup (DiskIds \ pool')) /\ pool' \subseteq pool
  BY DEF Disks!TaskEnds
<1>3. Left' \subseteq Left
  BY <1>2 DEF Left
<1>4. /\ \A d \in DiskIds \ {v} : deletion'[d] = deletion[d]
      /\ deletion'[v] # "running" /\ (deletion'[v] = "failed" \/ v \notin Left')
  <2>1. CASE deletion' = [deletion EXCEPT ![v] = "failed"]
    BY <2>1 DEF DiskTypes
  <2>2. CASE /\ deletion' = [deletion EXCEPT ![v] = CASE v \notin pool -> "missing"
                                                     [] v \in Disks!Watched -> "watched"
                                                     [] OTHER -> "ok"]
             /\ pool' = IF v \in Disks!Watched THEN pool ELSE pool \ {v}
    <3>1. v \in Disks!Watched => v \notin Disks!Orphans'
      BY <1>2 DEF Disks!Orphans, Disks!Watched
    <3>2. v \notin Left'
      BY <1>2, <2>2, <3>1 DEF Left
    <3>. QED
      BY <2>2, <3>2 DEF DiskTypes
  <2>. QED
    BY <2>1, <2>2 DEF Disks!TaskEnds
<1>5. OneCleanup'
  BY <1>2 DEF OneCleanup, Disks!Cleaning
<1>6. Tracked'
  BY <1>2 DEF Tracked
<1>7. KeptSpared'
  BY <1>2, <1>4 DEF KeptSpared, Tracked, Disks!Protects, DiskTypes
<1>8. OrphansMet'
  BY <1>2, <1>3, <1>4 DEF OrphansMet, Meets
<1>. QED
  BY <1>1, <1>5, <1>6, <1>7, <1>8

\* One step of the clean-up of r, to pc, with what n says.
LEMMA CleanMoves ==
  ASSUME DiskInv, NEW r \in Requests, Disks!Cleaning(r), NEW n \in Disks!Run, run' = n,
         NEW pc \in {"configs", "content", "delete", "poll", "unanswered", "complete", "incomplete", "failed"},
         req' = [req EXCEPT ![r] = pc], UNCHANGED <<exists, config, running, pool, kept, orphans>>,
         deletion' \in [DiskIds -> {"none", "running", "ok", "watched", "missing", "failed"}],
         IF pc \in {"complete", "incomplete", "failed"} THEN flag' = FALSE /\ n = Disks!NoRun
                                                        ELSE flag' = flag,
         \A p \in kept : deletion'[p[2]] # "running" /\ Spares(pc, n, p), Meets(pc, n)'
  PROVE  DiskInv'
<1>. USE DEF DiskInv
<1>1. /\ req' \in [Requests -> Disks!Pc] /\ req'[r] = pc
      /\ \A s \in Requests \ {r} : req'[s] = req[s] /\ ~ Disks!Cleaning(s) /\ ~ Disks!Cleaning(s)'
  BY DEF DiskTypes, OneCleanup, Disks!Cleaning, Disks!Pc
<1>2. DiskTypes'
  BY <1>1 DEF DiskTypes, OneCleanup
<1>3. OneCleanup'
  BY <1>1 DEF OneCleanup, Disks!Cleaning
<1>4. Tracked'
  BY DEF Tracked, Disks!Protects, Disks!Orphans, Disks!Protected, Disks!Watched
<1>5. KeptSpared'
  BY <1>1 DEF KeptSpared, Spares, Disks!Cleaning
<1>6. OrphansMet'
  BY <1>1 DEF OrphansMet, Meets, Disks!Cleaning
<1>. QED
  BY <1>2, <1>3, <1>4, <1>5, <1>6

\* A clean-up that fails forgets everything.
LEMMA CleanFails ==
  ASSUME DiskInv, NEW r \in Requests, Disks!Cleaning(r), Disks!Fail(r),
         UNCHANGED <<exists, config, running, pool, kept, orphans, deletion>>
  PROVE  DiskInv'
<1>1. Disks!NoRun \in Disks!Run
  BY DEF Disks!NoRun, Disks!Run
<1>2. \A p \in kept : deletion'[p[2]] # "running" /\ Spares("failed", Disks!NoRun, p)
  BY DEF DiskInv, KeptSpared, Spares
<1>3. Meets("failed", Disks!NoRun)'
  BY DEF Meets
<1>. QED
  BY <1>1, <1>2, <1>3, CleanMoves DEF Disks!Fail, DiskInv, DiskTypes

\* A request begins the clean-up, or finds another at work.
LEMMA BeginStep ==
  ASSUME DiskInv, NEW r \in Requests, Disks!Begin(r)
  PROVE  DiskInv'
<1>. USE DEF DiskInv, Disks!Steady
<1>1. CASE flag
  <2>1. /\ req' = [req EXCEPT ![r] = "refused"] /\ req[r] = "idle"
        /\ UNCHANGED <<exists, config, running, pool, kept, orphans, deletion, flag, run>>
    BY <1>1 DEF Disks!Begin
  <2>2. req' \in [Requests -> Disks!Pc] /\ \A s \in Requests : Disks!Cleaning(s)' <=> Disks!Cleaning(s)
    BY <2>1 DEF DiskTypes, Disks!Cleaning, Disks!Pc
  <2>3. \A s \in Requests : IF s = r THEN req'[s] = "refused" ELSE req'[s] = req[s]
    BY <2>1 DEF DiskTypes
  <2>4. DiskTypes' /\ OneCleanup'
    BY <2>1, <2>2, <2>3 DEF DiskTypes, OneCleanup
  <2>5. Tracked'
    BY <2>1 DEF Tracked, Disks!Protects, Disks!Orphans, Disks!Protected, Disks!Watched
  <2>6. KeptSpared' /\ OrphansMet'
    BY <2>1, <2>3 DEF KeptSpared, OrphansMet, Spares, Meets, Left
  <2>. QED
    BY <2>4, <2>5, <2>6
<1>2. CASE ~ flag
  <2>1. /\ req' = [req EXCEPT ![r] = "inventory"] /\ flag' /\ run' = run /\ run = Disks!NoRun
        /\ kept' = {p \in Disks!Protects : deletion[p[2]] # "running"} /\ orphans' = Disks!Orphans
        /\ deletion' = [d \in DiskIds |-> IF deletion[d] = "running" THEN "running" ELSE "none"]
        /\ UNCHANGED <<exists, config, running, pool>>
    BY <1>2 DEF Disks!Begin, OneCleanup
  <2>2. /\ req' \in [Requests -> Disks!Pc] /\ req'[r] = "inventory" /\ Disks!Cleaning(r)'
        /\ \A s \in Requests \ {r} : req'[s] = req[s] /\ ~ Disks!Cleaning(s) /\ ~ Disks!Cleaning(s)'
    BY <1>2, <2>1 DEF DiskTypes, OneCleanup, Disks!Cleaning, Disks!Pc
  <2>3. DiskTypes' /\ OneCleanup'
    BY <2>1, <2>2 DEF DiskTypes, OneCleanup
  <2>4. Tracked'
    BY <2>1 DEF Tracked, DiskTypes, Disks!Protects, Disks!Orphans, Disks!Protected, Disks!Watched
  <2>5. KeptSpared'
    <3>1. \A p \in kept' : p[2] \in DiskIds /\ deletion[p[2]] # "running"
      BY <2>1 DEF Disks!Protects, DiskTypes
    <3>. QED
      BY <2>1, <2>2, <3>1 DEF KeptSpared, Spares, Disks!Cleaning
  <2>6. OrphansMet'
    BY <2>2 DEF OrphansMet, Meets, Disks!Cleaning
  <2>. QED
    BY <2>3, <2>4, <2>5, <2>6
<1>. QED
  BY <1>1, <1>2

\* The inventory: the VMs whose configs are still to be read.
LEMMA ReadInventoryStep ==
  ASSUME DiskInv, NEW r \in Requests, Disks!ReadInventory(r)
  PROVE  DiskInv'
<1>. USE DEF DiskInv, Disks!Steady
<1>1. req[r] = "inventory" /\ run = Disks!NoRun /\ Disks!Cleaning(r) /\ exists \subseteq DiskIds
      /\ UNCHANGED <<exists, config, running, pool, kept, orphans, deletion>>
  BY DEF Disks!ReadInventory, OneCleanup, Disks!Cleaning, DiskTypes
<1>2. CASE /\ run' = [run EXCEPT !.ids = exists, !.left = exists]
           /\ req' = [req EXCEPT ![r] = "configs"] /\ flag' = flag
  <2>1. PICK n \in Disks!Run : run' = n /\ n.ids = exists /\ n.left = exists /\ n.refs = {}
    <3>. DEFINE half == [run EXCEPT !.ids = exists]
    <3>1. half \in Disks!Run /\ half.ids = exists /\ half.refs = {}
      BY <1>1 DEF Disks!Run, Disks!NoRun
    <3>2. run' = [half EXCEPT !.left = exists]
      BY <1>2
    <3>. HIDE DEF half
    <3>3. run' \in Disks!Run /\ run'.ids = exists /\ run'.left = exists /\ run'.refs = {}
      BY <1>1, <3>1, <3>2 DEF Disks!Run
    <3>. QED
      BY <3>3
  <2>2. \A p \in kept : deletion'[p[2]] # "running" /\ Spares("configs", n, p)
    BY <1>1, <2>1 DEF KeptSpared, Spares, Tracked, Disks!Protects
  <2>3. Meets("configs", n)'
    <3>1. ASSUME NEW d \in Left PROVE d \notin exists
      <4>1. ASSUME d \in exists PROVE FALSE
        <5>1. <<d, d>> \in Disks!Protects /\ <<d, d>>[2] = d
          BY <4>1 DEF Disks!Protects, Left
        <5>2. d \in Disks!Protected
          BY <5>1 DEF Disks!Protected
        <5>. QED
          BY <5>2 DEF Disks!Orphans, Tracked, Left
      <4>. QED
        BY <4>1
    <3>. QED
      BY <1>1, <2>1, <3>1 DEF Meets, Left
  <2>. QED
    BY <1>1, <1>2, <2>1, <2>2, <2>3, CleanMoves DEF DiskTypes
<1>3. CASE Disks!Fail(r)
  BY <1>1, <1>3, CleanFails
<1>. QED
  BY <1>2, <1>3 DEF Disks!ReadInventory

\* The config of one VM; a protected volume is named by it or by one still to come.
LEMMA ReadConfigStep ==
  ASSUME DiskInv, NEW r \in Requests, Disks!ReadConfig(r)
  PROVE  DiskInv'
<1>. USE DEF DiskInv, Disks!Steady
<1>1. req[r] = "configs" /\ Disks!Cleaning(r) /\ run \in Disks!Run /\ config \in [DiskIds -> SUBSET DiskIds]
      /\ exists \subseteq DiskIds /\ UNCHANGED <<exists, config, running, pool, kept, orphans, deletion>>
  BY DEF Disks!ReadConfig, Disks!Cleaning, DiskTypes
<1>2. CASE Disks!Fail(r)
  BY <1>1, <1>2, CleanFails
<1>3. CASE \E v \in run.left \cap exists :
             /\ run' = [run EXCEPT !.refs = @ \cup config[v], !.left = @ \ {v}] /\ UNCHANGED <<req, flag>>
  <2>1. PICK v \in run.left \cap exists : run' = [run EXCEPT !.refs = @ \cup config[v], !.left = @ \ {v}]
                                          /\ UNCHANGED <<req, flag>>
    BY <1>3
  <2>2. PICK n \in Disks!Run : /\ run' = n /\ n.ids = run.ids /\ n.left = run.left \ {v}
                               /\ n.refs = run.refs \cup config[v]
    <3>. DEFINE half == [run EXCEPT !.refs = @ \cup config[v]]
    <3>1. half \in Disks!Run /\ half.ids = run.ids /\ half.left = run.left /\ half.refs = run.refs \cup config[v]
      BY <1>1 DEF Disks!Run
    <3>2. run' = [half EXCEPT !.left = @ \ {v}]
      BY <2>1
    <3>. HIDE DEF half
    <3>3. /\ run' \in Disks!Run /\ run'.ids = run.ids /\ run'.left = run.left \ {v}
          /\ run'.refs = run.refs \cup config[v]
      BY <1>1, <3>1, <3>2 DEF Disks!Run
    <3>. QED
      BY <3>3
  <2>3. ASSUME NEW p \in kept PROVE deletion'[p[2]] # "running" /\ Spares("configs", n, p)
    <3>1. /\ deletion[p[2]] # "running" /\ p[1] \in run.ids /\ (p[1] \in run.left \/ p[2] \in run.ids \cup run.refs)
      BY <1>1 DEF KeptSpared, Spares
    <3>2. p[1] = p[2] \/ p[2] \in config[p[1]]
      BY DEF Tracked, Disks!Protects
    <3>. QED
      BY <1>1, <2>2, <3>1, <3>2 DEF Spares
  <2>4. Meets("configs", n)'
    <3>1. ASSUME NEW d \in Left PROVE d \notin config[v]
      <4>1. ASSUME d \in config[v] PROVE FALSE
        <5>1. <<v, d>> \in Disks!Protects /\ <<v, d>>[2] = d
          BY <4>1 DEF Disks!Protects, Left
        <5>2. d \in Disks!Protected
          BY <5>1 DEF Disks!Protected
        <5>. QED
          BY <5>2 DEF Disks!Orphans, Tracked, Left
      <4>. QED
        BY <4>1
    <3>2. Left \cap (run.ids \cup run.refs) = {}
      BY <1>1 DEF OrphansMet, Meets
    <3>. QED
      BY <1>1, <2>2, <3>1, <3>2 DEF Meets, Left
  <2>5. req' = [req EXCEPT ![r] = "configs"] /\ flag' = flag
    BY <1>1, <2>1 DEF DiskTypes
  <2>6. deletion' \in [DiskIds -> {"none", "running", "ok", "watched", "missing", "failed"}]
    BY <1>1 DEF DiskTypes
  <2>7. run' = n
    BY <2>2
  <2>. QED
    BY <1>1, <2>3, <2>4, <2>5, <2>6, <2>7, CleanMoves
<1>. QED
  BY <1>2, <1>3 DEF Disks!ReadConfig

\* All configs are read: what they name is protected.
LEMMA ReadNodesStep ==
  ASSUME DiskInv, NEW r \in Requests, Disks!ReadNodes(r)
  PROVE  DiskInv'
<1>. USE DEF DiskInv, Disks!Steady
<1>1. req[r] = "configs" /\ run.left = {} /\ Disks!Cleaning(r) /\ run \in Disks!Run
      /\ UNCHANGED <<exists, config, running, pool, kept, orphans, deletion>>
  BY DEF Disks!ReadNodes, Disks!Cleaning, DiskTypes
<1>2. CASE Disks!Fail(r)
  BY <1>1, <1>2, CleanFails
<1>3. CASE run' = [run EXCEPT !.left = Nodes] /\ req' = [req EXCEPT ![r] = "content"] /\ flag' = flag
  <2>1. PICK n \in Disks!Run : run' = n /\ n.ids = run.ids /\ n.left = Nodes /\ n.refs = run.refs
    <3>1. /\ run' \in Disks!Run /\ run'.ids = run.ids /\ run'.left = Nodes /\ run'.refs = run.refs
      BY <1>1, <1>3 DEF Disks!Run
    <3>. QED
      BY <3>1
  <2>2. \A p \in kept : deletion'[p[2]] # "running" /\ Spares("content", n, p)
    BY <1>1, <2>1 DEF KeptSpared, Spares
  <2>3. Meets("content", n)'
    BY <1>1, <2>1 DEF OrphansMet, Meets, Left
  <2>. QED
    BY <1>1, <1>3, <2>1, <2>2, <2>3, CleanMoves DEF DiskTypes
<1>. QED
  BY <1>2, <1>3 DEF Disks!ReadNodes

\* The volumes a node reports
LEMMA ReadContentStep ==
  ASSUME DiskInv, NEW r \in Requests, Disks!ReadContent(r)
  PROVE  DiskInv'
<1>. USE DEF DiskInv, Disks!Steady
<1>1. req[r] = "content" /\ Disks!Cleaning(r) /\ run \in Disks!Run /\ pool \subseteq DiskIds
      /\ UNCHANGED <<exists, config, running, pool, kept, orphans, deletion, req, flag>>
  BY DEF Disks!ReadContent, Disks!Cleaning, DiskTypes
<1>2. PICK n \in Disks!Run : /\ run' = n /\ n.ids = run.ids /\ n.refs = run.refs
                             /\ n.errors \/ Left \subseteq n.found
  <2>1. PICK m \in run.left :
          \/ run' = [run EXCEPT !.found = @ \cup pool, !.left = @ \ {m}]
          \/ run' = [run EXCEPT !.errors = TRUE, !.left = @ \ {m}]
    BY DEF Disks!ReadContent
  <2>2. CASE run' = [run EXCEPT !.found = @ \cup pool, !.left = @ \ {m}]
    <3>. DEFINE half == [run EXCEPT !.found = @ \cup pool]
    <3>1. half \in Disks!Run /\ half.ids = run.ids /\ half.refs = run.refs /\ half.found = run.found \cup pool
      BY <1>1 DEF Disks!Run
    <3>2. run' = [half EXCEPT !.left = @ \ {m}]
      BY <2>2
    <3>. HIDE DEF half
    <3>3. run' \in Disks!Run /\ run'.ids = run.ids /\ run'.refs = run.refs /\ run'.found = run.found \cup pool
      BY <3>1, <3>2 DEF Disks!Run
    <3>. QED
      BY <3>3 DEF Left
  <2>3. CASE run' = [run EXCEPT !.errors = TRUE, !.left = @ \ {m}]
    <3>. DEFINE half == [run EXCEPT !.errors = TRUE]
    <3>1. half \in Disks!Run /\ half.ids = run.ids /\ half.refs = run.refs /\ half.errors
      BY <1>1 DEF Disks!Run
    <3>2. run' = [half EXCEPT !.left = @ \ {m}]
      BY <2>3
    <3>. HIDE DEF half
    <3>3. run' \in Disks!Run /\ run'.ids = run.ids /\ run'.refs = run.refs /\ run'.errors
      BY <3>1, <3>2 DEF Disks!Run
    <3>. QED
      BY <3>3
  <2>. QED
    BY <2>1, <2>2, <2>3
<1>3. \A p \in kept : deletion'[p[2]] # "running" /\ Spares("content", n, p)
  BY <1>1, <1>2 DEF KeptSpared, Spares
<1>4. Meets("content", n)'
  BY <1>1, <1>2 DEF OrphansMet, Meets, Left
<1>5. req' = [req EXCEPT ![r] = "content"] /\ flag' = flag
  BY <1>1 DEF DiskTypes
<1>. QED
  BY <1>1, <1>2, <1>3, <1>4, <1>5, CleanMoves DEF DiskTypes

\* The list is complete once every node has been asked: there is one.
LEMMA SelectStep ==
  ASSUME Nodes # {}, DiskInv, NEW r \in Requests, Disks!Select(r)
  PROVE  DiskInv'
<1>. USE DEF DiskInv, Disks!Steady
<1>1. req[r] = "content" /\ run.left = {} /\ Disks!Cleaning(r) /\ run \in Disks!Run
      /\ run' = [run EXCEPT !.found = (@ \ run.ids) \ run.refs] /\ req' = [req EXCEPT ![r] = "delete"]
      /\ UNCHANGED <<exists, config, running, pool, kept, orphans, deletion, flag>>
  BY DEF Disks!Select, Disks!Cleaning, DiskTypes
<1>2. PICK n \in Disks!Run : run' = n /\ n.found = (run.found \ run.ids) \ run.refs /\ n.errors = run.errors
  <2>1. run' \in Disks!Run /\ run'.found = (run.found \ run.ids) \ run.refs /\ run'.errors = run.errors
    BY <1>1 DEF Disks!Run
  <2>. QED
    BY <2>1
<1>3. \A p \in kept : deletion'[p[2]] # "running" /\ Spares("delete", n, p)
  BY <1>1, <1>2 DEF KeptSpared, Spares
<1>4. Meets("delete", n)'
  <2>1. Left \cap (run.ids \cup run.refs) = {} /\ (run.errors \/ Left \subseteq run.found)
    BY <1>1 DEF OrphansMet, Meets
  <2>. QED
    BY <1>1, <1>2, <2>1 DEF Meets, Left
<1>. QED
  BY <1>1, <1>2, <1>3, <1>4, CleanMoves DEF DiskTypes

\* The deletion of the next volume of the list is asked for, or refused.
LEMMA DeleteStep ==
  ASSUME DiskInv, NEW r \in Requests, Disks!Delete(r)
  PROVE  DiskInv'
<1>. USE DEF DiskInv, Disks!Steady
<1>1. req[r] = "delete" /\ Disks!Cleaning(r) /\ run \in Disks!Run
      /\ UNCHANGED <<exists, config, running, pool, kept, orphans, flag>>
  BY DEF Disks!Delete, Disks!Cleaning, DiskTypes
<1>2. PICK d \in run.found :
        \/ /\ deletion' = [deletion EXCEPT ![d] = "running"]
           /\ run' = [run EXCEPT !.found = @ \ {d}, !.current = d] /\ req' = [req EXCEPT ![r] = "poll"]
        \/ /\ run' = [run EXCEPT !.found = @ \ {d}, !.errors = TRUE] /\ UNCHANGED <<req, deletion>>
  BY DEF Disks!Delete
<1>3. PICK half \in Disks!Run : /\ half = [run EXCEPT !.found = @ \ {d}]
                                /\ half.found = run.found \ {d} /\ half.errors = run.errors
  <2>. DEFINE rest == [run EXCEPT !.found = @ \ {d}]
  <2>1. rest \in Disks!Run /\ rest.found = run.found \ {d} /\ rest.errors = run.errors
    BY <1>1 DEF Disks!Run
  <2>. QED
    BY <2>1
<1>4. CASE /\ deletion' = [deletion EXCEPT ![d] = "running"]
           /\ run' = [run EXCEPT !.found = @ \ {d}, !.current = d] /\ req' = [req EXCEPT ![r] = "poll"]
  <2>1. d \in DiskIds /\ run' = [half EXCEPT !.current = d]
    BY <1>1, <1>3, <1>4 DEF Disks!Run
  <2>2. PICK n \in Disks!Run : run' = n /\ n.found = run.found \ {d} /\ n.errors = run.errors /\ n.current = d
    <3>1. run' \in Disks!Run /\ run'.found = run.found \ {d} /\ run'.errors = run.errors /\ run'.current = d
      BY <1>3, <2>1 DEF Disks!Run
    <3>. QED
      BY <3>1
  <2>3. /\ deletion' \in [DiskIds -> {"none", "running", "ok", "watched", "missing", "failed"}]
        /\ deletion'[d] = "running" /\ \A e \in DiskIds \ {d} : deletion'[e] = deletion[e]
    BY <1>4, <2>1 DEF DiskTypes
  <2>4. ASSUME NEW p \in kept PROVE deletion'[p[2]] # "running" /\ Spares("poll", n, p)
    <3>1. deletion[p[2]] # "running" /\ p[2] \notin run.found /\ p[2] \in DiskIds
      BY <1>1 DEF KeptSpared, Spares, Tracked, Disks!Protects, DiskTypes
    <3>. QED
      BY <2>2, <2>3, <3>1 DEF Spares
  <2>5. Meets("poll", n)'
    BY <1>1, <2>1, <2>2, <2>3 DEF OrphansMet, Meets, Left
  <2>. QED
    BY <1>1, <1>4, <2>2, <2>3, <2>4, <2>5, CleanMoves
<1>5. CASE run' = [run EXCEPT !.found = @ \ {d}, !.errors = TRUE] /\ UNCHANGED <<req, deletion>>
  <2>1. run' = [half EXCEPT !.errors = TRUE]
    BY <1>3, <1>5
  <2>2. PICK n \in Disks!Run : run' = n /\ n.found = run.found \ {d} /\ n.errors
    <3>1. run' \in Disks!Run /\ run'.found = run.found \ {d} /\ run'.errors
      BY <1>3, <2>1 DEF Disks!Run
    <3>. QED
      BY <3>1
  <2>3. \A p \in kept : deletion'[p[2]] # "running" /\ Spares("delete", n, p)
    BY <1>1, <1>5, <2>2 DEF KeptSpared, Spares
  <2>4. Meets("delete", n)' /\ req' = [req EXCEPT ![r] = "delete"]
    BY <1>1, <1>5, <2>2 DEF Meets, DiskTypes
  <2>. QED
    BY <1>1, <1>5, <2>2, <2>3, <2>4, CleanMoves DEF DiskTypes
<1>. QED
  BY <1>2, <1>4, <1>5

\* The deletion has ended, or its outcome is unknown: an error.
LEMMA PollStep ==
  ASSUME DiskInv, NEW r \in Requests, Disks!Poll(r)
  PROVE  DiskInv'
<1>. USE DEF DiskInv, Disks!Steady
<1>1. req[r] = "poll" /\ Disks!Cleaning(r) /\ run \in Disks!Run /\ req' = [req EXCEPT ![r] = "delete"]
      /\ UNCHANGED <<exists, config, running, pool, kept, orphans, flag, deletion>>
  BY DEF Disks!Poll, Disks!Cleaning, DiskTypes
<1>2. PICK errors \in BOOLEAN :
        /\ run' = [run EXCEPT !.current = "none", !.errors = errors]
        /\ ~ errors => ~ run.errors /\ deletion[run.current] \notin {"running", "failed"}
  <2>1. run.errors \in BOOLEAN
    BY <1>1 DEF Disks!Run
  <2>2. \/ /\ deletion[run.current] # "running"
           /\ run' = [run EXCEPT !.current = "none", !.errors = @ \/ deletion[run.current] = "failed"]
        \/ run' = [run EXCEPT !.current = "none", !.errors = TRUE]
    BY DEF Disks!Poll
  <2>. QED
    BY <2>1, <2>2
<1>3. PICK n \in Disks!Run : run' = n /\ n.found = run.found /\ n.errors = errors
  <2>. DEFINE half == [run EXCEPT !.current = "none"]
  <2>1. half \in Disks!Run /\ half.found = run.found
    BY <1>1 DEF Disks!Run
  <2>2. run' = [half EXCEPT !.errors = errors]
    BY <1>2
  <2>. HIDE DEF half
  <2>3. run' \in Disks!Run /\ run'.found = run.found /\ run'.errors = errors
    BY <2>1, <2>2 DEF Disks!Run
  <2>. QED
    BY <2>3
<1>4. \A p \in kept : deletion'[p[2]] # "running" /\ Spares("delete", n, p)
  BY <1>1, <1>3 DEF KeptSpared, Spares
<1>5. Meets("delete", n)'
  <2>1. /\ deletion[run.current] \in {"running", "failed"} \/ run.current \notin Left
        /\ ~ run.errors => Left \subseteq run.found \cup {run.current}
    BY <1>1 DEF OrphansMet, Meets
  <2>. QED
    BY <1>1, <1>2, <1>3, <2>1 DEF Meets, Left
<1>. QED
  BY <1>1, <1>3, <1>4, <1>5, CleanMoves DEF DiskTypes

\* A poll that is not answered leaves everything as it is.
LEMMA PollHangsStep ==
  ASSUME DiskInv, NEW r \in Requests, Disks!PollHangs(r)
  PROVE  DiskInv'
<1>. USE DEF DiskInv, Disks!Steady
<1>1. /\ Disks!Cleaning(r) /\ run \in Disks!Run /\ run' = run /\ req' = [req EXCEPT ![r] = "unanswered"]
      /\ UNCHANGED <<exists, config, running, pool, kept, orphans, flag, deletion>>
  BY DEF Disks!PollHangs, Disks!Cleaning, DiskTypes
<1>2. \A p \in kept : deletion'[p[2]] # "running" /\ Spares("unanswered", run, p)
  BY <1>1 DEF KeptSpared, Spares
<1>3. Meets("unanswered", run)'
  BY DEF Meets
<1>4. deletion' \in [DiskIds -> {"none", "running", "ok", "watched", "missing", "failed"}]
  BY <1>1 DEF DiskTypes
<1>. QED
  BY <1>1, <1>2, <1>3, <1>4, CleanMoves

\* The list is empty.
LEMMA FinishStep ==
  ASSUME DiskInv, NEW r \in Requests, Disks!Finish(r)
  PROVE  DiskInv'
<1>. USE DEF DiskInv, Disks!Steady
<1>1. PICK pc \in {"complete", "incomplete"} : req' = [req EXCEPT ![r] = pc]
  BY DEF Disks!Finish
<1>2. /\ Disks!Cleaning(r) /\ run' = Disks!NoRun /\ flag' = FALSE
      /\ UNCHANGED <<exists, config, running, pool, kept, orphans, deletion>>
  BY DEF Disks!Finish, Disks!Cleaning
<1>3. Disks!NoRun \in Disks!Run
  BY DEF Disks!NoRun, Disks!Run
<1>4. \A p \in kept : deletion'[p[2]] # "running" /\ Spares(pc, Disks!NoRun, p)
  BY <1>2 DEF KeptSpared, Spares
<1>5. Meets(pc, Disks!NoRun)'
  BY DEF Meets
<1>6. deletion' \in [DiskIds -> {"none", "running", "ok", "watched", "missing", "failed"}]
  BY <1>2 DEF DiskTypes
<1>7. CASE pc = "complete"
  BY <1>1, <1>2, <1>3, <1>4, <1>5, <1>6, <1>7, CleanMoves
<1>8. CASE pc = "incomplete"
  BY <1>1, <1>2, <1>3, <1>4, <1>5, <1>6, <1>8, CleanMoves
<1>. QED
  BY <1>7, <1>8

\* No clean-up runs at first.
LEMMA DiskInit == Disks!Init => DiskInv
<1>. SUFFICES ASSUME Disks!Init PROVE DiskInv
  OBVIOUS
<1>1. DiskTypes
  BY DEF Disks!Init, DiskTypes, Disks!Pc, Disks!Run, Disks!NoRun
<1>2. OneCleanup /\ Tracked /\ KeptSpared /\ OrphansMet
  BY DEF Disks!Init, OneCleanup, Tracked, KeptSpared, Spares, OrphansMet, Meets, Disks!Cleaning
<1>. QED
  BY <1>1, <1>2 DEF DiskInv

\* Every step of the labs and of the clean-ups
LEMMA DiskStep ==
  ASSUME Nodes # {}, DiskInv, Disks!Next
  PROVE  DiskInv'
BY LabSteps, DeletionEnds, BeginStep, ReadInventoryStep, ReadConfigStep, ReadNodesStep, ReadContentStep,
   SelectStep, DeleteStep, PollStep, PollHangsStep, FinishStep DEF Disks!Next, Disks!CleanNext
\* Steps of the others
LEMMA DiskStays ==
  ASSUME DiskInv, UNCHANGED diskVars
  PROVE  DiskInv'
BY DEF DiskInv, diskVars, DiskTypes, OneCleanup, Tracked, KeptSpared, Spares, OrphansMet, Meets, Left,
   Disks!Cleaning, Disks!Protects, Disks!Orphans, Disks!Protected, Disks!Watched

\* What the invariant shows
LEMMA DiskShows ==
  ASSUME DiskInv
  PROVE  Disks!TypeOK
<1>. DEFINE cleaning == {r \in Requests : Disks!Cleaning(r)}
<1>1. Cardinality(cleaning) <= 1
  <2>1. CASE cleaning = {}
    <3>. HIDE DEF cleaning
    <3>1. Cardinality(cleaning) = 0
      BY <2>1, FS_EmptySet
    <3>. QED
      BY <3>1
  <2>2. CASE cleaning # {}
    <3>1. PICK r \in cleaning : cleaning = {r}
      BY <2>2 DEF DiskInv, OneCleanup
    <3>. HIDE DEF cleaning
    <3>2. Cardinality({r}) = 1
      BY FS_Singleton
    <3>. QED
      BY <3>1, <3>2
  <2>. QED
    BY <2>1, <2>2
<1>2. Disks!Cardinality(cleaning) = Cardinality(cleaning)
  BY DEF Cardinality, Disks!Cardinality
<1>3. flag = (\E r \in Requests : Disks!Cleaning(r))
  BY DEF DiskInv, DiskTypes, OneCleanup
<1>4. Disks!Cardinality({r \in Requests : Disks!Cleaning(r)}) <= 1
  BY <1>1, <1>2
<1>. QED
  BY <1>3, <1>4 DEF DiskInv, DiskTypes, Disks!TypeOK

\* No step deletes a volume that has been protected since the clean-up began.
LEMMA KeptStep ==
  ASSUME DiskInv, NEW p \in kept
  PROVE  ~ (deletion[p[2]] = "running" /\ deletion'[p[2]] = "ok")
BY DEF DiskInv, KeptSpared

\* A clean-up completes with an empty list and without an error: no orphan is left.
LEMMA CompleteStep ==
  ASSUME DiskInv, Disks!Next, NEW r \in Requests, req'[r] = "complete", req[r] # "complete"
  PROVE  orphans \cap pool = {}
<1>. USE DEF DiskInv, DiskTypes
<1>1. ASSUME NEW s \in Requests, Disks!Finish(s) PROVE orphans \cap pool = {}
  <2>1. CASE s = r
    <3>1. req[r] = "delete" /\ run.found = {} /\ ~ run.errors
      BY <1>1, <2>1 DEF Disks!Finish
    <3>. QED
      BY <3>1 DEF OrphansMet, Meets, Left
  <2>2. CASE s # r
    BY <1>1, <2>2 DEF Disks!Finish
  <2>. QED
    BY <2>1, <2>2
<1>2. ASSUME NEW s \in Requests, Disks!Begin(s) PROVE FALSE
  BY <1>2 DEF Disks!Begin
<1>3. ASSUME NEW s \in Requests, Disks!ReadInventory(s) \/ Disks!ReadConfig(s) \/ Disks!ReadNodes(s)
                                  \/ Disks!ReadContent(s)
      PROVE  FALSE
  BY <1>3 DEF Disks!ReadInventory, Disks!ReadConfig, Disks!ReadNodes, Disks!ReadContent, Disks!Fail
<1>4. ASSUME NEW s \in Requests, Disks!Select(s) \/ Disks!Delete(s) \/ Disks!Poll(s) \/ Disks!PollHangs(s)
      PROVE  FALSE
  BY <1>4 DEF Disks!Select, Disks!Delete, Disks!Poll, Disks!PollHangs
<1>5. ASSUME NEW v \in DiskIds, Disks!CreateVm(v) \/ Disks!AddVolume(v) \/ Disks!StartVm(v)
                                 \/ Disks!DestroyVm(v) \/ Disks!TaskEnds(v)
      PROVE  FALSE
  BY <1>5 DEF Disks!CreateVm, Disks!AddVolume, Disks!StartVm, Disks!DestroyVm, Disks!TaskEnds, Disks!Op
<1>. QED
  BY <1>1, <1>2, <1>3, <1>4, <1>5 DEF Disks!Next, Disks!CleanNext

\* The buttons of one VM are one case of the actions ...
LEMMA ButtonsAct ==
  /\ Buttons!Init <=> Act(OneVm, {"create", "restore", "reset"}, {"stopped"}, 1, 2)!Init
  /\ Buttons!Next <=> Act(OneVm, {"create", "restore", "reset"}, {"stopped"}, 1, 2)!Next
  /\ Buttons!TypeOK <=> Act(OneVm, {"create", "restore", "reset"}, {"stopped"}, 1, 2)!TypeOK
  /\ Buttons!SuccessIsDone <=> Act(OneVm, {"create", "restore", "reset"}, {"stopped"}, 1, 2)!SuccessIsDone
  /\ Buttons!SnapshotMeetsNoBulk <=> Act(OneVm, {"create", "restore", "reset"}, {"stopped"}, 1, 2)!SnapshotMeetsNoBulk
  /\ Buttons!BulkIsComplete <=> Act(OneVm, {"create", "restore", "reset"}, {"stopped"}, 1, 2)!BulkIsComplete
BY DEF Buttons!Snapshot, Buttons!Kinds, Buttons!CallIds, Buttons!Ids, Buttons!Vm, Buttons!NoTask,
   Buttons!Result, Buttons!NoBulk, Buttons!Call, Buttons!Rest, Buttons!UnderWay, Buttons!TypeOK,
   Buttons!Available, Buttons!Operating, Buttons!Refresh, Buttons!StartBulk, Buttons!TakeNext,
   Buttons!EndBulk, Buttons!StartSingle, Buttons!Confirm, Buttons!End, Buttons!Goto,
   Buttons!ChecksBusy, Buttons!CheckStatus, Buttons!CheckVm, Buttons!Fault, Buttons!Request,
   Buttons!Verdict, Buttons!Poll, Buttons!GiveUp, Buttons!Lost, Buttons!TaskEnds, Buttons!LabBegins,
   Buttons!LabActs, Buttons!LabEnds, Buttons!Init, Buttons!CallNext, Buttons!BrowserNext,
   Buttons!Next, Buttons!SuccessIsDone, Buttons!SnapshotMeetsNoBulk, Buttons!BulkIsComplete,
   Buttons!Cardinality, Act!Snapshot, Act!Kinds, Act!CallIds, Act!Ids, Act!Vm, Act!NoTask,
   Act!Result, Act!NoBulk, Act!Call, Act!Rest, Act!UnderWay, Act!TypeOK, Act!Available,
   Act!Operating, Act!Refresh, Act!StartBulk, Act!TakeNext, Act!EndBulk, Act!StartSingle,
   Act!Confirm, Act!End, Act!Goto, Act!ChecksBusy, Act!CheckStatus, Act!CheckVm, Act!Fault,
   Act!Request, Act!Verdict, Act!Poll, Act!GiveUp, Act!Lost, Act!TaskEnds, Act!LabBegins,
   Act!LabActs, Act!LabEnds, Act!Init, Act!CallNext, Act!BrowserNext, Act!Next, Act!SuccessIsDone,
   Act!SnapshotMeetsNoBulk, Act!BulkIsComplete, Act!Cardinality

\* ... and bulk actions another.
LEMMA BulkAct ==
  /\ Bulk!Init <=> Act(SeveralVms, {"create"}, {"absent"}, 1, 1)!Init
  /\ Bulk!Next <=> Act(SeveralVms, {"create"}, {"absent"}, 1, 1)!Next
  /\ Bulk!TypeOK <=> Act(SeveralVms, {"create"}, {"absent"}, 1, 1)!TypeOK
  /\ Bulk!SuccessIsDone <=> Act(SeveralVms, {"create"}, {"absent"}, 1, 1)!SuccessIsDone
  /\ Bulk!SnapshotMeetsNoBulk <=> Act(SeveralVms, {"create"}, {"absent"}, 1, 1)!SnapshotMeetsNoBulk
  /\ Bulk!BulkIsComplete <=> Act(SeveralVms, {"create"}, {"absent"}, 1, 1)!BulkIsComplete
BY DEF Bulk!Snapshot, Bulk!Kinds, Bulk!CallIds, Bulk!Ids, Bulk!Vm, Bulk!NoTask, Bulk!Result,
   Bulk!NoBulk, Bulk!Call, Bulk!Rest, Bulk!UnderWay, Bulk!TypeOK, Bulk!Available, Bulk!Operating,
   Bulk!Refresh, Bulk!StartBulk, Bulk!TakeNext, Bulk!EndBulk, Bulk!StartSingle, Bulk!Confirm,
   Bulk!End, Bulk!Goto, Bulk!ChecksBusy, Bulk!CheckStatus, Bulk!CheckVm, Bulk!Fault, Bulk!Request,
   Bulk!Verdict, Bulk!Poll, Bulk!GiveUp, Bulk!Lost, Bulk!TaskEnds, Bulk!LabBegins, Bulk!LabActs,
   Bulk!LabEnds, Bulk!Init, Bulk!CallNext, Bulk!BrowserNext, Bulk!Next, Bulk!SuccessIsDone,
   Bulk!SnapshotMeetsNoBulk, Bulk!BulkIsComplete, Bulk!Cardinality, Act!Snapshot, Act!Kinds, Act!CallIds,
   Act!Ids, Act!Vm, Act!NoTask, Act!Result, Act!NoBulk, Act!Call, Act!Rest, Act!UnderWay,
   Act!TypeOK, Act!Available, Act!Operating, Act!Refresh, Act!StartBulk, Act!TakeNext, Act!EndBulk,
   Act!StartSingle, Act!Confirm, Act!End, Act!Goto, Act!ChecksBusy, Act!CheckStatus, Act!CheckVm,
   Act!Fault, Act!Request, Act!Verdict, Act!Poll, Act!GiveUp, Act!Lost, Act!TaskEnds, Act!LabBegins,
   Act!LabActs, Act!LabEnds, Act!Init, Act!CallNext, Act!BrowserNext, Act!Next, Act!SuccessIsDone,
   Act!SnapshotMeetsNoBulk, Act!BulkIsComplete, Act!Cardinality

---------------------------------------------------------------------------
(* The pages together: each step moves one part and leaves the others *)

PageInv ==
  /\ EditorInv /\ DiskInv
  /\ IF part = "bulk" THEN ActInv(SeveralVms, {"create"}, 1)
                      ELSE ActInv(OneVm, {"create", "restore", "reset"}, 2)

\* The parts start as their own lemmas say.
LEMMA PageInit ==
  PartInit => PageInv
<1>. SUFFICES ASSUME PartInit PROVE PageInv
  OBVIOUS
<1>1. CASE part = "bulk"
  <2>1. ActInv(SeveralVms, {"create"}, 1)
    BY <1>1, BulkAct, ActInit DEF PartInit
  <2>. QED
    BY <1>1, <2>1, EditorInit, DiskInit DEF PartInit, PageInv
<1>2. CASE part # "bulk"
  <2>1. ActInv(OneVm, {"create", "restore", "reset"}, 2)
    BY <1>2, ButtonsAct, ActInit DEF PartInit
  <2>. QED
    BY <1>2, <2>1, EditorInit, DiskInit DEF PartInit, PageInv
<1>. QED
  BY <1>1, <1>2

\* Nothing of the actions moves.
LEMMA ActUnchanged ==
  ASSUME NEW V, NEW A, NEW T, ActInv(V, A, T), UNCHANGED vmVars
  PROVE  ActInv(V, A, T)'
BY ActStays DEF ActInv, ActTypes, vmVars

\* A step of one part is a stutter of the others.
LEMMA PageStep ==
  ASSUME PageInv, [PartNext]_allVars
  PROVE  PageInv'
<1>1. part' = part /\ [Next]_vars
  BY DEF PartNext, allVars
<1>2. EditorInv'
  BY <1>1, EditorStep DEF PageInv
<1>3. DiskInv'
  <2>1. Disks!Next \/ UNCHANGED diskVars
    BY DEF PartNext, allVars
  <2>. QED
    BY <2>1, DiskStep, DiskStays, NodesAssumption DEF PageInv
<1>4. CASE part = "bulk"
  <2>1. Bulk!Next \/ UNCHANGED vmVars
    BY <1>4 DEF PartNext, allVars
  <2>2. ActInv(SeveralVms, {"create"}, 1)'
    BY <1>4, <2>1, BulkAct, ActStep, ActUnchanged DEF PageInv
  <2>. QED
    BY <1>1, <1>2, <1>3, <1>4, <2>2 DEF PageInv
<1>5. CASE part # "bulk"
  <2>1. Buttons!Next \/ UNCHANGED vmVars
    BY <1>5 DEF PartNext, allVars
  <2>2. ActInv(OneVm, {"create", "restore", "reset"}, 2)'
    BY <1>5, <2>1, ButtonsAct, ActStep, ActUnchanged DEF PageInv
  <2>. QED
    BY <1>1, <1>2, <1>3, <1>5, <2>2 DEF PageInv
<1>. QED
  BY <1>4, <1>5

\* The invariant of the pages
LEMMA PagesHold == PartSpec => []PageInv
BY PageInit, PageStep, PTL DEF PartSpec

---------------------------------------------------------------------------
(* What is proved of the pages *)

\* The types of the three parts; while the request of a browser's snapshot button
\* is under way its bulk action is not at that VM (app.js:1724-1729, 1520), and a
\* bulk action ends with nothing waiting or under way (app.js:1587-1616).
THEOREM PagesTyped == PartSpec => []PartsInvariant
<1>1. PageInv => PartsInvariant
  <2>. SUFFICES ASSUME PageInv PROVE PartsInvariant
    OBVIOUS
  <2>1. TypeOK /\ Disks!TypeOK
    BY DiskShows DEF PageInv, EditorInv
  <2>2. CASE part = "bulk"
    BY <2>1, <2>2, BulkAct, ActShows DEF PageInv, PartsInvariant, PartsTypeOK
  <2>3. CASE part # "bulk"
    BY <2>1, <2>3, ButtonsAct, ActShows DEF PageInv, PartsInvariant, PartsTypeOK
  <2>. QED
    BY <2>2, <2>3
<1>. QED
  BY <1>1, PagesHold, PTL

\* An edit is stored only in the blueprint it was made on, and none is lost but
\* by the user's choice or while a load or save was under way.
THEOREM EditsSafe == PartSpec => []EditsAreSafe
<1>1. PageInv => EditsAreSafe
  BY DEF PageInv, EditorInv, EditsAreSafe, EditsStayHome, AllHome, Home
<1>. QED
  BY <1>1, PagesHold, PTL

\* A browser reports success only of its own task, ended with status OK.
THEOREM SuccessReal == PartSpec => []SuccessIsDone
<1>1. PageInv => SuccessIsDone
  <2>. SUFFICES ASSUME PageInv PROVE SuccessIsDone
    OBVIOUS
  <2>1. CASE part = "bulk"
    BY <2>1, BulkAct, ActShows DEF PageInv, SuccessIsDone
  <2>2. CASE part # "bulk"
    BY <2>2, ButtonsAct, ActShows DEF PageInv, SuccessIsDone
  <2>. QED
    BY <2>1, <2>2
<1>. QED
  BY <1>1, PagesHold, PTL

\* A clean-up of orphaned disks deletes no volume that was protected since it
\* began, and leaves no orphan when it reports itself complete.
THEOREM CleanupExact == PartSpec => CleanupIsExact
<1>1. PageInv /\ [PartNext]_allVars =>
        [\A p \in kept : ~ (deletion[p[2]] = "running" /\ deletion'[p[2]] = "ok")]_(Disks!vars)
  BY KeptStep DEF PageInv
<1>2. PageInv /\ [PartNext]_allVars =>
        [\A r \in Requests : req'[r] = "complete" /\ req[r] # "complete"
                              => orphans \cap pool = {}]_(Disks!vars)
  <2>. SUFFICES ASSUME PageInv, [PartNext]_allVars, Disks!vars' # Disks!vars,
                       NEW r \in Requests, req'[r] = "complete", req[r] # "complete"
                PROVE  orphans \cap pool = {}
    OBVIOUS
  <2>1. Disks!Next
    BY DEF PartNext, allVars, diskVars, Disks!vars
  <2>. QED
    BY <2>1, CompleteStep DEF PageInv
<1>. QED
  BY <1>1, <1>2, PagesHold, PTL DEF PartSpec, CleanupIsExact, Disks!KeptVolumes, Disks!CompleteIsTrue
===========================================================================
