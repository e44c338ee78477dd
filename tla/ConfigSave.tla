----------------------------- MODULE ConfigSave -----------------------------
(***************************************************************************)
(* Saving config.toml (src/web/config_write.rs) from the pages of the      *)
(* console (src/web/routes/config.rs) and from the editor on the terminal  *)
(* (src/cli/handlers/config.rs).                                           *)
(*                                                                         *)
(* A save reads the file, applies one change to it, lets a doctor process  *)
(* judge the new text, rotates the kept generations and replaces the file. *)
(* Nothing is locked: saves of several requests and processes, and a hand  *)
(* edit, interleave at every step, and a save may die at any of them.      *)
(* A page posts every field of a profile as it shows it, whatever the file *)
(* has become meanwhile; the editor on a terminal posts what was edited.   *)
(***************************************************************************)
EXTENDS Integers, FiniteSets

CONSTANTS
    Profiles,    \* names of profiles
    Keys,        \* the keys of a profile
    Uris,        \* those of Keys whose field is never filled in (FieldKind::Uri)
    Sources,     \* those of Keys of which a new profile needs one
    Settings,    \* what a key may say
    Savers,      \* the requests, and the editors on a terminal
    Terminal,    \* those of Savers that are editors on a terminal
    Generations, \* BACKUP_GENERATIONS
    MaxOpens,    \* bound: the pages and editors that are opened
    MaxEditions, \* bound: the saves that are begun
    MaxHandEdits \* bound: the edits by hand

\* The item that stands for the section of a profile.
Section == "section"

ASSUME SaveAssumption ==
    /\ Terminal \subseteq Savers /\ Uris \subseteq Keys /\ Section \notin Keys
    /\ Settings \subseteq Nat \ {0}
    /\ Generations \in Nat \ {0} /\ MaxOpens \in Nat
    /\ MaxEditions \in Nat /\ MaxHandEdits \in Nat

VARIABLES
    config,    \* config.toml
    bak,       \* config.toml.bak.<generation>
    saver,     \* per saver, its save
    shown,     \* per saver, the file its page or editor was loaded from
    older,     \* history: per saver and profile, the items that changed since then
    intended,  \* history: what the last changes that somebody meant made of the file
    putBack,   \* history: per profile, the items an older page has put back since
    replaced,  \* history: the version the last save replaced
    aborted,   \* history: the rotations without a save since then
    together,  \* history: two saves were between reading and replacing at once
    editions   \* counters for the bounds

saveVars == <<config, bak, saver, shown, older, intended, putBack, replaced, aborted, together, editions>>

\* What an item says if it is not there, what the section of a profile says, and
\* what a change says of an item it leaves alone.
Missing == 0
Here == 1
Keep == -1

\* What the field of a form may say instead of a setting: it is empty, its address
\* is to be cleared, it is not in the form at all.
Blank == -2
Clear == -3
NotThere == -4

Sayable == Settings \cup {Missing, Here}

\* A profile: its section, and the keys that are written in it.
Items == Keys \cup {Section}

Sayings == [Profiles -> [Items -> Sayable]]

\* A text: its syntax, and what it says of each profile.
Texts == [syntax : {"v1", "v2", "mixed"}, says : Sayings]

NoText == [syntax |-> "none", says |-> [p \in Profiles |-> [k \in Items |-> Missing]]]

Torn == [NoText EXCEPT !.syntax = "torn"]

\* A change of one profile: what it makes of each item, which of them somebody
\* meant, and the syntax of the document it was made for; or the conversion of a
\* whole text.
NoChange == [op |-> "none"]

Change(op, p, to, meant, syntax) ==
    [op |-> op, profile |-> p, to |-> to, meant |-> meant, syntax |-> syntax]

Conversion(text) == [op |-> "convert", from |-> text]

NoSave(change) == [at |-> "idle", change |-> change, text |-> NoText, gen |-> 0]

\* The changes of a profile and of the whole text, and a save that makes one.
Changes == [op : {"create", "update", "delete"}, profile : Profiles,
            to : [Items -> Sayable \cup {Keep}], meant : SUBSET Items, syntax : {"v1", "v2"}]
           \cup [op : {"convert"}, from : Texts]

Saves == [at : {"idle", "gate", "read", "doctor", "oldest", "shift", "copying", "replace"},
          change : Changes \cup {NoChange}, text : Texts \cup {NoText}, gen : 0..Generations]

SaveTypeOK ==
    /\ config \in Texts
    /\ bak \in [1..Generations -> Texts \cup {NoText, Torn}]
    /\ saver \in [Savers -> Saves]
    /\ \A s \in Savers : /\ saver[s].at # "idle" => saver[s].change \in Changes
                         /\ saver[s].at \notin {"idle", "gate", "read"} => saver[s].text \in Texts
    /\ shown \in [Savers -> Texts \cup {NoText}]
    /\ older \in [Savers -> [Profiles -> SUBSET Items]]
    /\ intended \in Sayings
    /\ putBack \in [Profiles -> SUBSET Items]
    /\ replaced \in Texts \cup {NoText}
    /\ aborted \in Nat
    /\ together \in BOOLEAN

SaveInit ==
    /\ \E p \in Profiles, said \in [Keys -> Settings], x \in {"v1", "v2"} :
           config = [syntax |-> x,
                     says   |-> [q \in Profiles |-> [k \in Items |->
                                    IF q # p THEN Missing ELSE IF k = Section THEN Here ELSE said[k]]]]
    /\ bak = [g \in 1..Generations |-> NoText]
    /\ saver = [s \in Savers |-> NoSave(NoChange)]
    /\ shown = [s \in Savers |-> NoText]
    /\ older = [s \in Savers |-> [p \in Profiles |-> {}]]
    /\ intended = config.says
    /\ putBack = [p \in Profiles |-> {}]
    /\ replaced = NoText
    /\ aborted = 0
    /\ together = FALSE
    /\ editions = [opens |-> 0, saves |-> 0, hand |-> 0]

--------------------------------------------------------------------------------
(* The pages and the editor.                                               *)

\* edit_form shows a profile and convert_form the conversion of the file, as it is;
\* the editor on the terminal loads the file when it starts and after its saves.
OpenEditor(s) ==
    /\ saver[s].at = "idle" /\ shown[s] # config
    /\ editions.opens < MaxOpens
    /\ editions' = [editions EXCEPT !.opens = @ + 1]
    /\ shown' = [shown EXCEPT ![s] = config]
    /\ older' = [older EXCEPT ![s] = [p \in Profiles |-> {}]]
    /\ UNCHANGED <<config, bak, saver, intended, putBack, replaced, aborted, together>>

\* What a change is made for: the file as the request finds it, or as the editor
\* loaded it.
Document(s) == IF s \in Terminal THEN shown[s] ELSE config

\* save, delete_submit and the list of the editor, which does not delete.
Allowed(s, op, p) ==
    /\ Document(s).syntax \in {"v1", "v2"}
    /\ (op = "create") <=> (Document(s).says[p][Section] = Missing)
    /\ s \in Terminal => op # "delete"

\* prefill: a page is opened with every key that is written in the profile, but for
\* addresses; the form of the editor has a field only for what was edited.
Filled(s, op, p) ==
    [k \in Keys |-> IF s \in Terminal THEN NotThere
                    ELSE IF op = "create" \/ k \in Uris \/ shown[s].says[p][k] = Missing THEN Blank
                    ELSE shown[s].says[p][k]]

\* What somebody may enter in the field of a key.
Answers(k) == Settings \cup {IF k \in Uris THEN Clear ELSE Blank}

\* The forms that can be posted for a profile.
PostableForms(s, op, p) ==
    {form \in [Keys -> Settings \cup {Blank, Clear, NotThere}] :
        \A k \in Keys : form[k] = Filled(s, op, p)[k] \/ form[k] \in Answers(k)}

\* Bug: a field that is not in the form is taken for an empty one.
FieldOrEmpty(k, field, said) ==
    CASE field \in {NotThere, Blank} -> IF k \in Uris \/ said = Missing THEN Keep ELSE Missing
      [] field = Clear              -> Missing
      [] OTHER                      -> IF field = said THEN Keep ELSE field

\* build_change: what a field makes of a key that says so much in the document.
FieldChange(k, field, said) ==
    CASE field = NotThere -> Keep
      [] field = Blank  -> IF k \in Uris \/ said = Missing THEN Keep ELSE Missing
      [] field = Clear  -> Missing
      [] OTHER          -> IF field = said THEN Keep ELSE field

FormChange(s, op, p, form) ==
    Change(op, p,
           [k \in Items |->
               IF k \in Keys
               THEN FieldChange(k, form[k], IF op = "create" THEN Missing ELSE Document(s).says[p][k])
               ELSE IF op = "create" THEN Here ELSE Keep],
           {k \in Items : k \in Keys => form[k] # Filled(s, op, p)[k]},
           Document(s).syntax)

Deletion(s, p) ==
    Change("delete", p, [k \in Items |-> Missing], Items, Document(s).syntax)

Submit(s, change, at) ==
    /\ saver[s].at = "idle"
    /\ editions.saves < MaxEditions
    /\ editions' = [editions EXCEPT !.saves = @ + 1]
    /\ saver' = [saver EXCEPT ![s] = [NoSave(change) EXCEPT !.at = at]]
    /\ UNCHANGED <<config, bak, shown, older, intended, putBack, replaced, aborted, together>>

\* save and start_save: the page is not compared with the file.  A change that
\* changes nothing is not saved.
SubmitForm(s, op, p, form) ==
    LET change == FormChange(s, op, p, form) IN
    /\ saver[s].at = "idle"
    /\ Allowed(s, op, p)
    /\ op = "update" => shown[s] # NoText /\ shown[s].says[p][Section] # Missing
    /\ \E k \in Items : change.to[k] # Keep
    /\ op = "create" => \E k \in Sources : change.to[k] \in Settings
    /\ Submit(s, change, IF s \in Terminal THEN "read" ELSE "gate")

\* delete_submit.
SubmitDelete(s, p) == Allowed(s, "delete", p) /\ Submit(s, Deletion(s, p), "gate")

\* convert_submit: the fingerprint of the page must be that of the file.
SubmitConversion(s) ==
    /\ s \notin Terminal
    /\ config.syntax = "v1" /\ shown[s] = config
    /\ Submit(s, Conversion(config), "gate")

SaverTo(s, at) == saver' = [saver EXCEPT ![s].at = at]

\* The gate of the audit log, awaited.
AuditSave(s) ==
    /\ saver[s].at = "gate"
    /\ SaverTo(s, "read") \/ saver' = [saver EXCEPT ![s] = NoSave(NoChange)]
    /\ UNCHANGED <<config, bak, shown, older, intended, putBack, replaced, aborted, together, editions>>

--------------------------------------------------------------------------------
(* The store.                                                              *)

\* apply_change_v1, apply_change_v2: what a change does not name is left alone.
Applied(says, change) ==
    [says EXCEPT ![change.profile] =
        [k \in Items |-> IF change.to[k] = Keep THEN @[k] ELSE change.to[k]]]

\* apply_change_to_table: a change made for the other syntax opens the section
\* of its own beside the one that is there.
Home(change) == IF change.syntax = config.syntax THEN config.says ELSE NoText.says

Edited(change) ==
    IF change.syntax = config.syntax THEN [config EXCEPT !.says = Applied(config.says, change)]
    ELSE [config EXCEPT !.syntax = "mixed"]

\* check_existence_precondition.
Exists(change) ==
    CASE change.op = "create" -> Home(change)[change.profile][Section] = Missing
      [] change.op = "update" -> Home(change)[change.profile][Section] # Missing
      [] OTHER -> TRUE

\* convert_to_v2: the file is still the one the plan was made from.
DigestMatches(change) == change.from = config

InWindow(s) == saver[s].at \notin {"idle", "gate", "read"}

Opens(s) == together' = (together \/ \E t \in Savers \ {s} : InWindow(t))

\* render, or the check of the digest: the file is read.
ReadFile(s) ==
    LET change == saver[s].change
        ok     == IF change.op = "convert" THEN DigestMatches(change) ELSE Exists(change)
        text   == IF change.op = "convert" THEN [change.from EXCEPT !.syntax = "v2"]
                  ELSE Edited(change)
    IN  /\ saver[s].at = "read"
        /\ IF ok THEN /\ saver' = [saver EXCEPT ![s].at = "doctor", ![s].text = text]
                      /\ Opens(s)
           ELSE saver' = [saver EXCEPT ![s] = NoSave(NoChange)] /\ UNCHANGED together
        /\ UNCHANGED <<config, bak, shown, older, intended, putBack, replaced, aborted, editions>>

\* validate_with_doctor: passed, perhaps with warnings, or refused, timed out or
\* not started.  A text in two syntaxes is always refused.
Doctor(s) ==
    /\ saver[s].at = "doctor"
    /\ \/ saver[s].text.syntax # "mixed" /\ SaverTo(s, "oldest")
       \/ saver' = [saver EXCEPT ![s] = NoSave(NoChange)]
    /\ UNCHANGED <<config, bak, shown, older, intended, putBack, replaced, aborted, together, editions>>

\* Bug: no generation is moved up before the copy.
NoneShifted == 0

\* rotate_backups: the oldest generation is removed ...
TopShifted == Generations - 1

RemoveOldest(s) ==
    /\ saver[s].at = "oldest"
    /\ bak' = [bak EXCEPT ![Generations] = NoText]
    /\ saver' = [saver EXCEPT ![s].at = "shift", ![s].gen = TopShifted]
    /\ UNCHANGED <<config, shown, older, intended, putBack, replaced, aborted, together, editions>>

\* ... the others move up one by one ...
Shift(s) ==
    LET g == saver[s].gen IN
    /\ saver[s].at = "shift" /\ g > 0
    /\ bak' = IF bak[g] = NoText THEN bak
              ELSE [bak EXCEPT ![g + 1] = bak[g], ![g] = NoText]
    /\ saver' = [saver EXCEPT ![s].gen = g - 1]
    /\ UNCHANGED <<config, shown, older, intended, putBack, replaced, aborted, together, editions>>

\* ... and the file is copied to the first one.
BeginBackup(s) ==
    /\ saver[s].at = "shift" /\ saver[s].gen = 0
    /\ bak' = [bak EXCEPT ![1] = Torn]
    /\ SaverTo(s, "copying")
    /\ UNCHANGED <<config, shown, older, intended, putBack, replaced, aborted, together, editions>>

EndBackup(s) ==
    /\ saver[s].at = "copying"
    /\ bak' = [bak EXCEPT ![1] = config]
    /\ SaverTo(s, "replace")
    /\ UNCHANGED <<config, shown, older, intended, putBack, replaced, aborted, together, editions>>

\* The items of a profile on which two texts differ.
Differing(text, other, p) == {k \in Items : text.says[p][k] # other.says[p][k]}

\* The items that a change writes, because somebody meant it or not.
Meant(change) == {k \in change.meant : change.to[k] # Keep}
NotMeant(change) == {k \in Items \ change.meant : change.to[k] # Keep}

MeantValues(says, change) ==
    [says EXCEPT ![change.profile] =
        [k \in Items |-> IF k \in Meant(change) THEN change.to[k] ELSE @[k]]]

\* write_atomic; the page reports the save, and the editor loads the file again.
ReplaceFile(s) ==
    LET change == saver[s].change
        text   == saver[s].text
    IN
    /\ saver[s].at = "replace"
    /\ config' = text
    /\ IF change.op = "convert" THEN UNCHANGED <<intended, putBack>>
       ELSE /\ intended' = MeantValues(intended, change)
            /\ putBack' = [putBack EXCEPT ![change.profile] =
                               (@ \ Meant(change)) \cup (NotMeant(change) \cap older[s][change.profile])]
    /\ replaced' = config
    /\ aborted' = 0
    /\ shown' = IF s \in Terminal THEN [shown EXCEPT ![s] = text] ELSE shown
    /\ older' = [t \in Savers |-> [p \in Profiles |->
                    IF t = s /\ s \in Terminal THEN {} ELSE older[t][p] \cup Differing(text, config, p)]]
    /\ saver' = [saver EXCEPT ![s] = NoSave(NoChange)]
    /\ UNCHANGED <<bak, together, editions>>

\* A step of the rotation or of the replacement fails, or the process dies.
SaveFails(s) ==
    /\ saver[s].at \in {"oldest", "shift", "copying", "replace"}
    /\ aborted' = aborted + 1
    /\ saver' = [saver EXCEPT ![s] = NoSave(NoChange)]
    /\ UNCHANGED <<config, bak, shown, older, intended, putBack, replaced, together, editions>>

\* Somebody saves the file with an editor of their own.
HandEdit(p, k, v) ==
    /\ editions.hand < MaxHandEdits
    /\ config.says[p][Section] # Missing /\ config.says[p][k] # v
    /\ editions' = [editions EXCEPT !.hand = @ + 1]
    /\ config' = [config EXCEPT !.says[p][k] = v]
    /\ intended' = [intended EXCEPT ![p][k] = v]
    /\ putBack' = [putBack EXCEPT ![p] = @ \ {k}]
    /\ older' = [t \in Savers |-> [older[t] EXCEPT ![p] = @ \cup {k}]]
    /\ together' = (together \/ \E s \in Savers : InWindow(s))
    /\ UNCHANGED <<bak, saver, shown, replaced, aborted>>

SaveNext ==
    \/ \E s \in Savers :
           \/ OpenEditor(s) \/ SubmitConversion(s)
           \/ \E p \in Profiles, op \in {"create", "update"} :
                  \E form \in PostableForms(s, op, p) : SubmitForm(s, op, p, form)
           \/ \E p \in Profiles : SubmitDelete(s, p)
           \/ AuditSave(s) \/ ReadFile(s) \/ Doctor(s)
           \/ RemoveOldest(s) \/ Shift(s) \/ BeginBackup(s) \/ EndBackup(s)
           \/ ReplaceFile(s) \/ SaveFails(s)
    \/ \E p \in Profiles, k \in Keys, v \in Settings \cup {Missing} : HandEdit(p, k, v)

SaveSpec == SaveInit /\ [][SaveNext]_saveVars

--------------------------------------------------------------------------------
(* Properties.                                                             *)

\* Each item says what the last change of it that somebody meant made of it,
\* whatever pages, editors and plans were older than that change, unless a page
\* that was opened before the change posted its old value with the rest of its
\* form (save compares a form with the file and not with what it was filled
\* from); and as long as no two saves were between reading the file and replacing
\* it at once (build_change, check_existence_precondition, and the second check
\* of the digest in convert_to_v2).
NoLostChange ==
    together \/ \A p \in Profiles, k \in Items :
                   config.says[p][k] # intended[p][k] => k \in putBack[p]

\* The version the last save replaced is still in a kept generation, as many
\* places up as rotations have come to nothing since (rotate_backups copies the
\* file before write_atomic, and moves the oldest generations first).
ReplacedIsKept ==
    \/ together \/ replaced = NoText
    \/ aborted >= Generations
    \/ \E s \in Savers : InWindow(s)
    \/ \E g \in 1..(1 + aborted) : bak[g] = replaced

================================================================================
