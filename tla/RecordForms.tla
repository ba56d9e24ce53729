------------------------------ MODULE RecordForms ------------------------------
(***************************************************************************)
(* The forms that write records: what each loads before it is drawn, which *)
(* of its fields it asks for, checks and sends, and how a save travels.    *)
(*                                                                         *)
(* A form is a table.  Fields that are treated alike are one field here,   *)
(* and a field's content is where it comes from: blank, what a new form    *)
(* starts with, what was stored, what was typed, something that is wrong,  *)
(* or what someone else stored.  A date before another date, a club that   *)
(* is joined and left at once, an amount that is none: all are wrong.      *)
(*                                                                         *)
(* An update is a PUT of the whole record: what the body leaves out is     *)
(* stored as nothing, except what the service keeps.  One form is open at  *)
(* a time; leaving it does not stop its request, nor the navigation that   *)
(* follows.                                                                *)
(***************************************************************************)
EXTENDS Sequences, Integers, FiniteSets

CONSTANTS
    MaxTyped,       \* fields typed into (a bound)
    MaxSaves,       \* saves (a bound)
    MaxOthers       \* changes by someone else (a bound)

ASSUME FormsAssumption == MaxSaves \in Nat

\* A type that was chosen is a free transfer or a cup when "typed", and a move
\* that ends a career or a stay when "ending".
Contents == {"blank", "default", "stored", "typed", "ending", "wrong", "theirs"}

------------------------------------------------------------------------------
(* The forms.  `loads`: the record that is edited ("itself", when the      *)
(* address has one) or the one the new record is about ("subject");        *)
(* `asked`: fields that must not be blank; `checked`: fields the form      *)
(* finds wrong, `refused`: those that only the service does; `rule`: whose *)
(* clubs the member must edit for the button to work.                      *)

Form(loads, asked, checked, refused, rule) ==
    [loads |-> loads, asked |-> asked, checked |-> checked, refused |-> refused, rule |-> rule]

ClubForm == Form("itself", {"name"}, {"founded"}, {}, "none")

CoachForm == Form("itself", {"name"}, {}, {"team"}, "none")

SpellForm == Form("subject", {"start"}, {"start", "end"}, {}, "either")

SeasonEntryForm == Form("subject", {"season", "league"}, {}, {}, "club")

ValueForm == Form("subject", {"value", "on"}, {"value", "on"}, {}, "none")

CompetitionForm == Form("itself", {"name"}, {"tier"}, {}, "none")

\* Lists that are too long and percentages are left to the service.
PlayerForm == Form("itself", {"name"}, {"facts", "value"}, {"team", "lists"}, "none")

\* From where the player moves is no field: it is sent as it was loaded.
TransferForm == Form("subject", {"date"}, {"date", "to", "fee"}, {}, "either")

TransferEdit == Form("itself", {}, {"fee"}, {}, "none")

SeasonForm == Form("itself", {"label", "start", "end"}, {"end"}, {}, "none")

\* What is drawn: fields of every form, fields of a new record only, which
\* the service keeps when it is updated, and what a new form starts with.
\* `echoed` are sent as they were loaded, whoever edits; `unsent` are columns
\* an update writes and the form knows nothing of.
View(always, new, start) ==
    [always |-> always, new |-> new, kept |-> new, echoed |-> {}, unsent |-> {}, start |-> start]

Starts(fields, f) == IF f \in DOMAIN fields THEN fields[f] ELSE "blank"

ClubFormView == View({"name", "league", "founded", "details"}, {}, [name |-> "blank"])

\* How long the contract runs is neither loaded nor sent.
CoachFormView == [View({"name", "details"}, {"team"}, [name |-> "blank"]) EXCEPT !.unsent = {"contract"}]

SpellFormView == View({"team", "start", "end"}, {}, [start |-> "default"])

SeasonEntryView == View({"season", "league"}, {}, [season |-> "blank"])

ValueFormView == View({"value", "on"}, {}, [on |-> "default"])

\* A cup's tier is hidden.
CompetitionFormView == View({"name", "type", "tier"}, {}, [type |-> "default"])

PlayerDetails == {"facts", "lists"}
PlayerFormView == View({"name"} \cup PlayerDetails, {"team", "value"}, [name |-> "blank"])

TransferFormView == View({"type", "date", "to", "fee", "season"}, {}, [type |-> "default", date |-> "default"])

\* Season and currency are sent as they were loaded; player, clubs and date are
\* kept.
TransferEditView ==
    [View({"type", "fee", "season"}, {}, [type |-> "default"]) EXCEPT !.kept = {"from"}, !.echoed = {"season"}]

SeasonFormView == View({"label", "start", "end"}, {}, [label |-> "blank"])

FormOf(class, view) == [class |-> class, view |-> view]

Forms ==
    [ClubForm        |-> FormOf(ClubForm, ClubFormView),
     CoachForm       |-> FormOf(CoachForm, CoachFormView),
     SpellForm       |-> FormOf(SpellForm, SpellFormView),
     SeasonEntryForm |-> FormOf(SeasonEntryForm, SeasonEntryView),
     ValueForm       |-> FormOf(ValueForm, ValueFormView),
     CompetitionForm |-> FormOf(CompetitionForm, CompetitionFormView),
     PlayerForm      |-> FormOf(PlayerForm, PlayerFormView),
     TransferForm    |-> FormOf(TransferForm, TransferFormView),
     TransferEdit    |-> FormOf(TransferEdit, TransferEditView),
     SeasonForm      |-> FormOf(SeasonForm, SeasonFormView)]

------------------------------------------------------------------------------

VARIABLES
    form, isEdit,   \* the form that is open, and whether it edits a record
    place,          \* form, elsewhere, or the page that follows a save
    fetch,          \* the record it loads: none, loading, ready or failed
    fields,
    typedInto,      \* fields the member typed into
    errors,         \* fields that the last save found wrong
    saveError, busy,
    posts,          \* the requests under way: [body, typedInto, at]
    presses,
    record,         \* the record that is edited, or the subject's club ("from")
    others,         \* fields that someone else stored since the form loaded them
    holds,          \* the clubs the page knows the member to edit: the
                    \*  record's, the chosen one
    granted         \* the ones the service knows

fillVars == <<fields, typedInto, errors>>
formVars == <<form, isEdit, place, fetch, fillVars, saveError, busy, posts, presses, record, others,
              holds, granted>>

Class == Forms[form].class
Inputs == Forms[form].view.always \cup (IF isEdit THEN {} ELSE Forms[form].view.new)

\* The columns of the record that is edited.
Columns == Inputs \cup Forms[form].view.kept \cup Forms[form].view.unsent

\* A free transfer has no fee, a cup no tier: the field is locked or hidden.
Locked(f, given) ==
    \/ f = "fee" /\ given["type"] = "typed"
    \/ f = "tier" /\ given["type"] = "typed"

------------------------------------------------------------------------------
(* Opening and filling.                                                    *)

FormsInit ==
    /\ form \in DOMAIN Forms
    /\ isEdit \in (IF form = "TransferEdit" THEN {TRUE}
                    ELSE IF Class.loads = "itself" THEN BOOLEAN ELSE {FALSE})
    /\ place = "form"
    /\ fetch = IF isEdit \/ Class.loads = "subject" THEN "loading" ELSE "none"
    /\ fields = [f \in Inputs |-> Starts(Forms[form].view.start, f)]
    /\ typedInto = {} /\ errors = {} /\ saveError = FALSE /\ busy = FALSE
    /\ posts = <<>> /\ presses = 0
    /\ record = [f \in (IF isEdit THEN Columns
                    ELSE IF Class.rule = "either" THEN {"from"} ELSE {}) |-> "stored"]
    /\ others = {}
    /\ holds \in (IF Class.rule = "none" THEN {{}} ELSE SUBSET {"record's", "chosen"}) /\ granted = holds

\* Mutant: the free text is not filled in.
FillNamed == [f \in Inputs |-> IF f \in {"details", "lists"} THEN fields[f] ELSE record[f]]
Fill == [f \in Inputs |-> record[f]]

\* What is edited is put into the form once; a subject is only shown.
RecordArrives ==
    /\ fetch = "loading"
    /\ fetch' = "ready"
    /\ fields' = IF isEdit THEN Fill ELSE [f \in DOMAIN fields \cup DOMAIN record |-> IF f = "from" THEN record[f] ELSE fields[f]]
    /\ others' = {}
    /\ UNCHANGED <<form, isEdit, place, typedInto, errors, saveError, busy, posts, presses, record, holds,
                   granted>>

RecordFails ==
    /\ fetch = "loading"
    /\ fetch' = "failed"
    /\ UNCHANGED <<form, isEdit, place, fillVars, saveError, busy, posts, presses, record, others, holds,
                   granted>>

\* The form is on the screen.
Shown == place = "form" /\ fetch \in {"none", "ready"}

\* What choosing the type of a move blanks: a release or retirement joins
\* nobody, a free transfer costs nothing.
Clears(f, content) ==
    IF f = "type" /\ form = "TransferForm"
    THEN CASE content = "typed" -> {"fee"} [] content = "ending" -> {"to"} [] OTHER -> {}
    ELSE {}

\* A club is picked from a list, anything else is typed.
Type(f, content) ==
    /\ Shown /\ f \in Inputs \ Forms[form].view.echoed /\ ~Locked(f, fields)
    /\ content # fields[f] /\ Cardinality(typedInto \cup {f}) <= MaxTyped
    /\ CASE content = "blank" -> f \in Class.asked
         [] content = "wrong" -> f \in Class.checked \cup Class.refused
         [] content = "ending" -> f = "type" /\ form = "TransferForm"
         [] OTHER -> TRUE
    /\ typedInto' = typedInto \cup {f}
    /\ fields' = [g \in DOMAIN fields |->
                     IF g = f THEN content ELSE IF g \in Clears(f, content) THEN "blank" ELSE fields[g]]
    /\ UNCHANGED <<form, isEdit, place, fetch, errors, saveError, busy, posts, presses, record, others, holds,
                   granted>>

------------------------------------------------------------------------------
(* Saving.                                                                 *)

\* A player or coach moves through either club; a club enters a competition
\* through its own editors.
permitted ==
    CASE Class.rule = "none" -> TRUE
      [] Class.rule = "club" -> "record's" \in holds
      [] OTHER -> \/ "record's" \in holds /\ fields["from"] # "blank"
                  \/ "chosen" \in holds /\ \E f \in {"team", "to"} \cap Inputs : fields[f] = "typed"

\* A hidden tier is checked all the same; a locked fee is not.
Wrong ==
    {f \in Class.asked : fields[f] = "blank"}
      \cup {f \in Class.checked \cap Inputs : fields[f] = "wrong" /\ ~(f = "fee" /\ Locked(f, fields))}
      \cup {f \in {"to"} \cap Inputs : fields[f] = "blank" /\ fields["from"] = "blank"}

Body == [f \in DOMAIN fields |-> IF f \in Inputs /\ Locked(f, fields) THEN "blank" ELSE fields[f]]

MayPress == Shown /\ permitted /\ ~busy

PressSave ==
    /\ MayPress /\ presses < MaxSaves
    /\ presses' = presses + 1
    /\ errors' = Wrong
    /\ IF Wrong # {} THEN UNCHANGED <<saveError, busy, posts>>
       ELSE /\ busy' = TRUE /\ saveError' = FALSE
            /\ posts' = Append(posts, [body |-> Body, typedInto |-> typedInto, at |-> "out"])
    /\ UNCHANGED <<form, isEdit, place, fetch, fields, typedInto, record, others, holds, granted>>

\* The service checks again, with the grants and the record as they are now: a
\* move must start where the player is, a spell starts wherever the coach is.  A
\* club that joined the record since may be one the member edits.
Accepted(body) ==
    /\ \A f \in Class.refused \cap Inputs : body[f] # "wrong"
    /\ form = "TransferForm" => body["from"] = record["from"]
    /\ CASE Class.rule = "club" -> "record's" \in granted
         [] Class.rule = "either" ->
                \/ record["from"] # "blank" /\ (body["from"] = record["from"] => "record's" \in granted)
                \/ "chosen" \in granted /\ \E f \in {"team", "to"} \cap Inputs : body[f] = "typed"
         [] OTHER -> TRUE

\* What the service keeps, and for the rest the body.
Replaced(body) ==
    [f \in DOMAIN record |-> IF f \in Forms[form].view.kept THEN record[f]
                             ELSE IF f \in DOMAIN body THEN body[f] ELSE "blank"]

\* A season that overlaps, a spell or an entry that is there, a record that is
\* gone: more may be in the way.
ServiceTakes(i) ==
    LET request == posts[i]
        at(a) == posts' = [posts EXCEPT ![i].at = a]
    IN  /\ request.at = "out"
        /\ \/ /\ Accepted(request.body)
              /\ at("saved")
              /\ IF isEdit THEN record' = Replaced(request.body) ELSE UNCHANGED record
           \/ at("refused") /\ UNCHANGED record
        /\ UNCHANGED <<form, isEdit, place, fetch, fillVars, saveError, busy, presses, others, holds, granted>>

Drop(i) == posts' = [j \in 1 .. Len(posts) - 1 |-> IF j < i THEN posts[j] ELSE posts[j + 1]]

\* The record's page is opened, wherever the member has gone meanwhile.
SaveAnswered(i) ==
    /\ posts[i].at = "saved"
    /\ place' = "next"
    /\ busy' = FALSE /\ Drop(i)
    /\ UNCHANGED <<form, isEdit, fetch, fillVars, saveError, presses, record, others, holds, granted>>

\* Refused; or saved, and the answer or the page that follows did not arrive.
SaveFails(i) ==
    /\ saveError' = TRUE /\ busy' = FALSE
    /\ Drop(i)
    /\ UNCHANGED <<form, isEdit, place, fetch, fillVars, presses, record, others, holds, granted>>

CancelForm ==
    /\ place = "form"
    /\ place' = "elsewhere"
    /\ UNCHANGED <<form, isEdit, fetch, fillVars, saveError, busy, posts, presses, record, others, holds,
                   granted>>

------------------------------------------------------------------------------
(* Everyone else.                                                          *)

OthersStore(f) ==
    /\ f \in DOMAIN record /\ record[f] = "stored" /\ Cardinality(others) < MaxOthers
    /\ \E content \in {"theirs"} \cup (IF f = "from" THEN {"blank"} ELSE {}) :
          record' = [record EXCEPT ![f] = content]
    /\ others' = others \cup {f}
    /\ UNCHANGED <<form, isEdit, place, fetch, fillVars, saveError, busy, posts, presses, holds, granted>>

\* The page does not hear of it.
GrantRevoked(club) ==
    /\ club \in granted
    /\ granted' = granted \ {club}
    /\ UNCHANGED <<form, isEdit, place, fetch, fillVars, saveError, busy, posts, presses, record, others, holds>>

FormsNext ==
    \/ RecordArrives \/ RecordFails \/ PressSave \/ CancelForm
    \/ \E f \in Inputs, content \in {"blank", "typed", "ending", "wrong"} : Type(f, content)
    \/ \E i \in DOMAIN posts : ServiceTakes(i) \/ SaveAnswered(i) \/ SaveFails(i)
    \/ \E f \in DOMAIN record : OthersStore(f)
    \/ \E club \in granted : GrantRevoked(club)

FormsSpec == FormsInit /\ [][FormsNext]_formVars

------------------------------------------------------------------------------

FormsTypeOK ==
    /\ form \in DOMAIN Forms /\ place \in {"form", "elsewhere", "next"}
    /\ fetch \in {"none", "loading", "ready", "failed"}
    /\ \A f \in DOMAIN fields : fields[f] \in Contents
    /\ typedInto \cup errors \subseteq Inputs
    /\ Len(posts) <= MaxSaves /\ granted \subseteq holds

\* A save changes what the member typed and nothing else: a field that is not
\* drawn, not typed into or not filled in yet is stored as it is, although the
\* update replaces the whole record.  The exceptions: what someone else stored
\* meanwhile is put back to what was loaded; what the typed kind of a record
\* forbids goes; and so does, on every save, what the form knows nothing of (the
\* contract of a coach: coach-form.ts sends none, and the service stores that).
UntouchedFieldsSurvive ==
    [][\A i \in DOMAIN posts :
         isEdit /\ posts[i].at = "out" /\ posts' = [posts EXCEPT ![i].at = "saved"] =>
             \A f \in DOMAIN record \ Forms[form].view.unsent :
                 \/ record'[f] = record[f]
                 \/ f \in posts[i].typedInto
                 \/ f \in others /\ record'[f] = "stored"
                 \/ Locked(f, posts[i].body)]_formVars
==============================================================================
