------------------------------- MODULE Editor -------------------------------
(***************************************************************************)
(* The page in which somebody edits a wiki page: the script that           *)
(* server/wiki/editor.ts writes into it.                                   *)
(*                                                                         *)
(* A text is the set of edits of this visit that it contains; what was     *)
(* there before is the empty set.  A click is a handler, which goes on     *)
(* after each await whatever the others have done meanwhile.               *)
(***************************************************************************)
EXTENDS Naturals

CONSTANTS
    Edit,       \* edits, each of which somebody types once
    Click       \* handlers at work at once

VARIABLES
    editor,     \* what the instance of the editor in `crepe` holds
    previewing, \* a version is on show
    older,      \* the version that is on show
    workingMd,  \* "the user's in-progress content"
    saveOff,    \* saveBtn.disabled
    banner,     \* the banner with Revert and Cancel is on show
    click,      \* click[c]: the handler
    stored,     \* the texts of the versions on the server
    typed,      \* history: edits that were typed outside of a preview
    crossed     \* history: a click came before the one before it was done

editorVars == <<editor, previewing, older, workingMd, saveOff, banner, click, stored,
                typed, crossed>>
bar == <<previewing, older, saveOff, banner>>

EditedText == SUBSET Edit

EditorTypeOK ==
    /\ editor \in EditedText
    /\ previewing \in BOOLEAN
    /\ older \in EditedText
    /\ workingMd \in EditedText
    /\ saveOff \in BOOLEAN
    /\ banner \in BOOLEAN
    /\ click \in [Click -> [does : {"nothing", "preview", "cancel", "save", "hero",
                                    "insert", "revert"},
                            md : EditedText]]
    /\ stored \in SUBSET EditedText
    /\ typed \in SUBSET Edit
    /\ crossed \in BOOLEAN

EditorInit ==
    /\ editor = {}
    /\ previewing = FALSE
    /\ older = {}
    /\ workingMd = {}
    /\ saveOff = FALSE
    /\ banner = FALSE
    /\ click = [c \in Click |-> [does |-> "nothing", md |-> {}]]
    /\ stored = {{}}
    /\ typed = {}
    /\ crossed = FALSE

Busy(c) == click[c].does # "nothing"
Idle == \A c \in Click : ~Busy(c)

\* setEditorMarkdown destroys the editor and builds another one: until that is
\* done there is nothing to type into, and `crepe` is still the old one.
Rebuilding == \E c \in Click : click[c].does \in {"preview", "cancel", "insert"}

Begin(c, does, md) ==
    /\ ~Busy(c)
    /\ click' = [click EXCEPT ![c] = [does |-> does, md |-> md]]
    /\ crossed' = (crossed \/ ~Idle)

End(c) == click' = [click EXCEPT ![c] = [does |-> "nothing", md |-> {}]]

-----------------------------------------------------------------------------
\* The editor takes edits in a preview as well; nobody expects those to last.
Type(e) ==
    /\ ~Rebuilding
    /\ e \notin typed
    /\ editor' = editor \cup {e}
    /\ typed' = IF previewing THEN typed ELSE typed \cup {e}
    /\ UNCHANGED <<bar, workingMd, click, stored, crossed>>

\* Mutation: every version that is clicked takes the snapshot anew.
SnapshotAlways(c, v) ==
    /\ Begin(c, "preview", v)
    /\ workingMd' = editor
    /\ previewing' = TRUE
    /\ older' = v
    /\ UNCHANGED <<editor, saveOff, banner, stored, typed>>

\* enterPreview, up to its await.
EnterPreview(c, v) ==
    /\ Begin(c, "preview", v)
    /\ workingMd' = IF previewing THEN workingMd ELSE editor
    /\ previewing' = TRUE
    /\ older' = v
    /\ UNCHANGED <<editor, saveOff, banner, stored, typed>>

ShowPreview(c) ==
    /\ click[c].does = "preview"
    /\ End(c)
    /\ editor' = click[c].md
    /\ saveOff' = TRUE
    /\ banner' = TRUE
    /\ UNCHANGED <<previewing, older, workingMd, stored, typed, crossed>>

\* exitPreview, which does nothing when no version is on show.
ExitPreview(c) ==
    /\ banner
    /\ previewing
    /\ Begin(c, "cancel", workingMd)
    /\ previewing' = FALSE
    /\ UNCHANGED <<editor, older, workingMd, saveOff, banner, stored, typed>>

RestoreWork(c) ==
    /\ click[c].does = "cancel"
    /\ End(c)
    /\ editor' = click[c].md
    /\ saveOff' = FALSE
    /\ banner' = FALSE
    /\ UNCHANGED <<previewing, older, workingMd, stored, typed, crossed>>

\* Whoever agrees to revert the page gives up what is not saved.
ClickRevert(c) ==
    /\ banner
    /\ previewing
    /\ Begin(c, "revert", older)
    /\ typed' = {}
    /\ UNCHANGED <<editor, bar, workingMd, stored>>

\* location.reload: every other handler is gone with the page.
Reload(c) ==
    /\ click[c].does = "revert"
    /\ editor' = click[c].md
    /\ workingMd' = click[c].md
    /\ previewing' = FALSE
    /\ saveOff' = FALSE
    /\ banner' = FALSE
    /\ click' = [k \in Click |-> [does |-> "nothing", md |-> {}]]
    /\ UNCHANGED <<older, stored, typed, crossed>>

ClickSave(c) ==
    /\ ~saveOff
    /\ ~previewing
    /\ Begin(c, "save", editor)
    /\ UNCHANGED <<editor, bar, workingMd, stored, typed>>

\* The answer, and with it the new list of versions.
SaveAnswered(c) ==
    /\ click[c].does = "save"
    /\ End(c)
    /\ stored' = stored \cup {click[c].md}
    /\ workingMd' = click[c].md
    /\ UNCHANGED <<editor, bar, typed, crossed>>

\* The request fails, or only its answer is lost; so does a revert.
RequestFails(c) ==
    /\ click[c].does \in {"save", "revert"}
    /\ End(c)
    /\ stored' \in {stored, stored \cup {click[c].md}}
    /\ UNCHANGED <<editor, bar, workingMd, typed, crossed>>

\* One image at a time.
ClickHero(c) ==
    /\ ~previewing
    /\ \A k \in Click : click[k].does \notin {"hero", "insert"}
    /\ Begin(c, "hero", {})
    /\ UNCHANGED <<editor, bar, workingMd, stored, typed>>

\* The image goes on top of what the editor holds by then, if there is an image.
HeroAnswered(c) ==
    /\ click[c].does = "hero"
    /\ click' = [click EXCEPT ![c] = [does |-> "insert", md |-> editor]]
    /\ UNCHANGED <<editor, bar, workingMd, stored, typed, crossed>>

HeroFails(c) ==
    /\ click[c].does = "hero"
    /\ End(c)
    /\ UNCHANGED <<editor, bar, workingMd, stored, typed, crossed>>

InsertHero(c) ==
    /\ click[c].does = "insert"
    /\ End(c)
    /\ editor' = click[c].md
    /\ workingMd' = click[c].md
    /\ UNCHANGED <<bar, stored, typed, crossed>>

-----------------------------------------------------------------------------
EditorNext ==
    \/ \E e \in Edit : Type(e)
    \/ \E c \in Click, v \in stored : EnterPreview(c, v)
    \/ \E c \in Click :
          \/ ShowPreview(c) \/ ExitPreview(c) \/ RestoreWork(c)
          \/ ClickRevert(c) \/ Reload(c)
          \/ ClickSave(c) \/ SaveAnswered(c) \/ RequestFails(c)
          \/ ClickHero(c) \/ HeroAnswered(c) \/ HeroFails(c) \/ InsertHero(c)

EditorSpec == EditorInit /\ [][EditorNext]_editorVars

-----------------------------------------------------------------------------
(* Safety.                                                                 *)

OnServer == UNION stored
UnderWay == UNION {click[c].md : c \in Click}

\* Where an edit may still be.
Kept == editor \cup workingMd \cup OnServer \cup UnderWay

\* As long as every click comes after the one before it is done, whatever was
\* typed outside of a preview is on the page or on the server, and at rest the
\* buttons agree with what is on show.
WorkLostNeedsOverlap ==
    ~crossed =>
        /\ typed \subseteq Kept
        /\ Idle => (saveOff <=> previewing) /\ (banner <=> previewing)
=============================================================================
