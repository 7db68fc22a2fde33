--------------------------- MODULE DocumentRoots ---------------------------
(***************************************************************************)
(* One document.  Its content: a root for Lexical's editor, one for         *)
(* ProseMirror's, a text with carets in it, and the roots of an application *)
(* (a map and an array) with the handles it takes.  A transaction writes    *)
(* through one handle, so to one root; renderers and readers look at one    *)
(* root each.  And its edits, which return the updates its transactions     *)
(* make whatever root they write to.                                        *)
(***************************************************************************)
EXTENDS LexicalHtml, ProseMirrorHtml, Carets, Handles, DocEdit

contentVars == <<vars, pmVars, caretVars, handleVars>>
rootVars    == <<contentVars, editVars>>

RootsInit == Init /\ PmInit /\ CaretInit /\ HandlesInit /\ EditInit

\* Which roots have content, and whether the document is being edited.
LexicalWritten     == kids[Root] # <<>> \/ changed # NoReport
ProseMirrorWritten == children[Fragment] # <<>>
TextWritten        == units # <<>> \/ caret # NoCaret
SharedWritten      == Len(shared) > 2 \/ target # 1 \/ \E h \in {1, 2} : shared[h].of # <<>>
EditsBegun         == writes > 0 \/ started # Pool \/ \E e \in Edit : stage[e] # "new"

\* Bound: a behaviour writes to one of the roots, so no other has content, or
\* follows the edits, to which what a transaction wrote makes no difference.
WritesContent ==
    \/ /\ ~ ProseMirrorWritten /\ ~ TextWritten /\ ~ SharedWritten
       /\ Next /\ UNCHANGED <<pmVars, caretVars, handleVars>>
    \/ /\ ~ LexicalWritten /\ ~ TextWritten /\ ~ SharedWritten
       /\ PmNext /\ UNCHANGED <<vars, caretVars, handleVars>>
    \/ /\ ~ LexicalWritten /\ ~ ProseMirrorWritten /\ ~ SharedWritten
       /\ CaretNext /\ UNCHANGED <<vars, pmVars, handleVars>>
    \/ /\ ~ LexicalWritten /\ ~ ProseMirrorWritten /\ ~ TextWritten
       /\ HandlesNext /\ UNCHANGED <<vars, pmVars, caretVars>>

Edits ==
    /\ ~ LexicalWritten /\ ~ ProseMirrorWritten /\ ~ TextWritten /\ ~ SharedWritten
    /\ EditNext

RootsNext ==
    \/ ~ EditsBegun /\ WritesContent /\ UNCHANGED editVars
    \/ Edits /\ UNCHANGED contentVars

RootsSpec == RootsInit /\ [][RootsNext]_rootVars
=============================================================================
