--------------------------- MODULE XSSTaintedNodes ---------------------------
(***************************************************************************)
(* Where a text node keeps its taint when scripts write into it and read   *)
(* it back (nsGenericDOMDataNode.cpp, nsHTMLDocument.cpp, XPConnect's      *)
(* xpcwrappednative.cpp and xpcconvert.cpp).  There are three places: the  *)
(* flag of the text itself, the set of tainted nodes of the document that  *)
(* owns the node, and the flag of the JavaScript object that wraps it.     *)
(*                                                                         *)
(* A step is one statement of a script that calls a method of the node, or *)
(* a garbage collection.  Its taint is that of the scope, the operands and *)
(* the wrapper, as in XSSTaintScopes; a native method that is called sees  *)
(* it as the taint of its scope.  In the document an element ("body")      *)
(* holds the nodes.                                                        *)
(*                                                                         *)
(* textSecret and the secret of variables and the scope are what really    *)
(* depends on the document's sensitive data.                               *)
(***************************************************************************)
CONSTANTS
    Nodes,      \* the text nodes
    Docs,       \* the HTML documents
    Body,       \* the element of a document that holds nodes
    Vars,       \* the variables of the script, which hold strings
    NoDoc       \* not a document: mDocument of a node in no document

ASSUME NodesAssumption == Body \notin Nodes /\ NoDoc \notin Docs

VARIABLES
    existing,   \* the nodes there are
    document,   \* mDocument
    text,       \* the flag of mText
    hash,       \* mXssTaintedHash of each document: the nodes in it
    wrapper,    \* the flag of the node's JavaScript object
    strings,    \* the variables: the flag and the secret of their string
    scope,      \* the scope of a condition: whether it is open and tainted
    source,     \* whether what is read from the document is tainted
    textSecret

vars == <<existing, document, text, hash, wrapper, strings, scope, source, textSecret>>
-----------------------------------------------------------------------------
Plain == [tainted |-> FALSE, secret |-> FALSE]
NoScope == [open |-> FALSE, tainted |-> FALSE, secret |-> FALSE]
Attached(n) == document[n] # NoDoc

\* XssSetMethodTainted, called for a method of a node in document d from a tainted
\* scope (CallMethod).
\* Mutant: the scope is not tested.
MarkedAlways(h, d, n, out) == IF d # NoDoc THEN [h EXCEPT ![d] = @ \cup {n}] ELSE h
Marked(h, d, n, out) == IF out /\ d # NoDoc THEN [h EXCEPT ![d] = @ \cup {n}] ELSE h

\* XssIsNodeTainted of the owner document, asked after the mark.
IsNodeTainted(h, d, n) == d # NoDoc /\ n \in h[d]

\* What the wrapper, the scope and the string x give a statement on node n.
Output(n, x) == scope.tainted \/ wrapper[n] \/ strings[x].tainted

Init ==
    /\ existing \in {{n} : n \in Nodes}
    /\ document \in [Nodes -> Docs \cup {NoDoc}]
    /\ \A n \in Nodes : Attached(n) <=> n \in existing
    /\ text = [n \in Nodes |-> FALSE]
    /\ hash = [d \in Docs |-> {}]
    /\ wrapper = [n \in Nodes |-> FALSE]
    /\ strings = [x \in Vars |-> Plain]
    /\ scope = NoScope
    /\ source \in BOOLEAN
    /\ textSecret = [n \in Nodes |-> FALSE]

Let(x, tainted, secret) ==
    strings' = [strings EXCEPT ![x] = [tainted |-> tainted, secret |-> scope.secret \/ secret]]

\* x = "...", x = document.cookie.
Constant(x) ==
    /\ Let(x, scope.tainted, FALSE)
    /\ UNCHANGED <<existing, document, text, hash, wrapper, scope, source, textSecret>>

Read(x) ==
    /\ Let(x, scope.tainted \/ source, source)
    /\ UNCHANGED <<existing, document, text, hash, wrapper, scope, source, textSecret>>

\* n.data = x: SETPROP taints the string and, behind the setter, the wrapper; the
\* setter takes over the flag of its argument (SetData).
SetData(n, x) ==
    /\ n \in existing
    /\ hash' = Marked(hash, document[n], n, Output(n, x))
    /\ text' = [text EXCEPT ![n] = Output(n, x)]
    /\ wrapper' = [wrapper EXCEPT ![n] = Output(n, x)]
    /\ textSecret' = [textSecret EXCEPT ![n] = scope.secret \/ strings[x].secret]
    /\ strings' = [strings EXCEPT ![x].tainted = Output(n, x)]
    /\ UNCHANGED <<existing, document, scope, source>>

\* x = n.data (GETPROP, GetData): the getter runs in the scope of the statement.
\* Mutant: only the flag of the text is returned.
GetDataOfText(x, n) ==
    /\ n \in existing
    /\ hash' = Marked(hash, document[n], n, scope.tainted)
    /\ Let(x, scope.tainted \/ text[n], textSecret[n])
    /\ UNCHANGED <<existing, document, text, wrapper, scope, source, textSecret>>
GetData(x, n) ==
    /\ n \in existing
    /\ hash' = Marked(hash, document[n], n, scope.tainted)
    /\ Let(x, scope.tainted \/ wrapper[n] \/ text[n] \/ IsNodeTainted(hash', document[n], n),
           textSecret[n])
    /\ UNCHANGED <<existing, document, text, wrapper, scope, source, textSecret>>

\* What AppendData makes of the flag of a text.  If the text and the data are ASCII
\* a tainted argument taints it; if one of them is not (wide), the copy to which the
\* data is appended never gets a flag (nsTSubstring::Append), and the text keeps its.
FlagAfterAppend(flag, out, wide) == flag \/ (out /\ ~wide)

\* n.appendData(x).
AppendData(n, x, wide) ==
    /\ n \in existing
    /\ hash' = Marked(hash, document[n], n, Output(n, x))
    /\ text' = [text EXCEPT ![n] = FlagAfterAppend(@, Output(n, x), wide)]
    /\ textSecret' = [textSecret EXCEPT ![n] = @ \/ scope.secret \/ strings[x].secret]
    /\ UNCHANGED <<existing, document, wrapper, strings, scope, source>>

\* n.replaceData(..., x), insertData, and deleteData with a plain x: the flag of
\* the text stays as it is.
ReplaceData(n, x) ==
    /\ n \in existing
    /\ hash' = Marked(hash, document[n], n, Output(n, x))
    /\ textSecret' = [textSecret EXCEPT ![n] = @ \/ scope.secret \/ strings[x].secret]
    /\ UNCHANGED <<existing, document, text, wrapper, strings, scope, source>>

\* x = n.substringData(...): the result has no flag of its own.
SubstringData(x, n) ==
    /\ n \in existing
    /\ LET out == scope.tainted \/ wrapper[n]
       IN  /\ hash' = Marked(hash, document[n], n, out)
           /\ Let(x, out \/ IsNodeTainted(hash', document[n], n), textSecret[n])
    /\ UNCHANGED <<existing, document, text, wrapper, scope, source, textSecret>>

\* Mutant: nothing holds the new node, it is gone when its wrapper is made.
DeriveNothing(m, n, doc) ==
    /\ n \in existing /\ m \in Nodes \ existing
    /\ hash' = Marked(hash, document[n], n, scope.tainted)
    /\ wrapper' = [wrapper EXCEPT ![m] = scope.tainted]
    /\ UNCHANGED <<existing, document, text, strings, scope, source, textSecret>>

\* A method of n returns the new node m, whose text has no flag: n.splitText(...)
\* behind n in its document, n.cloneNode(...) in no document (CloneContent).
Derive(m, n, doc) ==
    /\ n \in existing /\ m \in Nodes \ existing
    /\ LET out == scope.tainted \/ wrapper[n]
       IN  /\ hash' = Marked(hash, document[n], n, out)
           /\ wrapper' = [wrapper EXCEPT ![m] = out \/ IsNodeTainted(hash', document[n], n)]
    /\ existing' = existing \cup {m}
    /\ document' = [document EXCEPT ![m] = doc]
    /\ textSecret' = [textSecret EXCEPT ![m] = scope.secret \/ textSecret[n]]
    /\ UNCHANGED <<text, strings, scope, source>>

SplitText(m, n) == Derive(m, n, document[n])
CloneNode(m, n) == Derive(m, n, NoDoc)

\* n = document.createTextNode(x), which appends x to the empty text; a document has
\* no owner document to mark.
CreateTextNode(n, x, wide) ==
    /\ n \in Nodes \ existing
    /\ LET out == scope.tainted \/ strings[x].tainted
       IN  /\ text' = [text EXCEPT ![n] = FlagAfterAppend(FALSE, out, wide)]
           /\ wrapper' = [wrapper EXCEPT ![n] = out]
    /\ existing' = existing \cup {n}
    /\ textSecret' = [textSecret EXCEPT ![n] = scope.secret \/ strings[x].secret]
    /\ UNCHANGED <<document, hash, strings, scope, source>>

\* body.appendChild(n) in document to, body.removeChild(n) in document from: the
\* method is one of the body, which is marked; what it returns is the wrapper of n.
Moved(n, d, to) ==
    LET out == scope.tainted \/ wrapper[n]
    IN  /\ hash' = Marked(hash, d, Body, out)
        /\ wrapper' = [wrapper EXCEPT ![n] = out \/ IsNodeTainted(hash', d, Body)]
        /\ document' = [document EXCEPT ![n] = to]
        /\ UNCHANGED <<existing, text, strings, scope, source, textSecret>>

AppendChild(n, d) == n \in existing /\ Moved(n, d, d)
RemoveChild(n) == n \in existing /\ Attached(n) /\ Moved(n, document[n], NoDoc)

\* The wrapper is collected while no script refers to it; the next one is plain.
CollectWrapper(n) ==
    /\ n \in existing
    /\ wrapper' = [wrapper EXCEPT ![n] = FALSE]
    /\ UNCHANGED <<existing, document, text, hash, strings, scope, source, textSecret>>

\* if (x) {, and the end of the block.
If(x) ==
    /\ ~scope.open
    /\ scope' = [open |-> TRUE, tainted |-> strings[x].tainted, secret |-> strings[x].secret]
    /\ UNCHANGED <<existing, document, text, hash, wrapper, strings, source, textSecret>>

EndIf ==
    /\ scope.open
    /\ scope' = NoScope
    /\ UNCHANGED <<existing, document, text, hash, wrapper, strings, source, textSecret>>

Next ==
    \/ \E x \in Vars : Constant(x) \/ Read(x) \/ If(x)
    \/ \E n \in Nodes, x \in Vars : SetData(n, x) \/ GetData(x, n)
    \/ \E n \in Nodes, x \in Vars : ReplaceData(n, x) \/ SubstringData(x, n)
    \/ \E n \in Nodes, x \in Vars, wide \in BOOLEAN :
          AppendData(n, x, wide) \/ CreateTextNode(n, x, wide)
    \/ \E m, n \in Nodes : SplitText(m, n) \/ CloneNode(m, n)
    \/ \E n \in Nodes : RemoveChild(n) \/ CollectWrapper(n) \/ \E d \in Docs : AppendChild(n, d)
    \/ EndIf

Spec == Init /\ [][Next]_vars
-----------------------------------------------------------------------------
TypeOK ==
    /\ existing \subseteq Nodes
    /\ document \in [Nodes -> Docs \cup {NoDoc}]
    /\ text \in [Nodes -> BOOLEAN] /\ wrapper \in [Nodes -> BOOLEAN]
    /\ hash \in [Docs -> SUBSET (existing \cup {Body})]
    /\ \A n \in Nodes \ existing : ~Attached(n) /\ ~text[n] /\ ~wrapper[n]
    /\ strings \in [Vars -> [tainted : BOOLEAN, secret : BOOLEAN]]
    /\ scope \in [open : BOOLEAN, tainted : BOOLEAN, secret : BOOLEAN]
    /\ source \in BOOLEAN
    /\ textSecret \in [Nodes -> BOOLEAN]

\* As long as nothing tainted is read from the document no string, text, wrapper or
\* entry of a document is tainted, whatever the script does with the nodes.
PlainRunsStayPlain ==
    ~source =>
        /\ ~scope.tainted /\ \A x \in Vars : ~strings[x].tainted
        /\ \A n \in Nodes : ~text[n] /\ ~wrapper[n]
        /\ \A d \in Docs : hash[d] = {}

Known(n) == IsNodeTainted(hash, document[n], n)
KnownByText(n) == text[n] /\ ~wrapper[n] /\ ~Known(n)
KnownByWrapper(n) == wrapper[n] /\ ~text[n] /\ ~Known(n)
KnownByDocument(n) == Known(n) /\ ~text[n] /\ ~wrapper[n]

\* What depends on the document's data comes back tainted, out of the variables and
\* out of the nodes.
NothingIsLost ==
    /\ \A n \in existing : textSecret[n] => text[n] \/ wrapper[n] \/ Known(n)
    /\ \A x \in Vars : strings[x].secret => strings[x].tainted
    /\ scope.secret => scope.tainted

\* The taint of a node survives if one of the three places has it, and the ways to
\* lose it are known: a node only its document knows moves to another place, a
\* node only its text knows is split, cloned or read in part, a node only its
\* wrapper knows has the wrapper collected, and a tainted statement inserts data, or
\* appends data as two-byte characters, into a node in no document that none of the
\* places knows.  Writing all of a text, creating it, appending ASCII to ASCII and reading
\* all of a text lose nothing, in whatever order they come with the others.
LossesAreNamed ==
    [][NothingIsLost =>
         \/ NothingIsLost'
         \/ \E n \in Nodes : /\ KnownByDocument(n)
                             /\ RemoveChild(n) \/ \E d \in Docs \ {document[n]} : AppendChild(n, d)
         \/ \E n \in Nodes : /\ KnownByText(n)
                             /\ \/ \E m \in Nodes : SplitText(m, n) \/ CloneNode(m, n)
                                \/ \E x \in Vars : SubstringData(x, n)
         \/ \E n \in Nodes : KnownByWrapper(n) /\ CollectWrapper(n)
         \/ \E n \in Nodes, x \in Vars :
               /\ ~Attached(n) /\ ~text[n] /\ ~wrapper[n] /\ Output(n, x)
               /\ ReplaceData(n, x) \/ AppendData(n, x, TRUE)]_vars
=============================================================================
