------------------------ MODULE XSSTaintedNodesProofs ------------------------
(***************************************************************************)
(* Theorems about XSSTaintedNodes: type correctness, plain runs stay plain *)
(* and the statements that lose taint are known, for any number of nodes,  *)
(* documents and variables.                                                *)
(***************************************************************************)
EXTENDS XSSTaintedNodes, TLAPS

USE DEF Attached

-----------------------------------------------------------------------------
\* What the mark leaves in the documents: only the node is new, in its document.
LEMMA MarkedType ==
    ASSUME NEW S, NEW h \in [Docs -> SUBSET S], NEW n \in S,
           NEW d \in Docs \cup {NoDoc}, NEW out \in BOOLEAN
    PROVE  Marked(h, d, n, out) \in [Docs -> SUBSET S]
BY NodesAssumption DEF Marked

LEMMA MarkedPlain ==
    ASSUME NEW h, NEW d, NEW n
    PROVE  Marked(h, d, n, FALSE) = h
BY DEF Marked

LEMMA NodeTaintedType ==
    ASSUME NEW h, NEW d, NEW n
    PROVE  IsNodeTainted(h, d, n) \in BOOLEAN
BY DEF IsNodeTainted

LEMMA LetType ==
    ASSUME NEW x \in Vars, NEW t \in BOOLEAN, NEW s \in BOOLEAN, TypeOK, Let(x, t, s)
    PROVE  strings' \in [Vars -> [tainted : BOOLEAN, secret : BOOLEAN]]
BY DEF Let, TypeOK

-----------------------------------------------------------------------------
\* Nothing but existing nodes and the bodies of documents are in the hashes, and a
\* node that does not exist has no document and no flag.
THEOREM TypeCorrect == Spec => []TypeOK
<1>1. Init => TypeOK
  BY DEF Init, TypeOK, Plain, NoScope
<1>2. TypeOK /\ [Next]_vars => TypeOK'
  <2> SUFFICES ASSUME TypeOK, [Next]_vars PROVE TypeOK'
    OBVIOUS
  <2> USE DEF TypeOK
  <2>1. ASSUME NEW x \in Vars, Constant(x) PROVE TypeOK'
    BY <2>1, LetType DEF Constant
  <2>2. ASSUME NEW x \in Vars, Read(x) PROVE TypeOK'
    BY <2>2, LetType DEF Read
  <2>3. ASSUME NEW x \in Vars, If(x) PROVE TypeOK'
    BY <2>3 DEF If
  <2>4. ASSUME NEW n \in Nodes, NEW x \in Vars, SetData(n, x) PROVE TypeOK'
    <3>1. Output(n, x) \in BOOLEAN
      BY DEF Output
    <3>2. hash' \in [Docs -> SUBSET (existing \cup {Body})]
      BY <2>4, <3>1, MarkedType DEF SetData
    <3> QED
      BY <2>4, <3>1, <3>2 DEF SetData
  <2>5. ASSUME NEW n \in Nodes, NEW x \in Vars, GetData(x, n) PROVE TypeOK'
    <3>1. hash' \in [Docs -> SUBSET (existing \cup {Body})]
      BY <2>5, MarkedType DEF GetData
    <3>2. strings' \in [Vars -> [tainted : BOOLEAN, secret : BOOLEAN]]
      BY <2>5, LetType, NodeTaintedType DEF GetData
    <3> QED
      BY <2>5, <3>1, <3>2 DEF GetData
  <2>6. ASSUME NEW n \in Nodes, NEW x \in Vars, NEW wide \in BOOLEAN,
               AppendData(n, x, wide)
        PROVE  TypeOK'
    <3>1. Output(n, x) \in BOOLEAN
      BY DEF Output
    <3>2. hash' \in [Docs -> SUBSET (existing \cup {Body})]
      BY <2>6, <3>1, MarkedType DEF AppendData
    <3> QED
      BY <2>6, <3>1, <3>2 DEF AppendData, FlagAfterAppend
  <2>7. ASSUME NEW n \in Nodes, NEW x \in Vars, ReplaceData(n, x) PROVE TypeOK'
    <3>1. Output(n, x) \in BOOLEAN
      BY DEF Output
    <3>2. hash' \in [Docs -> SUBSET (existing \cup {Body})]
      BY <2>7, <3>1, MarkedType DEF ReplaceData
    <3> QED
      BY <2>7, <3>1, <3>2 DEF ReplaceData
  <2>8. ASSUME NEW n \in Nodes, NEW x \in Vars, SubstringData(x, n) PROVE TypeOK'
    <3>1. hash' \in [Docs -> SUBSET (existing \cup {Body})]
      BY <2>8, MarkedType DEF SubstringData
    <3>2. strings' \in [Vars -> [tainted : BOOLEAN, secret : BOOLEAN]]
      BY <2>8, LetType, NodeTaintedType DEF SubstringData
    <3> QED
      BY <2>8, <3>1, <3>2 DEF SubstringData
  <2>9. ASSUME NEW m \in Nodes, NEW n \in Nodes, SplitText(m, n) \/ CloneNode(m, n)
        PROVE  TypeOK'
    <3>1. PICK doc \in Docs \cup {NoDoc} : Derive(m, n, doc)
      BY <2>9 DEF SplitText, CloneNode
    <3>2. hash' \in [Docs -> SUBSET (existing \cup {Body})]
      BY <3>1, MarkedType DEF Derive
    <3>3. hash' \in [Docs -> SUBSET (existing' \cup {Body})]
      BY <3>1, <3>2 DEF Derive
    <3>4. wrapper' \in [Nodes -> BOOLEAN] /\ \A k \in Nodes \ {m} : wrapper'[k] = wrapper[k]
      BY <3>1, NodeTaintedType DEF Derive
    <3> QED
      BY <3>1, <3>3, <3>4 DEF Derive
  <2>10. ASSUME NEW n \in Nodes, NEW x \in Vars, NEW wide \in BOOLEAN,
                CreateTextNode(n, x, wide)
         PROVE  TypeOK'
    BY <2>10 DEF CreateTextNode, FlagAfterAppend
  <2>11. ASSUME NEW n \in Nodes, RemoveChild(n) \/ \E d \in Docs : AppendChild(n, d)
         PROVE  TypeOK'
    <3>1. PICK d \in Docs, to \in Docs \cup {NoDoc} : n \in existing /\ Moved(n, d, to)
      BY <2>11 DEF RemoveChild, AppendChild
    <3>2. hash' \in [Docs -> SUBSET (existing \cup {Body})]
      BY <3>1, MarkedType DEF Moved
    <3>3. wrapper' \in [Nodes -> BOOLEAN] /\ \A k \in Nodes \ {n} : wrapper'[k] = wrapper[k]
      BY <3>1, NodeTaintedType DEF Moved
    <3> QED
      BY <3>1, <3>2, <3>3 DEF Moved
  <2>12. ASSUME NEW n \in Nodes, CollectWrapper(n) PROVE TypeOK'
    BY <2>12 DEF CollectWrapper
  <2>13. CASE EndIf
    BY <2>13 DEF EndIf, NoScope
  <2>14. CASE UNCHANGED vars
    BY <2>14 DEF vars
  <2> QED
    BY <2>1, <2>2, <2>3, <2>4, <2>5, <2>6, <2>7, <2>8, <2>9, <2>10, <2>11, <2>12, <2>13,
       <2>14 DEF Next
<1> QED
  BY <1>1, <1>2, PTL DEF Spec

-----------------------------------------------------------------------------
\* A page that reads nothing tainted never has a tainted node: where nothing is
\* tainted no statement makes anything tainted.
THEOREM PlainStaysPlain == Spec => []PlainRunsStayPlain
<1>1. Init => PlainRunsStayPlain
  BY DEF Init, PlainRunsStayPlain, Plain, NoScope
<1>2. TypeOK /\ PlainRunsStayPlain /\ [Next]_vars => PlainRunsStayPlain'
  <2> SUFFICES ASSUME TypeOK, PlainRunsStayPlain, [Next]_vars, ~source'
               PROVE  PlainRunsStayPlain'
    BY DEF PlainRunsStayPlain
  <2> USE DEF TypeOK, PlainRunsStayPlain, IsNodeTainted, Output, Let
  <2>0. ~source
    BY DEF Next, Constant, Read, SetData, GetData, AppendData, ReplaceData, SubstringData,
           SplitText, CloneNode, Derive, CreateTextNode, RemoveChild, AppendChild, Moved,
           CollectWrapper, If, EndIf, vars
  <2> USE <2>0
  <2>1. ASSUME NEW x \in Vars, Constant(x) \/ Read(x) PROVE PlainRunsStayPlain'
    BY <2>1 DEF Constant, Read
  <2>2. ASSUME NEW x \in Vars, If(x) PROVE PlainRunsStayPlain'
    BY <2>2 DEF If
  <2>3. ASSUME NEW n \in Nodes, NEW x \in Vars, NEW wide \in BOOLEAN,
               SetData(n, x) \/ AppendData(n, x, wide) \/ ReplaceData(n, x)
        PROVE  PlainRunsStayPlain'
    <3>1. Output(n, x) = FALSE
      OBVIOUS
    <3>2. hash' = hash
      BY <2>3, <3>1, MarkedPlain DEF SetData, AppendData, ReplaceData
    <3> QED
      BY <2>3, <3>1, <3>2 DEF SetData, AppendData, ReplaceData, FlagAfterAppend
  <2>4. ASSUME NEW n \in Nodes, NEW x \in Vars, GetData(x, n) \/ SubstringData(x, n)
        PROVE  PlainRunsStayPlain'
    <3>1. hash' = Marked(hash, document[n], n, FALSE)
      BY <2>4 DEF GetData, SubstringData
    <3>2. hash' = hash
      BY <3>1, MarkedPlain
    <3>3. ~IsNodeTainted(hash', document[n], n)
      BY <3>2
    <3> QED
      BY <2>4, <3>2, <3>3 DEF GetData, SubstringData
  <2>5. ASSUME NEW m \in Nodes, NEW n \in Nodes, SplitText(m, n) \/ CloneNode(m, n)
        PROVE  PlainRunsStayPlain'
    <3>1. PICK doc : Derive(m, n, doc)
      BY <2>5 DEF SplitText, CloneNode
    <3>2. hash' = hash
      BY <3>1, MarkedPlain DEF Derive
    <3> QED
      BY <3>1, <3>2 DEF Derive
  <2>6. ASSUME NEW n \in Nodes, NEW x \in Vars, NEW wide \in BOOLEAN,
               CreateTextNode(n, x, wide)
        PROVE  PlainRunsStayPlain'
    BY <2>6 DEF CreateTextNode, FlagAfterAppend
  <2>7. ASSUME NEW n \in Nodes, RemoveChild(n) \/ \E d \in Docs : AppendChild(n, d)
        PROVE  PlainRunsStayPlain'
    <3>1. PICK d, to : Moved(n, d, to) /\ d \in Docs
      BY <2>7 DEF RemoveChild, AppendChild
    <3>2. hash' = hash
      BY <3>1, MarkedPlain DEF Moved
    <3> QED
      BY <3>1, <3>2 DEF Moved
  <2>8. ASSUME NEW n \in Nodes, CollectWrapper(n) PROVE PlainRunsStayPlain'
    BY <2>8 DEF CollectWrapper
  <2>9. CASE EndIf
    BY <2>9 DEF EndIf, NoScope
  <2>10. CASE UNCHANGED vars
    BY <2>10 DEF vars
  <2> QED
    BY <2>1, <2>2, <2>3, <2>4, <2>5, <2>6, <2>7, <2>8, <2>9, <2>10 DEF Next
<1> QED
  BY <1>1, <1>2, TypeCorrect, PTL DEF Spec

-----------------------------------------------------------------------------
\* The mark only adds to the documents' hashes.
LEMMA MarkedGrows ==
    ASSUME NEW S, NEW h \in [Docs -> SUBSET S], NEW n,
           NEW d \in Docs \cup {NoDoc}, NEW out \in BOOLEAN,
           NEW k, NEW e, IsNodeTainted(h, e, k), e \in Docs \cup {NoDoc}
    PROVE  IsNodeTainted(Marked(h, d, n, out), e, k)
BY NodesAssumption DEF Marked, IsNodeTainted

\* A tainted statement on a node in a document leaves the node marked.
LEMMA MarkedIsKnown ==
    ASSUME NEW S, NEW h \in [Docs -> SUBSET S], NEW n, NEW d \in Docs,
           NEW out, out
    PROVE  IsNodeTainted(Marked(h, d, n, out), d, n)
BY NodesAssumption DEF Marked, IsNodeTainted

\* What a statement leaves alone stays known: k is still in the document it was in.
LEMMA StaysKnown ==
    ASSUME TypeOK, NEW n, NEW d \in Docs \cup {NoDoc}, NEW out \in BOOLEAN,
           hash' = Marked(hash, d, n, out),
           NEW k \in Nodes, document'[k] = document[k], Known(k)
    PROVE  Known(k)'
<1>1. IsNodeTainted(hash, document[k], k) /\ document[k] \in Docs \cup {NoDoc}
  BY DEF Known, TypeOK
<1>2. hash \in [Docs -> SUBSET (existing \cup {Body})]
  BY DEF TypeOK
<1>3. IsNodeTainted(hash', document[k], k)
  BY <1>1, <1>2, MarkedGrows
<1> QED
  BY <1>3 DEF Known

\* The statements that lose taint are named, for every number of nodes, documents
\* and variables.
THEOREM LossesNamed == Spec => LossesAreNamed
<1> DEFINE Named ==
         \/ NothingIsLost'
         \/ \E n \in Nodes : /\ KnownByDocument(n)
                             /\ RemoveChild(n) \/ \E d \in Docs \ {document[n]} : AppendChild(n, d)
         \/ \E n \in Nodes : /\ KnownByText(n)
                             /\ \/ \E m \in Nodes : SplitText(m, n) \/ CloneNode(m, n)
                                \/ \E x \in Vars : SubstringData(x, n)
         \/ \E n \in Nodes : KnownByWrapper(n) /\ CollectWrapper(n)
         \/ \E n \in Nodes, x \in Vars :
               /\ ~Attached(n) /\ ~text[n] /\ ~wrapper[n] /\ Output(n, x)
               /\ ReplaceData(n, x) \/ AppendData(n, x, TRUE)
<1>1. TypeOK /\ [Next]_vars => [NothingIsLost => Named]_vars
  <2> SUFFICES ASSUME TypeOK, Next, NothingIsLost PROVE Named
    OBVIOUS
  <2>t. /\ document \in [Nodes -> Docs \cup {NoDoc}] /\ existing \subseteq Nodes
        /\ text \in [Nodes -> BOOLEAN] /\ wrapper \in [Nodes -> BOOLEAN]
        /\ textSecret \in [Nodes -> BOOLEAN]
        /\ hash \in [Docs -> SUBSET (existing \cup {Body})]
        /\ strings \in [Vars -> [tainted : BOOLEAN, secret : BOOLEAN]]
        /\ scope \in [open : BOOLEAN, tainted : BOOLEAN, secret : BOOLEAN]
    BY DEF TypeOK
  <2>k. \A n \in existing : textSecret[n] => text[n] \/ wrapper[n] \/ Known(n)
    BY DEF NothingIsLost
  <2>s. /\ \A x \in Vars : strings[x].secret => strings[x].tainted
        /\ scope.secret => scope.tainted
    BY DEF NothingIsLost
  <2>1. ASSUME NEW x \in Vars, Constant(x) \/ Read(x) PROVE Named
    <3>1. \A n \in Nodes : Known(n)' <=> Known(n)
      BY <2>1 DEF Constant, Read, Known, IsNodeTainted
    <3>2. /\ existing' = existing /\ text' = text /\ wrapper' = wrapper /\ scope' = scope
          /\ textSecret' = textSecret
          /\ \E t, s \in BOOLEAN : /\ s => t
                                  /\ strings' = [strings EXCEPT ![x] = [tainted |-> t, secret |-> s]]
      <4>1. source \in BOOLEAN
        BY DEF TypeOK
      <4> QED
        BY <2>1, <2>t, <2>s, <4>1 DEF Constant, Read, Let
    <3>3. NothingIsLost'
      BY <2>t, <2>k, <2>s, <3>1, <3>2 DEF NothingIsLost
    <3> QED
      BY <3>3
  <2>2. ASSUME NEW x \in Vars, If(x) PROVE Named
    <3>1. \A n \in Nodes : Known(n)' <=> Known(n)
      BY <2>2 DEF If, Known, IsNodeTainted
    <3> QED
      BY <2>2, <2>t, <2>k, <2>s, <3>1 DEF If, NothingIsLost
  <2>3. CASE EndIf
    <3>1. \A n \in Nodes : Known(n)' <=> Known(n)
      BY <2>3 DEF EndIf, Known, IsNodeTainted
    <3> QED
      BY <2>3, <2>t, <2>k, <2>s, <3>1 DEF EndIf, NoScope, NothingIsLost
  <2>4. ASSUME NEW n \in Nodes, NEW x \in Vars, SetData(n, x) PROVE Named
    <3>1. Output(n, x) \in BOOLEAN
      BY <2>t DEF Output
    <3>2. \A k \in Nodes : Known(k) => Known(k)'
      BY <2>4, <2>t, <3>1, StaysKnown DEF SetData
    <3>3. scope.secret \/ strings[x].secret => Output(n, x)
      BY <2>s DEF Output
    <3>4. NothingIsLost'
      BY <2>4, <2>t, <2>k, <2>s, <3>1, <3>2, <3>3 DEF SetData, NothingIsLost
    <3> QED
      BY <3>4
  <2>5. ASSUME NEW n \in Nodes, NEW x \in Vars, GetData(x, n) PROVE Named
    <3>1. \A k \in Nodes : Known(k) => Known(k)'
      BY <2>5, <2>t, StaysKnown DEF GetData
    <3>2. Known(n)' <=> IsNodeTainted(hash', document[n], n)
      BY <2>5 DEF GetData, Known
    <3>3. NothingIsLost'
      BY <2>5, <2>t, <2>k, <2>s, <3>1, <3>2 DEF GetData, Let, NothingIsLost
    <3> QED
      BY <3>3
  <2>6. ASSUME NEW n \in Nodes, NEW x \in Vars, NEW wide \in BOOLEAN, AppendData(n, x, wide)
        PROVE  Named
    <3>1. Output(n, x) \in BOOLEAN
      BY <2>t DEF Output
    <3>2. \A k \in Nodes : Known(k) => Known(k)'
      BY <2>6, <2>t, <3>1, StaysKnown DEF AppendData
    <3>3. scope.secret \/ strings[x].secret => Output(n, x)
      BY <2>s DEF Output
    <3>4. /\ \A k \in Nodes : text[k] => text'[k]
          /\ \A k \in Nodes \ {n} : textSecret'[k] = textSecret[k]
          /\ textSecret'[n] => textSecret[n] \/ Output(n, x)
          /\ Output(n, x) /\ ~wide => text'[n]
          /\ UNCHANGED <<existing, wrapper, strings, scope>>
      BY <2>6, <2>t, <3>1, <3>3 DEF AppendData, FlagAfterAppend
    <3>5. CASE Attached(n) /\ Output(n, x)
      <4>1. hash' = Marked(hash, document[n], n, Output(n, x)) /\ document' = document
        BY <2>6 DEF AppendData
      <4>2. Known(n)'
        BY <2>t, <3>5, <4>1, MarkedIsKnown DEF Known
      <4>3. NothingIsLost'
        BY <2>k, <2>s, <2>t, <3>2, <3>4, <4>2 DEF NothingIsLost
      <4> QED
        BY <4>3
    <3>6. CASE ~Output(n, x) \/ ~wide \/ text[n] \/ wrapper[n]
      <4>1. NothingIsLost'
        BY <2>k, <2>s, <2>t, <3>2, <3>4, <3>6 DEF NothingIsLost
      <4> QED
        BY <4>1
    <3>7. CASE ~Attached(n) /\ Output(n, x) /\ wide /\ ~text[n] /\ ~wrapper[n]
      BY <2>6, <3>7
    <3> QED
      BY <3>5, <3>6, <3>7
  <2>7. ASSUME NEW n \in Nodes, NEW x \in Vars, ReplaceData(n, x) PROVE Named
    <3>1. Output(n, x) \in BOOLEAN
      BY <2>t DEF Output
    <3>2. \A k \in Nodes : Known(k) => Known(k)'
      BY <2>7, <2>t, <3>1, StaysKnown DEF ReplaceData
    <3>3. scope.secret \/ strings[x].secret => Output(n, x)
      BY <2>s DEF Output
    <3>4. CASE Attached(n) /\ Output(n, x)
      <4>1. hash' = Marked(hash, document[n], n, Output(n, x)) /\ document' = document
        BY <2>7 DEF ReplaceData
      <4>2. Known(n)'
        BY <2>t, <3>4, <4>1, MarkedIsKnown DEF Known
      <4>3. NothingIsLost'
        BY <2>7, <2>t, <2>k, <2>s, <3>2, <4>2 DEF ReplaceData, NothingIsLost
      <4> QED
        BY <4>3
    <3>5. CASE ~Output(n, x) \/ text[n] \/ wrapper[n]
      <4>1. NothingIsLost'
        BY <2>7, <2>t, <2>k, <2>s, <3>2, <3>3, <3>5 DEF ReplaceData, NothingIsLost
      <4> QED
        BY <4>1
    <3>6. CASE ~Attached(n) /\ Output(n, x) /\ ~text[n] /\ ~wrapper[n]
      BY <2>7, <3>6
    <3> QED
      BY <3>4, <3>5, <3>6
  <2>8. ASSUME NEW n \in Nodes, NEW x \in Vars, SubstringData(x, n) PROVE Named
    <3> DEFINE out == scope.tainted \/ wrapper[n]
    <3>1. out \in BOOLEAN /\ hash' = Marked(hash, document[n], n, out)
      BY <2>8, <2>t DEF SubstringData
    <3>2. \A k \in Nodes : Known(k) => Known(k)'
      <4> HIDE DEF out
      <4> QED
        BY <2>8, <2>t, <3>1, StaysKnown DEF SubstringData
    <3>3. Known(n)' <=> IsNodeTainted(hash', document[n], n)
      BY <2>8 DEF SubstringData, Known
    <3>4. CASE ~KnownByText(n)
      <4>1. textSecret[n] => out \/ IsNodeTainted(hash', document[n], n)
        BY <2>8, <2>k, <3>2, <3>3, <3>4 DEF SubstringData, KnownByText
      <4>2. NothingIsLost'
        BY <2>8, <2>t, <2>k, <2>s, <3>2, <4>1 DEF SubstringData, Let, NothingIsLost
      <4> QED
        BY <4>2
    <3> QED
      BY <2>8, <3>4
  <2>9. ASSUME NEW m \in Nodes, NEW n \in Nodes, SplitText(m, n) \/ CloneNode(m, n)
        PROVE  Named
    <3>1. PICK doc \in Docs \cup {NoDoc} : Derive(m, n, doc)
      BY <2>9, <2>t DEF SplitText, CloneNode
    <3> DEFINE out == scope.tainted \/ wrapper[n]
    <3>2. out \in BOOLEAN /\ hash' = Marked(hash, document[n], n, out)
      BY <3>1, <2>t DEF Derive
    <3>3. \A k \in Nodes \ {m} : Known(k) => Known(k)'
      <4> HIDE DEF out
      <4> QED
        BY <3>1, <2>t, <3>2, StaysKnown DEF Derive
    <3>4. n # m /\ (Known(n)' <=> IsNodeTainted(hash', document[n], n))
      BY <3>1, <2>t DEF Derive, Known
    <3>5. CASE ~KnownByText(n)
      <4>1. textSecret[n] => wrapper'[m]
        BY <3>1, <2>t, <2>k, <3>3, <3>4, <3>5 DEF Derive, KnownByText
      <4>2. scope.secret => wrapper'[m]
        BY <3>1, <2>t, <2>s DEF Derive
      <4>3. /\ textSecret'[m] => wrapper'[m]
            /\ \A k \in existing : k # m /\ textSecret'[k] = textSecret[k]
                                  /\ wrapper'[k] = wrapper[k]
        BY <3>1, <2>t, <4>1, <4>2 DEF Derive
      <4>4. NothingIsLost'
        BY <3>1, <2>t, <2>k, <2>s, <3>3, <4>3 DEF Derive, NothingIsLost
      <4> QED
        BY <4>4
    <3> QED
      BY <2>9, <3>5
  <2>10. ASSUME NEW n \in Nodes, NEW x \in Vars, NEW wide \in BOOLEAN,
                CreateTextNode(n, x, wide)
         PROVE  Named
    <3>1. \A k \in Nodes : Known(k) => Known(k)'
      BY <2>10 DEF CreateTextNode, Known, IsNodeTainted
    <3>2. NothingIsLost'
      BY <2>10, <2>t, <2>k, <2>s, <3>1 DEF CreateTextNode, NothingIsLost, FlagAfterAppend
    <3> QED
      BY <3>2
  <2>11. ASSUME NEW n \in Nodes, RemoveChild(n) \/ \E d \in Docs : AppendChild(n, d)
         PROVE  Named
    <3>1. PICK d \in Docs, to \in Docs \cup {NoDoc} :
               /\ n \in existing /\ Moved(n, d, to)
               /\ to = document[n] \/ RemoveChild(n) \/ \E e \in Docs \ {document[n]} : AppendChild(n, e)
      BY <2>11, <2>t DEF RemoveChild, AppendChild
    <3> DEFINE out == scope.tainted \/ wrapper[n]
    <3>2. out \in BOOLEAN /\ hash' = Marked(hash, d, Body, out)
      BY <3>1, <2>t DEF Moved
    <3>3. \A k \in Nodes : document'[k] = document[k] /\ Known(k) => Known(k)'
      <4> HIDE DEF out
      <4> QED
        BY <2>t, <3>2, StaysKnown
    <3>4. /\ \A k \in Nodes : document'[k] = IF k = n THEN to ELSE document[k]
          /\ \A k \in Nodes : wrapper[k] => wrapper'[k]
          /\ text' = text /\ textSecret' = textSecret /\ existing' = existing
          /\ strings' = strings /\ scope' = scope
      BY <3>1, <2>t DEF Moved
    <3>5. CASE to = document[n] \/ ~KnownByDocument(n)
      <4>1. \A k \in existing : textSecret[k] => text[k] \/ wrapper'[k] \/ Known(k)'
        BY <2>t, <2>k, <3>3, <3>4, <3>5 DEF KnownByDocument
      <4>2. NothingIsLost'
        BY <2>s, <3>4, <4>1 DEF NothingIsLost
      <4> QED
        BY <4>2
    <3> QED
      BY <3>1, <3>5
  <2>12. ASSUME NEW n \in Nodes, CollectWrapper(n) PROVE Named
    <3>1. \A k \in Nodes : Known(k)' <=> Known(k)
      BY <2>12 DEF CollectWrapper, Known, IsNodeTainted
    <3>2. CASE ~KnownByWrapper(n)
      <4>1. NothingIsLost'
        BY <2>12, <2>t, <2>k, <2>s, <3>1, <3>2 DEF CollectWrapper, NothingIsLost, KnownByWrapper
      <4> QED
        BY <4>1
    <3> QED
      BY <2>12, <3>2
  <2> HIDE DEF Named
  <2> QED
    BY <2>1, <2>2, <2>3, <2>4, <2>5, <2>6, <2>7, <2>8, <2>9, <2>10, <2>11, <2>12 DEF Next
<1> QED
  BY <1>1, TypeCorrect, PTL DEF Spec, LossesAreNamed
=============================================================================
