-------------------------- MODULE RecognitionProofs --------------------------
(***************************************************************************)
(* Proofs about Recognition, for every set of requests, every catalogue    *)
(* and every table of similarities, and for any number of indexings that   *)
(* overlap, stop or are told a product twice.                              *)
(***************************************************************************)
EXTENDS Recognition, FiniteSetTheorems, FunctionTheorems, SequenceTheorems,
        WellFoundedInduction, TLAPS

-----------------------------------------------------------------------------
(* Type correctness. A step tells what is asked, and an indexing at work   *)
(* on a product has found it and its images.                               *)

Turning == {"delete", "wait", "insert"}

Begun(r) ==
    LET c == call[r]
    IN  /\ pc[r] = "idle" <=> c = NoCall
        /\ pc[r] # "done" => answer[r] = "" /\ named[r] = {}
        /\ pc[r] = "await" => /\ c.op = "frame" /\ c.image \in Image
                              /\ c.provider \in {"openclip", "openai"}
        /\ pc[r] \in Turning \cup {"product"} => c.op = "index"
        /\ pc[r] \in Turning => /\ queue[r] # <<>> /\ Head(queue[r]) \in Product
                                /\ embedded[r] # {}
        /\ pc[r] # "wait" => found[r] = {}
        /\ pc[r] # "insert" => deleted[r] = {}

TypeInv == TypeOK /\ \A r \in Req : Begun(r)

Frames(r) ==
    \/ Receive(r) \/ ProviderFails(r) \/ OpenAIAnswers(r) \/ OpenCLIPAnswers(r)

Indexes(r) ==
    \/ IndexStart(r) \/ IndexProduct(r) \/ IndexDelete(r) \/ IndexWait(r)
    \/ IndexCommit(r) \/ IndexStops(r)

Acts(r) == Frames(r) \/ Indexes(r) \/ Seed(r) \/ ChangeFiles(r)

\* The fields of a call, by its operation.
LEMMA CallFields ==
    ASSUME NEW c \in Call
    PROVE  /\ c.op = "frame" => c.image \in Image \cup {Unreadable}
                                  /\ c.provider \in Provider
           /\ c.op = "index" => c.products \in Seq(Product \cup {Stranger})
           /\ c.op = "seed" => c.catalogue \in [Product -> Entry]
           /\ c.op = "files" => c.files \in [Product -> SUBSET Picture]
           /\ c.op # "none" <=> c # NoCall
  BY DEF Call, NoCall

\* What a request sends is one of its calls.
LEMMA SendType ==
    ASSUME TypeOK, NEW r \in Req, NEW c \in CallsOf[r], Send(r, c)
    PROVE  /\ c \in Call /\ pc[r] = "idle"
           /\ call' \in [Req -> Call] /\ call'[r] = c
           /\ \A q \in Req \ {r} : call'[q] = call[q]
           /\ \A q \in Before[r] : pc[q] = "done"
  BY RecognitionAssumption DEF TypeOK, Send

\* A request that goes on.
LEMMA GotoType ==
    ASSUME TypeOK, NEW r \in Req,
           NEW step \in {"await", "product", "delete", "wait", "insert"},
           Goto(r, step)
    PROVE  /\ pc' \in [Req -> {"idle", "await", "product", "delete", "wait",
                               "insert", "done"}]
           /\ UNCHANGED answer /\ pc'[r] = step
           /\ \A q \in Req \ {r} : pc'[q] = pc[q]
  BY DEF TypeOK, Goto

\* One that answers.
LEMMA ReplyType ==
    ASSUME TypeOK, NEW r \in Req,
           NEW code \in {"400", "503", "UNKNOWN", "AMBIGUOUS", "MATCHED",
                         "indexed", "failed", "killed"},
           Reply(r, code)
    PROVE  /\ pc' \in [Req -> {"idle", "await", "product", "delete", "wait",
                               "insert", "done"}]
           /\ answer' \in [Req -> {"", "400", "503", "UNKNOWN", "AMBIGUOUS",
                                   "MATCHED", "indexed", "failed", "killed"}]
           /\ pc'[r] = "done" /\ answer'[r] = code
           /\ \A q \in Req \ {r} : pc'[q] = pc[q] /\ answer'[q] = answer[q]
  BY DEF TypeOK, Reply

\* A decision is an answer that names what the provider names of the candidates.
LEMMA SettleType ==
    ASSUME TypeOK, NEW r \in Req, NEW status \in {"UNKNOWN", "AMBIGUOUS", "MATCHED"},
           NEW ids, NEW allowed \in SUBSET Product, Settle(r, status, ids, allowed)
    PROVE  /\ \E code \in {"UNKNOWN", "AMBIGUOUS", "MATCHED"} : Reply(r, code)
           /\ named' \in [Req -> SUBSET Product]
           /\ named'[r] = named[r] \/ named'[r] = ids \cap allowed
           /\ \A q \in Req \ {r} : named'[q] = named[q]
<1>1. Allowed(ids, allowed) = ids \cap allowed
  BY DEF Allowed
<1>2. \/ Reply(r, "UNKNOWN") /\ UNCHANGED named
      \/ Reply(r, status) /\ named' = [named EXCEPT ![r] = ids \cap allowed]
  BY <1>1 DEF Settle
<1> QED
  BY <1>2 DEF TypeOK

\* Candidates are enabled products.
LEMMA CandidatesType ==
    ASSUME NEW k
    PROVE  \A p \in FirstOf(k) : p \in Product /\ Enabled(p)
  BY DEF FirstOf, Product

\* What the queue of an indexing has after its first product.
LEMMA QueueType ==
    ASSUME TypeOK, NEW r \in Req, queue[r] # <<>>
    PROVE  /\ Head(queue[r]) \in Product \cup {Stranger}
           /\ Tail(queue[r]) \in Seq(Product \cup {Stranger})
           /\ Len(queue[r]) \in Nat /\ Len(Tail(queue[r])) = Len(queue[r]) - 1
<1>1. queue[r] \in Seq(Product \cup {Stranger})
  BY DEF TypeOK
<1> QED
  BY <1>1, HeadTailProperties, LenProperties

\* Every step serves one request that is not answered: its first step sends
\* the call, later ones leave it alone.
LEMMA HowItGoesOn ==
    ASSUME TypeOK, NEW x \in Req, Acts(x)
    PROVE  /\ pc[x] # "done"
           /\ pc[x] = "idle" => \E c \in CallsOf[x] : Send(x, c)
           /\ pc[x] # "idle" => UNCHANGED call
           /\ \/ \E step \in {"await", "product", "delete", "wait", "insert"} :
                    Goto(x, step)
              \/ \E code \in {"400", "503", "UNKNOWN", "AMBIGUOUS", "MATCHED",
                              "indexed", "failed", "killed"} : Reply(x, code)
<1>1. CASE Receive(x)
  <2>1. PICK c \in CallsOf[x] :
          /\ Send(x, c)
          /\ \/ \E code \in {"503", "400"} : Reply(x, code)
             \/ Settle(x, "UNKNOWN", {}, {})
             \/ Settle(x, ScriptedStatus, ScriptedIds, Candidates)
             \/ Goto(x, "await")
    BY <1>1 DEF Receive
  <2>2. Candidates \in SUBSET Product
    BY CandidatesType DEF Candidates
  <2>3. ScriptedStatus \in {"UNKNOWN", "AMBIGUOUS", "MATCHED"}
    BY RecognitionAssumption
  <2>4. {} \in SUBSET Product
    OBVIOUS
  <2> QED
    BY <2>1, <2>2, <2>3, <2>4, SendType, SettleType
<1>2. CASE OpenAIAnswers(x) \/ OpenCLIPAnswers(x)
  <2>1. \E status \in {"UNKNOWN", "AMBIGUOUS", "MATCHED"} : \E ids :
           Settle(x, status, ids, candidates[x])
    BY <1>2 DEF OpenAIAnswers, OpenCLIPAnswers
  <2>2. pc[x] = "await" /\ UNCHANGED call
    BY <1>2 DEF OpenAIAnswers, OpenCLIPAnswers
  <2>3. candidates[x] \in SUBSET Product
    BY DEF TypeOK
  <2> QED
    BY <2>1, <2>2, <2>3, SettleType
<1>3. CASE ProviderFails(x)
  BY <1>3 DEF ProviderFails
<1>4. CASE IndexStart(x) \/ Seed(x) \/ ChangeFiles(x)
  <2>1. \E c \in CallsOf[x] : Send(x, c)
    BY <1>4 DEF IndexStart, Seed, ChangeFiles
  <2>2. Goto(x, "product") \/ Reply(x, "indexed")
    BY <1>4 DEF IndexStart, Seed, ChangeFiles
  <2> QED
    BY <2>1, <2>2, SendType
<1>5. CASE IndexProduct(x)
  BY <1>5 DEF IndexProduct
<1>6. CASE IndexDelete(x) \/ IndexWait(x) \/ IndexCommit(x)
  BY <1>6 DEF IndexDelete, IndexWait, IndexCommit
<1>7. CASE IndexStops(x)
  BY <1>7 DEF IndexStops
<1> QED
  BY <1>1, <1>2, <1>3, <1>4, <1>5, <1>6, <1>7 DEF Acts, Frames, Indexes

\* What a step of x leaves alone.
LEMMA OneMoves ==
    ASSUME TypeOK, NEW x \in Req, Acts(x)
    PROVE  /\ call' \in [Req -> Call]
           /\ pc' \in [Req -> {"idle", "await", "product", "delete", "wait",
                               "insert", "done"}]
           /\ answer' \in [Req -> {"", "400", "503", "UNKNOWN", "AMBIGUOUS",
                                   "MATCHED", "indexed", "failed", "killed"}]
           /\ pc'[x] # "idle"
           /\ pc'[x] # "done" => answer'[x] = answer[x]
           /\ \A q \in Req \ {x} :
                 pc'[q] = pc[q] /\ answer'[q] = answer[q] /\ call'[q] = call[q]
<1>1. /\ call' \in [Req -> Call]
      /\ \A q \in Req \ {x} : call'[q] = call[q]
  <2>1. CASE pc[x] = "idle"
    BY <2>1, HowItGoesOn, SendType
  <2>2. CASE pc[x] # "idle"
    BY <2>2, HowItGoesOn DEF TypeOK
  <2> QED
    BY <2>1, <2>2
<1>2. /\ pc' \in [Req -> {"idle", "await", "product", "delete", "wait",
                          "insert", "done"}]
      /\ answer' \in [Req -> {"", "400", "503", "UNKNOWN", "AMBIGUOUS",
                              "MATCHED", "indexed", "failed", "killed"}]
      /\ pc'[x] # "idle"
      /\ pc'[x] # "done" => answer'[x] = answer[x]
      /\ \A q \in Req \ {x} : pc'[q] = pc[q] /\ answer'[q] = answer[q]
  <2>1. CASE \E step \in {"await", "product", "delete", "wait", "insert"} :
                Goto(x, step)
    BY <2>1, GotoType DEF TypeOK
  <2>2. CASE \E code \in {"400", "503", "UNKNOWN", "AMBIGUOUS", "MATCHED",
                         "indexed", "failed", "killed"} : Reply(x, code)
    BY <2>2, ReplyType
  <2> QED
    BY <2>1, <2>2, HowItGoesOn
<1> QED
  BY <1>1, <1>2

\* Frames and indexings write their own; what there was of the others stays.
LEMMA FrameMoves ==
    ASSUME TypeOK, NEW x \in Req, Acts(x)
    PROVE  /\ candidates' \in [Req -> SUBSET Product]
           /\ named' \in [Req -> SUBSET Product]
           /\ \A q \in Req \ {x} :
                 candidates'[q] = candidates[q] /\ named'[q] = named[q]
           /\ pc'[x] # "done" => named'[x] = named[x]
<1>1. CASE Receive(x)
  <2>1. UNCHANGED candidates \/ candidates' = [candidates EXCEPT ![x] = Candidates]
    BY <1>1 DEF Receive, frame
  <2>2. Candidates \in SUBSET Product
    BY CandidatesType DEF Candidates
  <2>3. \/ UNCHANGED named
        \/ Settle(x, "UNKNOWN", {}, {})
        \/ Settle(x, ScriptedStatus, ScriptedIds, Candidates)
    BY <1>1 DEF Receive, frame
  <2>4. ScriptedStatus \in {"UNKNOWN", "AMBIGUOUS", "MATCHED"}
    BY RecognitionAssumption
  <2>5. {} \in SUBSET Product
    OBVIOUS
  <2>6. /\ candidates' \in [Req -> SUBSET Product]
        /\ \A q \in Req \ {x} : candidates'[q] = candidates[q]
    BY <2>1, <2>2 DEF TypeOK
  <2>7. \/ UNCHANGED named
        \/ /\ named' \in [Req -> SUBSET Product] /\ pc'[x] = "done"
           /\ \A q \in Req \ {x} : named'[q] = named[q]
    BY <2>2, <2>3, <2>4, <2>5, SettleType, ReplyType
  <2> QED
    BY <2>6, <2>7 DEF TypeOK
<1>2. CASE OpenAIAnswers(x) \/ OpenCLIPAnswers(x)
  <2>1. \E status \in {"UNKNOWN", "AMBIGUOUS", "MATCHED"} : \E ids :
           Settle(x, status, ids, candidates[x])
    BY <1>2 DEF OpenAIAnswers, OpenCLIPAnswers
  <2>2. candidates[x] \in SUBSET Product
    BY DEF TypeOK
  <2>3. UNCHANGED candidates
    BY <1>2 DEF OpenAIAnswers, OpenCLIPAnswers
  <2>4. /\ named' \in [Req -> SUBSET Product] /\ pc'[x] = "done"
        /\ \A q \in Req \ {x} : named'[q] = named[q]
    BY <2>1, <2>2, SettleType, ReplyType
  <2> QED
    BY <2>3, <2>4 DEF TypeOK
<1>3. CASE ProviderFails(x) \/ Indexes(x) \/ Seed(x) \/ ChangeFiles(x)
  <2>1. UNCHANGED <<candidates, named>>
    BY <1>3 DEF ProviderFails, Indexes, IndexStart, IndexProduct, IndexDelete,
       IndexWait, IndexCommit, IndexStops, Seed, ChangeFiles, frame
  <2> QED
    BY <2>1 DEF TypeOK
<1> QED
  BY <1>1, <1>2, <1>3 DEF Acts, Frames

\* An indexing writes only what is its own, and nothing else writes that.
LEMMA ScriptMoves ==
    ASSUME TypeInv, NEW x \in Req, Acts(x)
    PROVE  /\ queue' \in [Req -> Seq(Product \cup {Stranger})]
           /\ embedded' \in [Req -> SUBSET Picture]
           /\ found' \in [Req -> SUBSET Vector]
           /\ deleted' \in [Req -> SUBSET Vector]
           /\ \A q \in Req \ {x} : /\ queue'[q] = queue[q] /\ embedded'[q] = embedded[q]
                                   /\ found'[q] = found[q] /\ deleted'[q] = deleted[q]
           /\ ~Indexes(x) => UNCHANGED script
<1> USE DEF TypeInv
<1>1. CASE ~Indexes(x)
  <2>1. UNCHANGED <<queue, embedded, found, deleted>>
    BY <1>1 DEF Acts, Frames, Receive, ProviderFails, OpenAIAnswers, OpenCLIPAnswers,
       Seed, ChangeFiles, script
  <2> QED
    BY <2>1 DEF TypeOK, script
<1>2. CASE IndexStart(x)
  <2>1. PICK c \in CallsOf[x] : /\ c.op = "index" /\ Send(x, c)
                                /\ queue' = [queue EXCEPT ![x] = Listed(c)]
    BY <1>2 DEF IndexStart
  <2>2. Listed(c) \in Seq(Product \cup {Stranger})
    BY <2>1, SendType, CallFields, RecognitionAssumption DEF Listed
  <2>3. UNCHANGED <<embedded, found, deleted>>
    BY <1>2 DEF IndexStart
  <2>4. Indexes(x)
    BY <1>2 DEF Indexes
  <2> QED
    BY <2>1, <2>2, <2>3, <2>4 DEF TypeOK
<1>3. CASE IndexProduct(x)
  <2>1. /\ UNCHANGED <<queue, found, deleted>>
        /\ UNCHANGED embedded \/ \E p \in Product : embedded' = [embedded EXCEPT ![x] = files[p]]
    BY <1>3 DEF IndexProduct
  <2>2. Indexes(x)
    BY <1>3 DEF Indexes
  <2> QED
    BY <2>1, <2>2 DEF TypeOK
<1>4. CASE IndexDelete(x)
  <2>1. /\ UNCHANGED <<queue, embedded, deleted>>
        /\ found' = [found EXCEPT ![x] = {v \in vectors : v.product = Head(queue[x])}]
    BY <1>4 DEF IndexDelete
  <2>2. Indexes(x)
    BY <1>4 DEF Indexes
  <2> QED
    BY <2>1, <2>2 DEF TypeOK
<1>5. CASE IndexWait(x)
  <2>1. /\ UNCHANGED <<queue, embedded>>
        /\ found' = [found EXCEPT ![x] = {}]
        /\ deleted' = [deleted EXCEPT ![x] = found[x] \cap vectors]
    BY <1>5 DEF IndexWait, Deletable
  <2>2. Indexes(x)
    BY <1>5 DEF Indexes
  <2> QED
    BY <2>1, <2>2 DEF TypeOK
<1>6. CASE IndexCommit(x)
  <2>1. /\ UNCHANGED <<embedded, found>>
        /\ deleted' = [deleted EXCEPT ![x] = {}]
        /\ queue' = [queue EXCEPT ![x] = Tail(queue[x])]
        /\ pc[x] = "insert"
    BY <1>6 DEF IndexCommit, TypeOK
  <2>2. Tail(queue[x]) \in Seq(Product \cup {Stranger})
    BY <2>1, QueueType DEF Begun, Turning
  <2>3. Indexes(x)
    BY <1>6 DEF Indexes
  <2> QED
    BY <2>1, <2>2, <2>3 DEF TypeOK
<1>7. CASE IndexStops(x)
  <2>1. /\ UNCHANGED <<queue, embedded>>
        /\ found' = [found EXCEPT ![x] = {}]
        /\ deleted' = [deleted EXCEPT ![x] = {}]
    BY <1>7 DEF IndexStops
  <2>2. Indexes(x)
    BY <1>7 DEF Indexes
  <2> QED
    BY <2>1, <2>2 DEF TypeOK
<1> QED
  BY <1>1, <1>2, <1>3, <1>4, <1>5, <1>6, <1>7 DEF Indexes

\* The rows of a commit are vectors.
LEMMA VectorsType ==
    ASSUME NEW p \in Product, NEW pictures \in SUBSET Picture, NEW turn \in Turn
    PROVE  /\ VectorsOf(p, pictures, turn) \in SUBSET Vector
           /\ \A v \in VectorsOf(p, pictures, turn) :
                 v.product = p /\ v.by = turn /\ v.picture \in pictures
           /\ \A i \in pictures : \E v \in VectorsOf(p, pictures, turn) : v.picture = i
<1>1. \A i \in pictures : [product |-> p, picture |-> i, by |-> turn] \in Vector
  BY DEF Vector
<1>2. \A v \in VectorsOf(p, pictures, turn) : \E i \in pictures :
         v = [product |-> p, picture |-> i, by |-> turn]
  BY DEF VectorsOf
<1>3. \A i \in pictures :
         [product |-> p, picture |-> i, by |-> turn] \in VectorsOf(p, pictures, turn)
  BY DEF VectorsOf
<1>4. \A i \in pictures : \E v \in VectorsOf(p, pictures, turn) : v.picture = i
  BY <1>3
<1>5. \A v \in VectorsOf(p, pictures, turn) :
         v.product = p /\ v.by = turn /\ v.picture \in pictures
  BY <1>2
<1>6. VectorsOf(p, pictures, turn) \in SUBSET Vector
  BY <1>1, <1>2
<1> QED
  BY <1>4, <1>5, <1>6

\* Only a seed writes the catalogue, a change of the files the files, a commit
\* the vectors.
LEMMA DatabaseMoves ==
    ASSUME TypeInv, NEW x \in Req, Acts(x)
    PROVE  /\ catalogue' \in [Product -> Entry] /\ files' \in [Product -> SUBSET Picture]
           /\ vectors' \subseteq Vector
           /\ ~Seed(x) => UNCHANGED catalogue
           /\ ~ChangeFiles(x) => UNCHANGED files
           /\ ~IndexCommit(x) => UNCHANGED vectors
<1> USE DEF TypeInv
<1>1. CASE Frames(x) \/ IndexStart(x) \/ IndexProduct(x) \/ IndexDelete(x)
              \/ IndexWait(x) \/ IndexStops(x)
  <2>1. UNCHANGED <<catalogue, files, vectors>>
    BY <1>1 DEF Frames, Receive, ProviderFails, OpenAIAnswers, OpenCLIPAnswers,
       IndexStart, IndexProduct, IndexDelete, IndexWait, IndexStops, database
  <2> QED
    BY <2>1 DEF TypeOK
<1>2. CASE IndexCommit(x)
  <2> DEFINE turn == [run |-> x, left |-> Len(queue[x])]
             new == VectorsOf(Head(queue[x]), embedded[x], turn)
  <2>1. /\ UNCHANGED <<catalogue, files>> /\ pc[x] = "insert"
        /\ vectors' = (vectors \ deleted[x]) \cup new
    BY <1>2 DEF IndexCommit
  <2>2. turn \in Turn
    BY <2>1, QueueType DEF Begun, Turning, Turn
  <2>3. Head(queue[x]) \in Product /\ embedded[x] \in SUBSET Picture
    BY <2>1 DEF Begun, Turning, TypeOK
  <2> HIDE DEF turn
  <2>4. new \in SUBSET Vector
    BY <2>2, <2>3, VectorsType
  <2> HIDE DEF new
  <2>5. vectors' \subseteq Vector
    BY <2>1, <2>4 DEF TypeOK
  <2> QED
    BY <1>2, <2>1, <2>5 DEF TypeOK
<1>3. CASE Seed(x)
  <2>1. PICK c \in CallsOf[x] : /\ c.op = "seed" /\ Send(x, c)
                                /\ catalogue' = [p \in Product |->
                                      IF c.catalogue[p] = "absent" THEN catalogue[p]
                                      ELSE c.catalogue[p]]
    BY <1>3 DEF Seed
  <2>2. c.catalogue \in [Product -> Entry]
    BY <2>1, SendType, CallFields
  <2>3. UNCHANGED <<files, vectors>>
    BY <1>3 DEF Seed
  <2> QED
    BY <1>3, <2>1, <2>2, <2>3 DEF TypeOK
<1>4. CASE ChangeFiles(x)
  <2>1. PICK c \in CallsOf[x] : c.op = "files" /\ Send(x, c) /\ files' = c.files
    BY <1>4 DEF ChangeFiles
  <2>2. c.files \in [Product -> SUBSET Picture]
    BY <2>1, SendType, CallFields
  <2>3. UNCHANGED <<catalogue, vectors>>
    BY <1>4 DEF ChangeFiles
  <2> QED
    BY <1>4, <2>1, <2>2, <2>3 DEF TypeOK
<1> QED
  BY <1>1, <1>2, <1>3, <1>4 DEF Acts, Indexes

\* The steps of a frame.
LEMMA FramesKeepBegun ==
    ASSUME TypeInv, NEW x \in Req, Frames(x)
    PROVE  Begun(x)'
<1>0. /\ TypeOK /\ Begun(x) /\ Acts(x)
      /\ UNCHANGED <<queue, embedded, found, deleted>>
  BY DEF TypeInv, Acts, Frames, Receive, ProviderFails, OpenAIAnswers,
     OpenCLIPAnswers, script
<1>1. CASE Receive(x)
  <2>1. PICK c \in CallsOf[x] :
          /\ Send(x, c) /\ c.op = "frame"
          /\ \/ \E code \in {"503", "400"} : Reply(x, code)
             \/ Settle(x, "UNKNOWN", {}, {})
             \/ Settle(x, ScriptedStatus, ScriptedIds, Candidates)
             \/ /\ c.provider \in {"openclip", "openai"} /\ c.image # Unreadable
                /\ Goto(x, "await") /\ UNCHANGED named
    BY <1>1 DEF Receive
  <2>2. /\ c \in Call /\ pc[x] = "idle" /\ call'[x] = c
        /\ c.image \in Image \cup {Unreadable} /\ c # NoCall
    BY <1>0, <2>1, SendType, CallFields
  <2>3. found[x] = {} /\ deleted[x] = {} /\ answer[x] = "" /\ named[x] = {}
    BY <1>0, <2>2 DEF Begun
  <2>4. CASE Goto(x, "await")
    <3>1. pc'[x] = "await" /\ answer'[x] = answer[x]
      BY <1>0, <2>4, GotoType
    <3>2. UNCHANGED named /\ c.provider \in {"openclip", "openai"} /\ c.image # Unreadable
      <4>1. pc'[x] # "done"
        BY <3>1
      <4>2. \A code \in {"503", "400", "UNKNOWN", "AMBIGUOUS", "MATCHED"} : ~Reply(x, code)
        BY <1>0, <4>1, ReplyType
      <4>3. \A status \in {"UNKNOWN", "AMBIGUOUS", "MATCHED"} : \A ids :
               \A allowed \in SUBSET Product : ~Settle(x, status, ids, allowed)
        BY <1>0, <4>2, SettleType
      <4>4. {} \in SUBSET Product /\ Candidates \in SUBSET Product
        BY CandidatesType DEF Candidates
      <4>5. ScriptedStatus \in {"UNKNOWN", "AMBIGUOUS", "MATCHED"}
        BY RecognitionAssumption
      <4> QED
        BY <2>1, <4>2, <4>3, <4>4, <4>5
    <3> QED
      BY <1>0, <2>1, <2>2, <2>3, <3>1, <3>2 DEF Begun, Turning
  <2>5. CASE ~Goto(x, "await")
    <3>1. {} \in SUBSET Product /\ Candidates \in SUBSET Product
      BY CandidatesType DEF Candidates
    <3>2. ScriptedStatus \in {"UNKNOWN", "AMBIGUOUS", "MATCHED"}
      BY RecognitionAssumption
    <3>3. \E code \in {"503", "400", "UNKNOWN", "AMBIGUOUS", "MATCHED"} : Reply(x, code)
      BY <1>0, <2>1, <2>5, <3>1, <3>2, SettleType
    <3>4. pc'[x] = "done"
      BY <1>0, <3>3, ReplyType
    <3> QED
      BY <1>0, <2>2, <2>3, <3>4 DEF Begun, Turning
  <2> QED
    BY <2>4, <2>5
<1>2. CASE ProviderFails(x) \/ OpenAIAnswers(x) \/ OpenCLIPAnswers(x)
  <2>1. pc[x] = "await" /\ UNCHANGED call
    BY <1>2 DEF ProviderFails, OpenAIAnswers, OpenCLIPAnswers
  <2>2. \/ \E status \in {"UNKNOWN", "AMBIGUOUS", "MATCHED"} : \E ids :
              Settle(x, status, ids, candidates[x])
        \/ Reply(x, "503")
    BY <1>2 DEF ProviderFails, OpenAIAnswers, OpenCLIPAnswers
  <2>3. candidates[x] \in SUBSET Product
    BY <1>0 DEF TypeOK
  <2>4. \E code \in {"503", "UNKNOWN", "AMBIGUOUS", "MATCHED"} : Reply(x, code)
    BY <1>0, <2>2, <2>3, SettleType
  <2>5. pc'[x] = "done"
    BY <1>0, <2>4, ReplyType
  <2> QED
    BY <1>0, <2>1, <2>5 DEF Begun, Turning
<1> QED
  BY <1>1, <1>2 DEF Frames

\* The steps of an indexing.
LEMMA IndexesKeepBegun ==
    ASSUME TypeInv, NEW x \in Req, Indexes(x)
    PROVE  Begun(x)'
<1>0. /\ TypeOK /\ Begun(x) /\ Acts(x) /\ UNCHANGED named
  BY DEF TypeInv, Acts, Indexes, IndexStart, IndexProduct, IndexDelete, IndexWait,
     IndexCommit, IndexStops, frame
<1>1. CASE IndexStart(x)
  <2>1. PICK c \in CallsOf[x] : Send(x, c) /\ c.op = "index"
    BY <1>1 DEF IndexStart
  <2>2. c \in Call /\ pc[x] = "idle" /\ call'[x] = c /\ c # NoCall
    BY <1>0, <2>1, SendType, CallFields
  <2>3. /\ pc'[x] = "product" /\ UNCHANGED <<answer, found, deleted>>
    BY <1>0, <1>1, GotoType DEF IndexStart
  <2> QED
    BY <1>0, <2>1, <2>2, <2>3 DEF Begun, Turning
<1>2. CASE IndexProduct(x)
  <2>1. pc[x] = "product" /\ UNCHANGED <<call, queue, found, deleted>>
    BY <1>2 DEF IndexProduct
  <2>2. CASE Goto(x, "delete")
    <3>1. pc'[x] = "delete" /\ UNCHANGED answer
      BY <1>0, <2>2, GotoType
    <3>2. \A code \in {"indexed", "failed"} : ~Reply(x, code)
      BY <1>0, <3>1, ReplyType
    <3>3. /\ queue[x] # <<>> /\ Head(queue[x]) \in Product
          /\ HasImages(Head(queue[x]))
          /\ embedded' = [embedded EXCEPT ![x] = files[Head(queue[x])]]
      BY <1>2, <3>2 DEF IndexProduct
    <3>4. embedded'[x] # {}
      BY <1>0, <3>3 DEF HasImages, TypeOK
    <3> QED
      BY <1>0, <2>1, <3>1, <3>3, <3>4 DEF Begun, Turning
  <2>3. CASE \E code \in {"indexed", "failed"} : Reply(x, code)
    <3>1. pc'[x] = "done"
      BY <1>0, <2>3, ReplyType
    <3> QED
      BY <1>0, <2>1, <3>1 DEF Begun, Turning
  <2> QED
    BY <1>2, <2>2, <2>3 DEF IndexProduct
<1>3. CASE IndexDelete(x)
  <2>1. pc[x] = "delete" /\ UNCHANGED <<call, queue, embedded, deleted>>
    BY <1>3 DEF IndexDelete
  <2>2. pc'[x] = "wait" /\ UNCHANGED answer
    BY <1>0, <1>3, GotoType DEF IndexDelete
  <2> QED
    BY <1>0, <2>1, <2>2 DEF Begun, Turning
<1>4. CASE IndexWait(x)
  <2>1. /\ pc[x] = "wait" /\ UNCHANGED <<call, queue, embedded>>
        /\ found' = [found EXCEPT ![x] = {}]
    BY <1>4 DEF IndexWait
  <2>2. pc'[x] = "insert" /\ UNCHANGED answer /\ found'[x] = {}
    BY <1>0, <1>4, <2>1, GotoType DEF IndexWait, TypeOK
  <2> QED
    BY <1>0, <2>1, <2>2 DEF Begun, Turning
<1>5. CASE IndexCommit(x)
  <2>1. /\ pc[x] = "insert" /\ UNCHANGED <<call, embedded, found>>
        /\ deleted' = [deleted EXCEPT ![x] = {}]
    BY <1>5 DEF IndexCommit
  <2>2. pc'[x] = "product" /\ UNCHANGED answer /\ deleted'[x] = {}
    BY <1>0, <1>5, <2>1, GotoType DEF IndexCommit, TypeOK
  <2> QED
    BY <1>0, <2>1, <2>2 DEF Begun, Turning
<1>6. CASE IndexStops(x)
  <2>1. /\ pc[x] \in {"product", "delete", "wait", "insert"} /\ UNCHANGED call
        /\ found' = [found EXCEPT ![x] = {}]
        /\ deleted' = [deleted EXCEPT ![x] = {}]
    BY <1>6 DEF IndexStops
  <2>2. pc'[x] = "done" /\ found'[x] = {} /\ deleted'[x] = {}
    BY <1>0, <1>6, <2>1, ReplyType DEF IndexStops, TypeOK
  <2> QED
    BY <1>0, <2>1, <2>2 DEF Begun, Turning
<1> QED
  BY <1>1, <1>2, <1>3, <1>4, <1>5, <1>6 DEF Indexes

\* Every step keeps the type invariant.
LEMMA StepKeepsType ==
    ASSUME TypeInv, NEW x \in Req, Acts(x)
    PROVE  TypeInv'
<1>0. TypeOK /\ Begun(x)
  BY DEF TypeInv
<1>1. TypeOK'
  <2>1. /\ catalogue' \in [Product -> Entry] /\ files' \in [Product -> SUBSET Picture]
        /\ vectors' \subseteq Vector
    BY DatabaseMoves
  <2>2. /\ queue' \in [Req -> Seq(Product \cup {Stranger})]
        /\ embedded' \in [Req -> SUBSET Picture]
        /\ found' \in [Req -> SUBSET Vector]
        /\ deleted' \in [Req -> SUBSET Vector]
    BY ScriptMoves
  <2>3. /\ candidates' \in [Req -> SUBSET Product]
        /\ named' \in [Req -> SUBSET Product]
    BY <1>0, FrameMoves
  <2>4. /\ call' \in [Req -> Call]
        /\ pc' \in [Req -> {"idle", "await", "product", "delete", "wait",
                            "insert", "done"}]
        /\ answer' \in [Req -> {"", "400", "503", "UNKNOWN", "AMBIGUOUS",
                                "MATCHED", "indexed", "failed", "killed"}]
    BY <1>0, OneMoves
  <2> QED
    BY <2>1, <2>2, <2>3, <2>4 DEF TypeOK
<1>2. Begun(x)'
  <2>1. CASE Seed(x) \/ ChangeFiles(x)
    <3>1. PICK c \in CallsOf[x] : Send(x, c) /\ c.op \in {"seed", "files"}
      BY <2>1 DEF Seed, ChangeFiles
    <3>2. Reply(x, "indexed") /\ UNCHANGED <<found, deleted>>
      BY <2>1 DEF Seed, ChangeFiles, script
    <3>3. pc'[x] = "done" /\ pc[x] = "idle" /\ call'[x] = c /\ c # NoCall
      BY <1>0, <3>1, <3>2, SendType, ReplyType, CallFields
    <3> QED
      BY <1>0, <3>2, <3>3 DEF Begun, Turning
  <2> QED
    BY <2>1, FramesKeepBegun, IndexesKeepBegun DEF Acts
<1>3. ASSUME NEW q \in Req \ {x}
      PROVE  Begun(q)'
  <2>1. /\ pc'[q] = pc[q] /\ answer'[q] = answer[q] /\ call'[q] = call[q]
    BY <1>0, OneMoves
  <2>2. /\ queue'[q] = queue[q] /\ embedded'[q] = embedded[q]
        /\ found'[q] = found[q] /\ deleted'[q] = deleted[q]
    BY ScriptMoves
  <2>3. named'[q] = named[q]
    BY <1>0, FrameMoves
  <2>4. Begun(q)
    BY DEF TypeInv
  <2> QED
    BY <2>1, <2>2, <2>3, <2>4 DEF Begun, Turning
<1> QED
  BY <1>1, <1>2, <1>3 DEF TypeInv

\* At the beginning.
LEMMA InitType == Init => TypeInv
<1> SUFFICES ASSUME Init PROVE TypeInv
  OBVIOUS
<1>1. /\ pc = [r \in Req |-> "idle"] /\ call = [r \in Req |-> NoCall]
      /\ answer = [r \in Req |-> ""]
  BY DEF Init, RequestInit
<1>2. \A r \in Req : Begun(r)
  BY <1>1 DEF Begun, Turning, Init, NoCall
<1>3. vectors \subseteq Vector
  <2>1. AtFirst \in Turn
    BY DEF AtFirst, Turn
  <2>2. \A p \in InitIndexed : p \in Product /\ InitFiles[p] \in SUBSET Picture
    BY RecognitionAssumption
  <2>3. \A p \in InitIndexed : VectorsOf(p, InitFiles[p], AtFirst) \in SUBSET Vector
    BY <2>1, <2>2, VectorsType
  <2> QED
    BY <2>3 DEF Init
<1>4. NoCall \in Call
  BY DEF Call
<1>5. catalogue \in [Product -> Entry] /\ files \in [Product -> SUBSET Picture]
  BY RecognitionAssumption DEF Init
<1>6. /\ queue \in [Req -> Seq(Product \cup {Stranger})]
      /\ candidates \in [Req -> SUBSET Product]
      /\ named \in [Req -> SUBSET Product]
      /\ embedded \in [Req -> SUBSET Picture]
      /\ found \in [Req -> SUBSET Vector]
      /\ deleted \in [Req -> SUBSET Vector]
  BY DEF Init
<1> QED
  BY <1>1, <1>2, <1>3, <1>4, <1>5, <1>6 DEF TypeInv, TypeOK

\* What Next does, by who does it.
LEMMA NextIs == Next <=> (\E x \in Req : Acts(x)) \/ Quiet
  BY DEF Next, Acts, Frames, Indexes

\* What nobody touches stays of its type.
LEMMA StutterKeepsType == TypeInv /\ UNCHANGED vars => TypeInv'
<1> SUFFICES ASSUME TypeInv, UNCHANGED vars PROVE TypeInv'
  OBVIOUS
<1>1. UNCHANGED <<catalogue, files, vectors, pc, call, candidates, named, queue,
                  embedded, found, deleted, answer>>
  BY DEF vars, database, frame, script
<1> QED
  BY <1>1 DEF TypeInv, TypeOK, Begun

\* TypeInv holds of every behaviour.
THEOREM TypeInvariant == Spec => []TypeInv
<1>1. TypeInv /\ [Next]_vars => TypeInv'
  BY NextIs, StepKeepsType, StutterKeepsType DEF Quiet
<1> QED
  BY <1>1, InitType, PTL DEF Spec

\* Every state of the catalogue, of the files, of the vectors and of the
\* requests is one the code can write.
THEOREM TypeCorrect == Spec => []TypeOK
<1>1. TypeInv => TypeOK
  BY DEF TypeInv
<1> QED
  BY <1>1, TypeInvariant, PTL

-----------------------------------------------------------------------------
(* What was asked stays, so what is said of all that was asked only grows.  *)

\* What a request has asked, it has asked.
LEMMA CallsStay ==
    ASSUME TypeInv, NEW x \in Req, Acts(x), NEW q \in Req, call[q].op # "none"
    PROVE  call'[q] = call[q]
<1>1. CASE q = x
  <2>1. call[x] # NoCall
    BY <1>1 DEF NoCall
  <2>2. pc[x] # "idle"
    BY <2>1 DEF TypeInv, Begun
  <2> QED
    BY <1>1, <2>2, HowItGoesOn DEF TypeInv
<1>2. CASE q # x
  BY <1>2, OneMoves DEF TypeInv
<1> QED
  BY <1>1, <1>2

\* The sets of images a product has had are still those later on.
LEMMA PictureSetsGrow ==
    ASSUME TypeInv, NEW x \in Req, Acts(x), NEW p \in Product
    PROVE  PictureSets(p) \subseteq PictureSets(p)'
<1> SUFFICES ASSUME NEW S \in PictureSets(p)
             PROVE  S \in PictureSets(p)'
  OBVIOUS
<1>1. CASE S = InitFiles[p]
  BY <1>1 DEF PictureSets
<1>2. CASE \E q \in Req : call[q].op = "files" /\ S = call[q].files[p]
  <2>1. PICK q \in Req : call[q].op = "files" /\ S = call[q].files[p]
    BY <1>2
  <2>2. call'[q] = call[q]
    BY <2>1, CallsStay
  <2> QED
    BY <2>1, <2>2 DEF PictureSets
<1> QED
  BY <1>1, <1>2 DEF PictureSets

\* A product that has been enabled has been so.
LEMMA EverEnabledGrows ==
    ASSUME TypeInv, NEW x \in Req, Acts(x)
    PROVE  EverEnabled \subseteq EverEnabled'
<1> SUFFICES ASSUME NEW p \in EverEnabled
             PROVE  p \in EverEnabled'
  OBVIOUS
<1>1. CASE InitCatalogue[p] = "on"
  BY <1>1 DEF EverEnabled
<1>2. CASE \E q \in Req : call[q].op = "seed" /\ call[q].catalogue[p] = "on"
  <2>1. PICK q \in Req : call[q].op = "seed" /\ call[q].catalogue[p] = "on"
    BY <1>2
  <2>2. call'[q] = call[q]
    BY <2>1, CallsStay
  <2> QED
    BY <2>1, <2>2 DEF EverEnabled
<1> QED
  BY <1>1, <1>2 DEF EverEnabled

-----------------------------------------------------------------------------
(* Who comes before whom.                                                  *)

\* A request is sent when those before it are answered.
SentInTurn == \A r \in Req : pc[r] # "idle" => \A b \in Before[r] : pc[b] = "done"

\* No step sends a request before its time.
LEMMA StepKeepsTurns ==
    ASSUME TypeInv, SentInTurn, NEW x \in Req, Acts(x)
    PROVE  SentInTurn'
<1> SUFFICES ASSUME NEW r \in Req, pc'[r] # "idle", NEW b \in Before[r]
             PROVE  pc'[b] = "done"
  BY DEF SentInTurn
<1>0. TypeOK /\ b \in Req
  BY RecognitionAssumption DEF TypeInv
<1>1. pc[b] = "done"
  <2>1. CASE pc[r] # "idle"
    BY <2>1 DEF SentInTurn
  <2>2. CASE pc[r] = "idle"
    <3>1. r = x
      BY <1>0, <2>2, OneMoves
    <3> QED
      BY <1>0, <2>2, <3>1, HowItGoesOn, SendType
  <2> QED
    BY <2>1, <2>2
<1>2. b # x
  BY <1>0, <1>1, HowItGoesOn
<1> QED
  BY <1>0, <1>1, <1>2, OneMoves

\* A request that goes on is not before one that has begun.
LEMMA NotBefore ==
    ASSUME SentInTurn, NEW q \in Req, NEW r \in Req, pc[q] # "done", pc[r] # "idle"
    PROVE  q \notin Before[r]
  BY DEF SentInTurn

-----------------------------------------------------------------------------
(* What an answer names was enabled when the frame came: what is enabled has *)
(* been so from the start, or by a seed that no seed which switched it off   *)
(* has come after; and a frame looks after all the seeds before it.          *)

\* No seed has switched p off, or one has switched it on and none off after it.
LastEnabled(p) ==
    \/ InitCatalogue[p] = "on" /\ SeedsAs(p, "off") = {}
    \/ \E o \in SeedsAs(p, "on") : \A q \in SeedsAs(p, "off") : o \notin Before[q]

MayName(r, p) ==
    MayFind(r, InitCatalogue[p] = "on", SeedsAs(p, "on"), SeedsAs(p, "off"))

SeedInv ==
    /\ SentInTurn
    /\ \A p \in Product : Enabled(p) => LastEnabled(p)
    /\ \A r \in Req : \A p \in candidates[r] \cup named[r] :
          pc[r] # "idle" /\ MayName(r, p)

\* Whoever takes a step is before nobody who has begun.
LEMMA BeforeNobody ==
    ASSUME TypeInv, SentInTurn, NEW x \in Req, Acts(x), NEW r \in Req, pc'[r] # "idle"
    PROVE  x \notin Before[r]
<1>0. TypeOK /\ pc[x] # "done"
  BY HowItGoesOn DEF TypeInv
<1>1. CASE pc[r] # "idle"
  BY <1>0, <1>1, NotBefore
<1>2. CASE pc[r] = "idle"
  <2>1. r = x
    BY <1>0, <1>2, OneMoves
  <2> QED
    BY <1>0, <1>2, <2>1, HowItGoesOn, SendType
<1> QED
  BY <1>1, <1>2

\* A step adds no seed but its own, and takes none away.
LEMMA SeedsGrow ==
    ASSUME TypeInv, NEW x \in Req, Acts(x), NEW p \in Product, NEW entry
    PROVE  /\ SeedsAs(p, entry) \subseteq SeedsAs(p, entry)'
           /\ SeedsAs(p, entry)' \subseteq SeedsAs(p, entry) \cup {x}
<1>1. ASSUME NEW q \in SeedsAs(p, entry)
      PROVE  q \in SeedsAs(p, entry)'
  BY CallsStay DEF SeedsAs
<1>2. ASSUME NEW q \in SeedsAs(p, entry)', q # x
      PROVE  q \in SeedsAs(p, entry)
  BY <1>2, OneMoves DEF SeedsAs, TypeInv
<1> QED
  BY <1>1, <1>2

\* Only the script that seeds the catalogue seeds it.
LEMMA OthersSeedNothing ==
    ASSUME TypeInv, NEW x \in Req, Acts(x), ~Seed(x), NEW p \in Product, NEW entry
    PROVE  SeedsAs(p, entry)' = SeedsAs(p, entry)
<1>0. TypeOK
  BY DEF TypeInv
<1>1. ASSUME x \in SeedsAs(p, entry)'
      PROVE  x \in SeedsAs(p, entry)
  <2>1. CASE pc[x] # "idle"
    BY <1>0, <1>1, <2>1, HowItGoesOn DEF SeedsAs
  <2>2. CASE pc[x] = "idle"
    <3>1. Receive(x) \/ IndexStart(x) \/ ChangeFiles(x)
      BY <2>2 DEF Acts, Frames, Indexes, ProviderFails, OpenAIAnswers,
         OpenCLIPAnswers, IndexProduct, IndexDelete, IndexWait, IndexCommit,
         IndexStops
    <3>2. \E c \in CallsOf[x] : c.op # "seed" /\ Send(x, c)
      BY <3>1 DEF Receive, IndexStart, ChangeFiles
    <3>3. call'[x].op # "seed"
      BY <1>0, <3>2, SendType
    <3> QED
      BY <1>1, <3>3 DEF SeedsAs
  <2> QED
    BY <2>1, <2>2
<1> QED
  BY <1>1, SeedsGrow

\* What is enabled after a step has last been given by a seed, or from the
\* start.
LEMMA StepKeepsEnabled ==
    ASSUME TypeInv, SeedInv, NEW x \in Req, Acts(x), NEW p \in Product, Enabled(p)'
    PROVE  LastEnabled(p)'
<1>0. TypeOK
  BY DEF TypeInv
<1>1. CASE ~Seed(x)
  <2>1. LastEnabled(p)
    BY <1>1, DatabaseMoves DEF Enabled, SeedInv
  <2>2. /\ SeedsAs(p, "on")' = SeedsAs(p, "on")
        /\ SeedsAs(p, "off")' = SeedsAs(p, "off")
    BY <1>1, OthersSeedNothing
  <2> QED
    BY <2>1, <2>2 DEF LastEnabled
<1>2. CASE Seed(x)
  <2>1. PICK c \in CallsOf[x] : /\ c.op = "seed" /\ Send(x, c)
                                /\ catalogue' = [o \in Product |->
                                      IF c.catalogue[o] = "absent" THEN catalogue[o]
                                      ELSE c.catalogue[o]]
    BY <1>2 DEF Seed
  <2>2. call'[x] = c
    BY <1>0, <2>1, SendType
  <2>3. CASE c.catalogue[p] = "on"
    <3>1. x \in SeedsAs(p, "on")'
      BY <2>1, <2>2, <2>3 DEF SeedsAs
    <3>2. ASSUME NEW q \in SeedsAs(p, "off")'
          PROVE  x \notin Before[q]
      <4>1. q # x /\ q \in Req
        BY <2>2, <2>3 DEF SeedsAs
      <4>2. q \in SeedsAs(p, "off")
        BY <4>1, SeedsGrow
      <4>3. call[q] # NoCall
        BY <4>2 DEF SeedsAs, NoCall
      <4>4. pc[q] # "idle"
        BY <4>1, <4>3 DEF TypeInv, Begun
      <4>5. pc'[q] # "idle"
        BY <1>0, <4>1, <4>4, OneMoves
      <4> QED
        BY <4>1, <4>5, BeforeNobody DEF SeedInv
    <3> QED
      BY <3>1, <3>2 DEF LastEnabled
  <2>4. CASE c.catalogue[p] # "on"
    <3>1. c.catalogue[p] = "absent" /\ Enabled(p)
      BY <2>1, <2>4 DEF Enabled
    <3>2. x \notin SeedsAs(p, "on")' /\ x \notin SeedsAs(p, "off")'
      BY <2>2, <3>1 DEF SeedsAs
    <3>3. /\ SeedsAs(p, "on")' = SeedsAs(p, "on")
          /\ SeedsAs(p, "off")' = SeedsAs(p, "off")
      BY <3>2, SeedsGrow
    <3>4. LastEnabled(p)
      BY <3>1 DEF SeedInv
    <3> QED
      BY <3>3, <3>4 DEF LastEnabled
  <2> QED
    BY <2>3, <2>4
<1> QED
  BY <1>1, <1>2

\* What is enabled when a frame looks, which comes before no seed so far, it
\* may name.
LEMMA NameNow ==
    ASSUME TypeInv, SeedInv, NEW x \in Req, Acts(x), pc[x] = "idle",
           NEW p \in Product, Enabled(p)
    PROVE  MayName(x, p)
<1>1. ASSUME NEW o \in SeedsAs(p, "on")
      PROVE  x \notin Before[o]
  <2>1. o \in Req /\ call[o] # NoCall
    BY DEF SeedsAs, NoCall
  <2>2. pc[o] # "idle"
    BY <2>1 DEF TypeInv, Begun
  <2> QED
    BY <2>1, <2>2, NotBefore DEF SeedInv
<1>2. LastEnabled(p)
  BY DEF SeedInv
<1> QED
  BY <1>1, <1>2 DEF LastEnabled, MayName, MayFind

\* What a frame may name it still may when more is seeded.
LEMMA NameLater ==
    ASSUME TypeInv, SeedInv, NEW x \in Req, Acts(x), NEW r \in Req,
           pc'[r] # "idle", NEW p \in Product, MayName(r, p)
    PROVE  MayName(r, p)'
<1>1. x \notin Before[r]
  BY BeforeNobody DEF SeedInv
<1>2. /\ SeedsAs(p, "on") \subseteq SeedsAs(p, "on")'
      /\ SeedsAs(p, "off")' \subseteq SeedsAs(p, "off") \cup {x}
  BY SeedsGrow
<1> QED
  BY <1>1, <1>2 DEF MayName, MayFind

\* A decision names only what it may.
LEMMA SettleNames ==
    ASSUME TypeOK, NEW r \in Req, NEW status \in {"UNKNOWN", "AMBIGUOUS", "MATCHED"},
           NEW ids, NEW allowed \in SUBSET Product, NEW S,
           named[r] \subseteq S, allowed \subseteq S, Settle(r, status, ids, allowed)
    PROVE  named'[r] \subseteq S
  BY SettleType

\* A step reads and names only what its frame may name.
LEMMA StepNames ==
    ASSUME TypeInv, SeedInv, NEW x \in Req, Acts(x),
           NEW p \in candidates'[x] \cup named'[x]
    PROVE  p \in Product /\ MayName(x, p)
<1> DEFINE S == {o \in Product : MayName(x, o)}
<1>0. TypeOK
  BY DEF TypeInv
<1>1. candidates[x] \in SUBSET Product /\ candidates[x] \subseteq S /\ named[x] \subseteq S
  BY <1>0 DEF SeedInv, TypeOK
<1>2. Receive(x) => Candidates \in SUBSET Product /\ Candidates \subseteq S
  <2>1. Receive(x) => pc[x] = "idle"
    BY DEF Receive, Send
  <2> QED
    BY <2>1, CandidatesType, NameNow DEF Candidates
<1>3. candidates'[x] \subseteq S
  <2>1. \/ UNCHANGED candidates
        \/ Receive(x) /\ candidates' = [candidates EXCEPT ![x] = Candidates]
    BY DEF Acts, Frames, Indexes, Receive, ProviderFails, OpenAIAnswers,
       OpenCLIPAnswers, IndexStart, IndexProduct, IndexDelete, IndexWait,
       IndexCommit, IndexStops, Seed, ChangeFiles, frame
  <2> QED
    BY <1>0, <1>1, <1>2, <2>1 DEF TypeOK
<1>4. named'[x] \subseteq S
  <2>1. {} \in SUBSET Product /\ {} \subseteq S
    OBVIOUS
  <2>2. ScriptedStatus \in {"UNKNOWN", "AMBIGUOUS", "MATCHED"}
    BY RecognitionAssumption
  <2>3. \/ UNCHANGED named
        \/ Settle(x, "UNKNOWN", {}, {})
        \/ Receive(x) /\ Settle(x, ScriptedStatus, ScriptedIds, Candidates)
        \/ \E status \in {"UNKNOWN", "AMBIGUOUS", "MATCHED"} : \E ids :
              Settle(x, status, ids, candidates[x])
    BY DEF Acts, Frames, Indexes, Receive, ProviderFails, OpenAIAnswers,
       OpenCLIPAnswers, IndexStart, IndexProduct, IndexDelete, IndexWait,
       IndexCommit, IndexStops, Seed, ChangeFiles, frame
  <2> HIDE DEF S
  <2>4. CASE UNCHANGED named
    BY <1>1, <2>4
  <2>5. CASE Settle(x, "UNKNOWN", {}, {})
    BY <1>0, <1>1, <2>1, <2>5, SettleNames
  <2>6. CASE Receive(x) /\ Settle(x, ScriptedStatus, ScriptedIds, Candidates)
    BY <1>0, <1>1, <1>2, <2>2, <2>6, SettleNames
  <2>7. CASE \E status \in {"UNKNOWN", "AMBIGUOUS", "MATCHED"} : \E ids :
                Settle(x, status, ids, candidates[x])
    BY <1>0, <1>1, <2>7, SettleNames
  <2> QED
    BY <2>3, <2>4, <2>5, <2>6, <2>7
<1> QED
  BY <1>3, <1>4

\* Every step keeps what the seeds have given.
LEMMA StepKeepsSeeds ==
    ASSUME TypeInv, SeedInv, NEW x \in Req, Acts(x)
    PROVE  SeedInv'
<1>0. TypeOK
  BY DEF TypeInv
<1>1. SentInTurn'
  BY StepKeepsTurns DEF SeedInv
<1>2. \A p \in Product : Enabled(p)' => LastEnabled(p)'
  BY StepKeepsEnabled
<1>3. ASSUME NEW r \in Req, NEW p \in candidates'[r] \cup named'[r]
      PROVE  pc'[r] # "idle" /\ MayName(r, p)'
  <2>1. pc'[r] # "idle" /\ p \in Product /\ MayName(r, p)
    <3>1. CASE r = x
      BY <1>0, <3>1, StepNames, OneMoves
    <3>2. CASE r # x
      <4>1. p \in candidates[r] \cup named[r] /\ pc'[r] = pc[r]
        BY <1>0, <3>2, FrameMoves, OneMoves
      <4> QED
        BY <1>0, <4>1 DEF SeedInv, TypeOK
    <3> QED
      BY <3>1, <3>2
  <2> QED
    BY <2>1, NameLater
<1> QED
  BY <1>1, <1>2, <1>3 DEF SeedInv

\* SeedInv holds of every behaviour.
LEMMA SeedInvariant == Spec => []SeedInv
<1>1. Init => SeedInv
  <2> SUFFICES ASSUME Init PROVE SeedInv
    OBVIOUS
  <2>1. \A p \in Product : \A entry : SeedsAs(p, entry) = {}
    BY DEF Init, RequestInit, SeedsAs, NoCall
  <2>2. SentInTurn
    BY DEF Init, RequestInit, SentInTurn
  <2>3. \A p \in Product : Enabled(p) => LastEnabled(p)
    BY <2>1 DEF Init, Enabled, LastEnabled
  <2>4. \A r \in Req : candidates[r] \cup named[r] = {}
    BY DEF Init
  <2> QED
    BY <2>2, <2>3, <2>4 DEF SeedInv
<1>2. SeedInv /\ UNCHANGED vars => SeedInv'
  BY DEF SeedInv, SentInTurn, Enabled, LastEnabled, MayName, MayFind, SeedsAs,
     vars, database, frame
<1>3. TypeInv /\ SeedInv /\ [Next]_vars => SeedInv'
  BY <1>2, NextIs, StepKeepsSeeds DEF Quiet
<1> QED
  BY <1>1, <1>3, TypeInvariant, PTL DEF Spec

\* What is enabled has been set so.
EnabledInv == \A p \in Product : Enabled(p) => p \in EverEnabled

\* EnabledInv holds of every behaviour.
LEMMA EnabledInvariant == Spec => []EnabledInv
<1>1. SeedInv => EnabledInv
  BY DEF SeedInv, LastEnabled, SeedsAs, EnabledInv, EverEnabled
<1> QED
  BY <1>1, SeedInvariant, PTL

\* Whatever a provider answers, and whatever is enabled and disabled while it
\* does, an answer names only products that were enabled when the frame came:
\* none that a seed before it switched off and no other switched on again.
THEOREM NobodyElseIsNamed == Spec => []OnlyEnabledProductsNamed
<1>1. SeedInv => OnlyEnabledProductsNamed
  BY DEF SeedInv, MayName, OnlyEnabledProductsNamed
<1> QED
  BY <1>1, SeedInvariant, PTL

-----------------------------------------------------------------------------
(* The vectors of a turn come and go together. A DELETE sees all of a       *)
(* product's rows that are not those of a later turn, so none of an earlier *)
(* one is left when the turn commits.                                       *)

\* The turn an indexing is at.
TurnOf(r) == [run |-> r, left |-> Len(queue[r])]

\* Of a product and a turn there are in S all the rows of the table or none.
Together(S) ==
    \A v \in S, w \in vectors : w.product = v.product /\ w.by = v.by => w \in S

\* Rows of turns that have ended.
Old(S) ==
    \A v \in S : v.by.run # Stored =>
        /\ v.by.run \in Req /\ pc[v.by.run] # "idle"
        /\ v.by.left > Len(queue[v.by.run])

Images(v) == {w.picture : w \in {u \in vectors : u.product = v.product /\ u.by = v.by}}

TurnInv(r) ==
    /\ Together(found[r]) /\ Together(deleted[r]) /\ Old(found[r]) /\ Old(deleted[r])
    /\ \A v \in found[r] \cup deleted[r] : v.product = Head(queue[r])
    /\ pc[r] \in Turning => embedded[r] \in PictureSets(Head(queue[r]))
    /\ \A v \in vectors : v.product = Head(queue[r]) /\ Earlier(v.by, TurnOf(r)) =>
          /\ pc[r] = "wait" => v \in found[r]
          /\ pc[r] = "insert" => v \in deleted[r]

WholeInv ==
    /\ Old(vectors)
    /\ \A p \in Product : files[p] \in PictureSets(p)
    /\ \A v \in vectors : Images(v) \in PictureSets(v.product)
    /\ \A v, w \in vectors : w.product = v.product => ~Earlier(v.by, w.by)
    /\ \A r \in Req : TurnInv(r)

\* What an indexing has left to do only gets less.
LEMMA QueuesShrink ==
    ASSUME TypeInv, NEW x \in Req, Acts(x), NEW q \in Req, pc[q] # "idle"
    PROVE  /\ pc'[q] # "idle" /\ Len(queue[q]) \in Nat /\ Len(queue'[q]) \in Nat
           /\ Len(queue'[q]) <= Len(queue[q])
           /\ ~(q = x /\ IndexCommit(x)) => queue'[q] = queue[q]
           /\ q = x /\ IndexCommit(x) =>
                 queue'[q] = Tail(queue[q]) /\ Len(queue'[q]) = Len(queue[q]) - 1
<1>0. TypeOK /\ Begun(x)
  BY DEF TypeInv
<1>1. Len(queue[q]) \in Nat
  BY <1>0, LenProperties DEF TypeOK
<1>2. pc'[q] # "idle"
  BY <1>0, OneMoves
<1>3. CASE q = x /\ IndexCommit(x)
  <2>1. pc[x] = "insert" /\ queue' = [queue EXCEPT ![x] = Tail(queue[x])]
    BY <1>3 DEF IndexCommit
  <2>2. queue[x] # <<>>
    BY <1>0, <2>1 DEF Begun, Turning
  <2>3. Len(Tail(queue[x])) = Len(queue[x]) - 1 /\ Len(Tail(queue[x])) \in Nat
    BY <1>0, <2>2, QueueType, LenProperties
  <2>4. queue'[x] = Tail(queue[x])
    BY <1>0, <2>1 DEF TypeOK
  <2> QED
    BY <1>1, <1>2, <1>3, <2>3, <2>4
<1>4. CASE ~(q = x /\ IndexCommit(x))
  <2>1. queue'[q] = queue[q]
    <3>1. CASE q # x
      BY <3>1, ScriptMoves
    <3>2. CASE q = x
      <4>1. ~IndexStart(x)
        <5>1. IndexStart(x) => pc[x] = "idle"
          BY DEF IndexStart, Send
        <5> QED
          BY <3>2, <5>1
      <4> QED
        BY <1>4, <3>2, <4>1 DEF Acts, Frames, Indexes, Receive, ProviderFails, OpenAIAnswers,
           OpenCLIPAnswers, IndexProduct, IndexDelete, IndexWait, IndexStops, Seed,
           ChangeFiles, script
    <3> QED
      BY <3>1, <3>2
  <2> QED
    BY <1>1, <1>2, <1>4, <2>1
<1> QED
  BY <1>3, <1>4

\* A turn that has ended stays so.
LEMMA OldStays ==
    ASSUME TypeInv, NEW x \in Req, Acts(x), NEW S \in SUBSET Vector, Old(S)
    PROVE  Old(S)'
<1> SUFFICES ASSUME NEW v \in S, v.by.run # Stored
             PROVE  /\ v.by.run \in Req /\ pc'[v.by.run] # "idle"
                    /\ v.by.left > Len(queue'[v.by.run])
  BY DEF Old
<1>1. v.by \in Turn /\ v.by.left \in Nat
  BY DEF Vector, Turn
<1>2. /\ v.by.run \in Req /\ pc[v.by.run] # "idle"
      /\ v.by.left > Len(queue[v.by.run])
  BY DEF Old
<1>3. PICK q \in Req : q = v.by.run
  BY <1>2
<1>4. /\ pc'[q] # "idle" /\ Len(queue[q]) \in Nat /\ Len(queue'[q]) \in Nat
      /\ Len(queue'[q]) <= Len(queue[q])
  BY <1>2, <1>3, QueuesShrink
<1> QED
  BY <1>1, <1>2, <1>3, <1>4

\* What the turn of r finds is left alone by the steps of others that commit
\* nothing.
LEMMA OthersLeaveTurn ==
    ASSUME TypeInv, NEW x \in Req, Acts(x), ~IndexCommit(x),
           NEW r \in Req \ {x}, TurnInv(r)
    PROVE  TurnInv(r)'
<1>1. /\ queue'[r] = queue[r] /\ embedded'[r] = embedded[r]
      /\ found'[r] = found[r] /\ deleted'[r] = deleted[r]
  BY ScriptMoves
<1>2. vectors' = vectors /\ pc'[r] = pc[r]
  BY DatabaseMoves, OneMoves DEF TypeInv
<1>3. found[r] \in SUBSET Vector /\ deleted[r] \in SUBSET Vector
  BY DEF TypeInv, TypeOK
<1>4. PICK F \in SUBSET Vector, D \in SUBSET Vector : F = found[r] /\ D = deleted[r]
  BY <1>3
<1>5. Old(F)' /\ Old(D)'
  BY <1>4, OldStays DEF TurnInv
<1>6. Old(found[r])' /\ Old(deleted[r])'
  BY <1>1, <1>4, <1>5 DEF Old
<1>7. Together(found[r])' /\ Together(deleted[r])'
  BY <1>1, <1>2 DEF TurnInv, Together
<1>8. pc[r] \in Turning => embedded[r] \in PictureSets(Head(queue[r]))'
  <2>1. ASSUME pc[r] \in Turning
        PROVE  Head(queue[r]) \in Product
    BY <2>1 DEF TypeInv, Begun
  <2>2. PICK p : p = Head(queue[r])
    OBVIOUS
  <2>3. pc[r] \in Turning => embedded[r] \in PictureSets(p)'
    BY <2>1, <2>2, PictureSetsGrow DEF TurnInv
  <2> QED
    BY <1>1, <2>2, <2>3 DEF PictureSets
<1>9. \A v \in vectors : v.product = Head(queue[r]) /\ Earlier(v.by, TurnOf(r)) =>
          /\ pc[r] = "wait" => v \in found[r]
          /\ pc[r] = "insert" => v \in deleted[r]
  BY DEF TurnInv
<1>10. TurnOf(r)' = TurnOf(r)
  BY <1>1 DEF TurnOf
<1>11. \A v \in found[r] \cup deleted[r] : v.product = Head(queue[r])
  BY DEF TurnInv
<1> QED
  BY <1>1, <1>2, <1>6, <1>7, <1>8, <1>9, <1>10, <1>11 DEF TurnInv

\* A turn begins with the images there are, deletes what it finds, and what is
\* earlier than it is among that.
LEMMA TurnGoesOn ==
    ASSUME TypeInv, WholeInv, NEW x \in Req, Acts(x), ~IndexCommit(x)
    PROVE  TurnInv(x)'
<1>0. TypeOK /\ Begun(x) /\ TurnInv(x) /\ Begun(x)'
  BY StepKeepsType DEF TypeInv, WholeInv
<1>1. vectors' = vectors
  BY DatabaseMoves
<1>2. CASE pc'[x] \notin Turning
  <2>1. found'[x] = {} /\ deleted'[x] = {}
    BY <1>0, <1>2 DEF Begun, Turning
  <2> QED
    BY <1>2, <2>1 DEF TurnInv, Together, Old, Turning
<1>3. CASE pc'[x] \in Turning
  <2>1. IndexProduct(x) \/ IndexDelete(x) \/ IndexWait(x)
    <3>1. ~(Seed(x) \/ ChangeFiles(x) \/ IndexStart(x) \/ IndexStops(x))
      BY <1>0, <1>3, GotoType, ReplyType DEF Seed, ChangeFiles, IndexStart, IndexStops, Turning
    <3>2. ASSUME Frames(x) PROVE FALSE
      <4>1. call'[x].op = "index"
        BY <1>0, <1>3 DEF Begun, Turning
      <4>2. pc[x] = "await" \/ Receive(x)
        BY <3>2 DEF Frames, ProviderFails, OpenAIAnswers, OpenCLIPAnswers
      <4>3. CASE Receive(x)
        BY <1>0, <4>1, <4>3, SendType DEF Receive
      <4>4. CASE pc[x] = "await"
        BY <1>0, <4>1, <4>4, HowItGoesOn DEF Begun
      <4> QED
        BY <4>2, <4>3, <4>4
    <3> QED
      BY <3>1, <3>2 DEF Acts, Indexes
  <2>2. CASE IndexProduct(x)
    <3>1. /\ UNCHANGED <<queue, found, deleted, files, call>> /\ pc[x] = "product"
      BY <2>2 DEF IndexProduct, database
    <3>2. \A code \in {"indexed", "failed"} : ~Reply(x, code)
      BY <1>0, <1>3, ReplyType DEF Turning
    <3>3. /\ Goto(x, "delete") /\ Head(queue[x]) \in Product
          /\ embedded' = [embedded EXCEPT ![x] = files[Head(queue[x])]]
      BY <2>2, <3>2 DEF IndexProduct
    <3>4. pc'[x] = "delete" /\ embedded'[x] = files[Head(queue[x])]
      BY <1>0, <3>3, GotoType DEF TypeOK
    <3>5. embedded'[x] \in PictureSets(Head(queue[x]))
      BY <3>3, <3>4 DEF WholeInv
    <3>6. embedded'[x] \in PictureSets(Head(queue[x]))'
      BY <3>1, <3>5 DEF PictureSets
    <3>7. found'[x] = {} /\ deleted'[x] = {}
      BY <1>0, <3>1 DEF Begun
    <3> QED
      BY <3>4, <3>6, <3>7 DEF TurnInv, Together, Old
  <2>3. CASE IndexDelete(x)
    <3>1. /\ UNCHANGED <<queue, embedded, deleted, call, vectors>> /\ pc[x] = "delete"
          /\ found' = [found EXCEPT ![x] = {v \in vectors : v.product = Head(queue[x])}]
      BY <2>3 DEF IndexDelete, database
    <3>2. /\ pc'[x] = "wait" /\ deleted'[x] = {}
          /\ found'[x] = {v \in vectors : v.product = Head(queue[x])}
      BY <1>0, <2>3, <3>1, GotoType DEF IndexDelete, TypeOK, Begun
    <3>3. embedded'[x] \in PictureSets(Head(queue[x]))'
      BY <1>0, <3>1 DEF TurnInv, PictureSets, Turning
    <3>4. Together(found[x])' /\ Together(deleted[x])'
      BY <3>1, <3>2 DEF Together
    <3>5. Old(found[x])' /\ Old(deleted[x])'
      <4>1. vectors \in SUBSET Vector /\ Old(vectors)
        BY <1>0 DEF TypeOK, WholeInv
      <4>2. PICK S \in SUBSET Vector : S = vectors
        BY <4>1
      <4>3. Old(S)'
        BY <4>1, <4>2, OldStays
      <4> QED
        BY <3>2, <4>2, <4>3 DEF Old
    <3>6. \A v \in vectors' : v.product = Head(queue[x])' => v \in found'[x]
      BY <3>1, <3>2
    <3> QED
      BY <3>1, <3>2, <3>3, <3>4, <3>5, <3>6 DEF TurnInv
  <2>4. CASE IndexWait(x)
    <3>1. /\ UNCHANGED <<queue, embedded, call, vectors>> /\ pc[x] = "wait"
          /\ found' = [found EXCEPT ![x] = {}]
          /\ deleted' = [deleted EXCEPT ![x] = found[x] \cap vectors]
      BY <2>4 DEF IndexWait, database, Deletable
    <3>2. /\ pc'[x] = "insert" /\ found'[x] = {}
          /\ deleted'[x] = found[x] \cap vectors
      BY <1>0, <2>4, <3>1, GotoType DEF IndexWait, TypeOK
    <3>3. embedded'[x] \in PictureSets(Head(queue[x]))'
      BY <1>0, <3>1 DEF TurnInv, PictureSets, Turning
    <3>4. Together(found[x])' /\ Together(deleted[x])'
      BY <1>0, <3>1, <3>2 DEF Together, TurnInv
    <3>5. Old(found[x])' /\ Old(deleted[x])'
      <4>1. found[x] \in SUBSET Vector /\ Old(found[x])
        BY <1>0 DEF TypeOK, TurnInv
      <4>2. PICK S \in SUBSET Vector : S = found[x]
        BY <4>1
      <4>3. Old(S)'
        BY <4>1, <4>2, OldStays
      <4> QED
        BY <3>2, <4>2, <4>3 DEF Old
    <3>6. \A v \in vectors : v.product = Head(queue[x]) /\ Earlier(v.by, TurnOf(x)) =>
             v \in deleted'[x]
      BY <1>0, <3>1, <3>2 DEF TurnInv
    <3>7. TurnOf(x)' = TurnOf(x)
      BY <3>1 DEF TurnOf
    <3>8. \A v \in deleted'[x] : v.product = Head(queue[x])
      BY <1>0, <3>2 DEF TurnInv
    <3> QED
      BY <3>1, <3>2, <3>3, <3>4, <3>5, <3>6, <3>7, <3>8 DEF TurnInv
  <2> QED
    BY <2>1, <2>2, <2>3, <2>4
<1> QED
  BY <1>2, <1>3

\* A step that commits nothing.
LEMMA StepKeepsWhole ==
    ASSUME TypeInv, WholeInv, NEW x \in Req, Acts(x), ~IndexCommit(x)
    PROVE  WholeInv'
<1>1. vectors' = vectors
  BY DatabaseMoves
<1>2. Old(vectors)'
  <2>1. PICK S \in SUBSET Vector : S = vectors
    BY DEF TypeInv, TypeOK
  <2>2. Old(S)'
    BY <2>1, OldStays DEF WholeInv
  <2> QED
    BY <1>1, <2>1, <2>2 DEF Old
<1>3. ASSUME NEW p \in Product
      PROVE  files'[p] \in PictureSets(p)'
  <2>1. CASE ChangeFiles(x)
    <3>1. PICK c \in CallsOf[x] : c.op = "files" /\ Send(x, c) /\ files' = c.files
      BY <2>1 DEF ChangeFiles
    <3>2. call'[x] = c
      BY <3>1, SendType DEF TypeInv
    <3> QED
      BY <3>1, <3>2 DEF PictureSets
  <2>2. CASE ~ChangeFiles(x)
    <3>1. files' = files
      BY <2>2, DatabaseMoves
    <3> QED
      BY <3>1, PictureSetsGrow DEF WholeInv
  <2> QED
    BY <2>1, <2>2
<1>4. ASSUME NEW v \in vectors
      PROVE  Images(v)' \in PictureSets(v.product)'
  <2>1. Images(v)' = Images(v)
    BY <1>1 DEF Images
  <2>2. v.product \in Product
    BY DEF TypeInv, TypeOK, Vector
  <2>3. PICK p \in Product : p = v.product
    BY <2>2
  <2>4. Images(v) \in PictureSets(p)
    BY <2>3 DEF WholeInv
  <2>5. Images(v) \in PictureSets(p)'
    BY <2>4, PictureSetsGrow
  <2> QED
    BY <2>1, <2>3, <2>5
<1>5. \A r \in Req : TurnInv(r)'
  BY TurnGoesOn, OthersLeaveTurn DEF WholeInv
<1> QED
  BY <1>1, <1>2, <1>3, <1>4, <1>5 DEF WholeInv

\* The commit of a turn: what it deletes goes, and what it has embedded comes.
LEMMA CommitIs ==
    ASSUME TypeInv, NEW x \in Req, IndexCommit(x)
    PROVE  /\ Acts(x) /\ pc[x] = "insert" /\ pc'[x] = "product" /\ call' = call
           /\ Head(queue[x]) \in Product
           /\ embedded[x] \in SUBSET Picture /\ embedded[x] # {}
           /\ TurnOf(x) \in Turn
           /\ vectors' = (vectors \ deleted[x])
                 \cup VectorsOf(Head(queue[x]), embedded[x], TurnOf(x))
           /\ found'[x] = {} /\ deleted'[x] = {}
<1>0. TypeOK /\ Begun(x) /\ Acts(x)
  BY DEF TypeInv, Acts, Indexes
<1>1. /\ pc[x] = "insert" /\ call' = call /\ UNCHANGED found
      /\ deleted' = [deleted EXCEPT ![x] = {}]
      /\ vectors' = (vectors \ deleted[x])
                 \cup VectorsOf(Head(queue[x]), embedded[x], TurnOf(x))
  BY DEF IndexCommit, TurnOf
<1>2. pc'[x] = "product"
  BY <1>0, GotoType DEF IndexCommit
<1>3. /\ Head(queue[x]) \in Product /\ embedded[x] # {} /\ queue[x] # <<>>
      /\ found[x] = {}
  BY <1>0, <1>1 DEF Begun, Turning
<1>4. TurnOf(x) \in Turn
  BY <1>0, <1>3, QueueType DEF Turn, TurnOf
<1>5. deleted'[x] = {} /\ embedded[x] \in SUBSET Picture
  BY <1>0, <1>1 DEF TypeOK
<1> QED
  BY <1>0, <1>1, <1>2, <1>3, <1>4, <1>5

\* No row is of a turn that is not over.
LEMMA TurnIsNew ==
    ASSUME TypeInv, NEW x \in Req, NEW S \in SUBSET Vector, Old(S)
    PROVE  \A v \in S : /\ v.by # TurnOf(x)
                        /\ v.by.run = x => v.by.left > Len(queue[x])
<1> SUFFICES ASSUME NEW v \in S
             PROVE  /\ v.by # TurnOf(x)
                    /\ v.by.run = x => v.by.left > Len(queue[x])
  OBVIOUS
<1>1. Len(queue[x]) \in Nat
  BY LenProperties DEF TypeInv, TypeOK
<1>2. x # Stored
  BY RecognitionAssumption
<1>3. v.by.run = x => v.by.left > Len(queue[x])
  BY <1>2 DEF Old
<1>4. ASSUME v.by = TurnOf(x) PROVE FALSE
  <2>1. v.by.run = x /\ v.by.left = Len(queue[x])
    BY <1>4 DEF TurnOf
  <2> QED
    BY <1>1, <1>3, <2>1
<1> QED
  BY <1>3, <1>4

\* A commit leaves of every product and turn all the rows or none.
LEMMA CommitKeepsImages ==
    ASSUME TypeInv, WholeInv, NEW x \in Req, IndexCommit(x)
    PROVE  \A v \in vectors' : Images(v)' \in PictureSets(v.product)'
<1> DEFINE p == Head(queue[x])
           turn == TurnOf(x)
           E == embedded[x]
           D == deleted[x]
           new == VectorsOf(p, E, turn)
<1>0. TypeOK /\ TurnInv(x) /\ Acts(x) /\ Old(vectors)
  BY CommitIs DEF TypeInv, WholeInv
<1>1. /\ p \in Product /\ E \in SUBSET Picture /\ turn \in Turn
      /\ vectors' = (vectors \ D) \cup new
  BY CommitIs
<1>2. E \in PictureSets(p)
  BY <1>0, CommitIs DEF TurnInv, Turning
<1>3. \A w \in vectors : w.by # turn
  <2>1. vectors \in SUBSET Vector
    BY <1>0 DEF TypeOK
  <2> HIDE DEF p, E, D, new
  <2> QED
    BY <1>0, <2>1, TurnIsNew
<1>4. \A v \in D, w \in vectors : w.product = v.product /\ w.by = v.by => w \in D
  BY <1>0 DEF TurnInv, Together
<1> HIDE DEF p, E, D, turn
<1>5. /\ \A v \in new : v.product = p /\ v.by = turn /\ v.picture \in E
      /\ \A i \in E : \E v \in new : v.picture = i
  BY <1>1, VectorsType
<1> HIDE DEF new
<1>6. ASSUME NEW v \in vectors \ D
      PROVE  Images(v)' = Images(v)
  <2>1. {u \in vectors' : u.product = v.product /\ u.by = v.by}
          = {u \in vectors : u.product = v.product /\ u.by = v.by}
    BY <1>1, <1>3, <1>4, <1>5
  <2> QED
    BY <2>1 DEF Images
<1>7. ASSUME NEW v \in new
      PROVE  Images(v)' = E
  <2>1. {u \in vectors' : u.product = v.product /\ u.by = v.by} = new
    BY <1>1, <1>3, <1>5
  <2>2. Images(v)' = {w.picture : w \in new}
    BY <2>1 DEF Images
  <2> QED
    BY <1>5, <2>2
<1>8. ASSUME NEW v \in vectors'
      PROVE  Images(v)' \in PictureSets(v.product)'
  <2>1. CASE v \in vectors \ D
    <3>1. v.product \in Product
      BY <1>0, <2>1 DEF TypeOK, Vector
    <3>2. PICK o \in Product : o = v.product
      BY <3>1
    <3>3. Images(v) \in PictureSets(o)
      BY <2>1, <3>2 DEF WholeInv
    <3>4. Images(v) \in PictureSets(o)'
      BY <1>0, <3>3, PictureSetsGrow
    <3> QED
      BY <1>6, <2>1, <3>2, <3>4
  <2>2. CASE v \in new
    <3>1. PICK o \in Product : o = p
      BY <1>1
    <3>2. E \in PictureSets(o)'
      BY <1>0, <1>2, <3>1, PictureSetsGrow
    <3> QED
      BY <1>5, <1>7, <2>2, <3>1, <3>2
  <2> QED
    BY <1>1, <1>8, <2>1, <2>2
<1> QED
  BY <1>8

\* None that is earlier than another of the same product.
LEMMA CommitKeepsLatest ==
    ASSUME TypeInv, SentInTurn, WholeInv, NEW x \in Req, IndexCommit(x)
    PROVE  \A v, w \in vectors' : w.product = v.product => ~Earlier(v.by, w.by)
<1> DEFINE p == Head(queue[x])
           turn == TurnOf(x)
           D == deleted[x]
           new == VectorsOf(p, embedded[x], turn)
<1>0. TypeOK /\ TurnInv(x) /\ Old(vectors) /\ pc[x] = "insert"
  BY CommitIs DEF TypeInv, WholeInv
<1>1. vectors' = (vectors \ D) \cup new
  BY CommitIs
<1>2. \A v \in new : v.product = p /\ v.by = turn
  BY CommitIs, VectorsType
<1>3. \A v \in vectors : v.product = p /\ Earlier(v.by, turn) => v \in D
  BY <1>0 DEF TurnInv
<1>4. ASSUME NEW v \in vectors
      PROVE  ~Earlier(turn, v.by)
  <2>1. vectors \in SUBSET Vector
    BY <1>0 DEF TypeOK
  <2>2. v.by.run = x => v.by.left > Len(queue[x])
    BY <1>0, <2>1, TurnIsNew
  <2>3. v.by \in Turn /\ v.by.left \in Nat /\ Len(queue[x]) \in Nat
    BY <2>1, <1>0, LenProperties DEF Vector, Turn, TypeOK
  <2>4. v.by.run # Stored => v.by.run \in Req /\ pc[v.by.run] # "idle"
    BY <1>0 DEF Old
  <2>5. v.by.run # Stored => x \notin Before[v.by.run]
    BY <1>0, <2>4, NotBefore
  <2>6. turn.run = x /\ turn.left = Len(queue[x]) /\ x # Stored
    BY RecognitionAssumption DEF TurnOf
  <2> HIDE DEF turn
  <2> QED
    BY <2>2, <2>3, <2>5, <2>6 DEF Earlier
<1>5. ~Earlier(turn, turn)
  <2>1. turn.run = x /\ turn.left = Len(queue[x]) /\ x # Stored
    BY RecognitionAssumption DEF TurnOf
  <2>2. Len(queue[x]) \in Nat
    BY <1>0, LenProperties DEF TypeOK
  <2>3. x \notin Before[x]
    BY <1>0, NotBefore
  <2> HIDE DEF turn
  <2> QED
    BY <2>1, <2>2, <2>3 DEF Earlier
<1>6. \A v, w \in vectors : w.product = v.product => ~Earlier(v.by, w.by)
  BY DEF WholeInv
<1> HIDE DEF new, turn, D, p
<1> QED
  BY <1>1, <1>2, <1>3, <1>4, <1>5, <1>6

\* What the turns of others have found stays what they are to delete.
LEMMA CommitLeavesTurns ==
    ASSUME TypeInv, SentInTurn, WholeInv, NEW x \in Req, IndexCommit(x),
           NEW r \in Req \ {x}
    PROVE  TurnInv(r)'
<1> DEFINE p == Head(queue[x])
           turn == TurnOf(x)
           D == deleted[x]
           new == VectorsOf(p, embedded[x], turn)
<1>0. TypeOK /\ TurnInv(r) /\ Acts(x) /\ pc[x] = "insert"
  BY CommitIs DEF TypeInv, WholeInv
<1>1. vectors' = (vectors \ D) \cup new
  BY CommitIs
<1>2. \A v \in new : v.product = p /\ v.by = turn
  BY CommitIs, VectorsType
<1>3. /\ queue'[r] = queue[r] /\ embedded'[r] = embedded[r]
      /\ found'[r] = found[r] /\ deleted'[r] = deleted[r] /\ pc'[r] = pc[r]
  BY <1>0, ScriptMoves, OneMoves
<1>4. PICK F \in SUBSET Vector, G \in SUBSET Vector : F = found[r] /\ G = deleted[r]
  BY <1>0 DEF TypeOK
<1>5. Old(F)' /\ Old(G)'
  BY <1>0, <1>4, OldStays DEF TurnInv
<1>6. Old(found[r])' /\ Old(deleted[r])'
  BY <1>3, <1>4, <1>5 DEF Old
<1>7. \A v \in F \cup G : v.by # turn
  <2>1. Old(F) /\ Old(G)
    BY <1>0, <1>4 DEF TurnInv
  <2> QED
    BY <2>1, TurnIsNew
<1>8. Together(F) /\ Together(G)
  BY <1>0, <1>4 DEF TurnInv
<1>9. pc[r] \in Turning => embedded[r] \in PictureSets(Head(queue[r]))'
  <2>1. call' = call
    BY CommitIs
  <2>2. PictureSets(Head(queue[r]))' = PictureSets(Head(queue[r]))
    BY <1>3, <2>1 DEF PictureSets
  <2> QED
    BY <1>0, <2>2 DEF TurnInv
<1>10. TurnOf(r)' = TurnOf(r)
  BY <1>3 DEF TurnOf
<1>11. pc[r] # "idle" => ~Earlier(turn, TurnOf(r))
  <2>1. pc[r] # "idle" => x \notin Before[r]
    BY <1>0, NotBefore
  <2>2. turn.run = x /\ x # Stored /\ TurnOf(r).run = r
    BY RecognitionAssumption DEF TurnOf
  <2> HIDE DEF turn
  <2> QED
    BY <2>1, <2>2 DEF Earlier
<1>12. \A v \in vectors : v.product = Head(queue[r]) /\ Earlier(v.by, TurnOf(r)) =>
          /\ pc[r] = "wait" => v \in found[r]
          /\ pc[r] = "insert" => v \in deleted[r]
  BY <1>0 DEF TurnInv
<1>13. \A v \in found[r] \cup deleted[r] : v.product = Head(queue[r])
  BY <1>0 DEF TurnInv
<1> HIDE DEF new, turn, D, p
<1>14. Together(found[r])' /\ Together(deleted[r])'
  BY <1>1, <1>2, <1>3, <1>4, <1>7, <1>8 DEF Together
<1>15. \A v \in vectors' : v.product = Head(queue[r]) /\ Earlier(v.by, TurnOf(r)) =>
          /\ pc[r] = "wait" => v \in found[r]
          /\ pc[r] = "insert" => v \in deleted[r]
  BY <1>1, <1>2, <1>11, <1>12
<1> QED
  BY <1>3, <1>6, <1>9, <1>10, <1>13, <1>14, <1>15 DEF TurnInv

\* A commit.
LEMMA CommitKeepsWhole ==
    ASSUME TypeInv, SentInTurn, WholeInv, NEW x \in Req, IndexCommit(x)
    PROVE  WholeInv'
<1>0. TypeOK /\ Acts(x) /\ Old(vectors)
  BY CommitIs DEF TypeInv, WholeInv
<1>1. Old(vectors)'
  <2>1. PICK S \in SUBSET Vector : S = vectors
    BY <1>0 DEF TypeOK
  <2>2. Old(S)'
    BY <1>0, <2>1, OldStays
  <2>3. \A v \in VectorsOf(Head(queue[x]), embedded[x], TurnOf(x)) : v.by = TurnOf(x)
    BY CommitIs, VectorsType
  <2>4. /\ TurnOf(x).run = x /\ TurnOf(x).left = Len(queue[x])
        /\ Len(queue[x]) \in Nat /\ Len(queue'[x]) = Len(queue[x]) - 1
        /\ pc'[x] # "idle"
    BY <1>0, CommitIs, QueuesShrink DEF TurnOf
  <2>5. ASSUME NEW v \in vectors', v.by.run # Stored
        PROVE  /\ v.by.run \in Req /\ pc'[v.by.run] # "idle"
               /\ v.by.left > Len(queue'[v.by.run])
    <3>1. v \in S \/ v.by = TurnOf(x)
      BY <2>1, <2>3, CommitIs
    <3>2. CASE v \in S
      BY <2>2, <2>5, <3>2 DEF Old
    <3>3. CASE v.by = TurnOf(x)
      <4>1. v.by.run = x /\ v.by.left = Len(queue[x])
        BY <2>4, <3>3
      <4> QED
        BY <2>4, <4>1
    <3> QED
      BY <3>1, <3>2, <3>3
  <2> QED
    BY <2>5 DEF Old
<1>2. ASSUME NEW p \in Product
      PROVE  files'[p] \in PictureSets(p)'
  <2>1. files' = files
    BY <1>0, DatabaseMoves DEF IndexCommit, ChangeFiles
  <2> QED
    BY <1>0, <2>1, PictureSetsGrow DEF WholeInv
<1>3. TurnInv(x)'
  BY CommitIs DEF TurnInv, Together, Old, Turning
<1> QED
  BY <1>1, <1>2, <1>3, CommitKeepsImages, CommitKeepsLatest, CommitLeavesTurns
  DEF WholeInv

\* At the beginning.
LEMMA InitWhole == Init => WholeInv /\ SentInTurn
<1> SUFFICES ASSUME Init PROVE WholeInv /\ SentInTurn
  OBVIOUS
<1>1. /\ \A r \in Req : pc[r] = "idle" /\ found[r] = {} /\ deleted[r] = {}
      /\ SentInTurn
  BY DEF Init, RequestInit, SentInTurn
<1>2. \A r \in Req : TurnInv(r)
  BY <1>1 DEF TurnInv, Together, Old, Turning
<1>3. \A p \in Product : InitFiles[p] \in PictureSets(p) /\ files[p] \in PictureSets(p)
  BY DEF Init, PictureSets
<1>4. \A p \in InitIndexed : p \in Product /\ InitFiles[p] \in SUBSET Picture
  BY RecognitionAssumption
<1>5. AtFirst \in Turn /\ AtFirst.run = Stored
  BY DEF AtFirst, Turn
<1>6. ASSUME NEW p \in InitIndexed
      PROVE  /\ \A v \in VectorsOf(p, InitFiles[p], AtFirst) :
                   v.product = p /\ v.by = AtFirst /\ v.picture \in InitFiles[p]
             /\ \A i \in InitFiles[p] :
                   \E v \in VectorsOf(p, InitFiles[p], AtFirst) : v.picture = i
  BY <1>4, <1>5, VectorsType
<1>7. \A v \in vectors : v.product \in InitIndexed /\ v.by = AtFirst
                          /\ v \in VectorsOf(v.product, InitFiles[v.product], AtFirst)
  BY <1>6 DEF Init
<1>8. Old(vectors)
  BY <1>5, <1>7 DEF Old
<1>9. ASSUME NEW v \in vectors
      PROVE  Images(v) \in PictureSets(v.product)
  <2>1. PICK p \in InitIndexed : p = v.product
    BY <1>7
  <2>2. {u \in vectors : u.product = v.product /\ u.by = v.by}
          = VectorsOf(p, InitFiles[p], AtFirst)
    <3>1. VectorsOf(p, InitFiles[p], AtFirst) \subseteq vectors
      BY DEF Init
    <3> QED
      BY <1>6, <1>7, <2>1, <3>1
  <2>3. Images(v) = {w.picture : w \in VectorsOf(p, InitFiles[p], AtFirst)}
    BY <2>2 DEF Images
  <2>4. Images(v) = InitFiles[p]
    BY <1>6, <2>3
  <2> QED
    BY <1>3, <1>4, <2>1, <2>4
<1>10. \A v, w \in vectors : ~Earlier(v.by, w.by)
  BY <1>5, <1>7 DEF Earlier
<1> QED
  BY <1>1, <1>2, <1>3, <1>8, <1>9, <1>10 DEF WholeInv

\* WholeInv holds of every behaviour.
LEMMA WholeInvariant == Spec => [](WholeInv /\ SentInTurn)
<1>1. TypeInv /\ WholeInv /\ SentInTurn /\ UNCHANGED vars => WholeInv' /\ SentInTurn'
  <2> SUFFICES ASSUME TypeInv, WholeInv, SentInTurn, UNCHANGED vars
               PROVE  WholeInv' /\ SentInTurn'
    OBVIOUS
  <2>1. UNCHANGED <<files, vectors, pc, call, queue, embedded, found, deleted>>
    BY DEF vars, database, script
  <2>2. \A r \in Req : TurnInv(r)'
    BY <2>1 DEF WholeInv, TurnInv, Together, Old, TurnOf, PictureSets
  <2>3. /\ \A p \in Product : files'[p] \in PictureSets(p)'
        /\ \A v \in vectors' : Images(v)' \in PictureSets(v.product)'
    BY <2>1 DEF WholeInv, Images, PictureSets
  <2> QED
    BY <2>1, <2>2, <2>3 DEF WholeInv, Old, SentInTurn
<1>2. TypeInv /\ WholeInv /\ SentInTurn /\ [Next]_vars => WholeInv' /\ SentInTurn'
  BY <1>1, NextIs, StepKeepsWhole, StepKeepsTurns, CommitKeepsWhole DEF Quiet
<1> QED
  BY <1>2, InitWhole, TypeInvariant, PTL DEF Spec

\* However indexings overlap and wherever they stop, the vectors of a turn are
\* those of all the images its product had at one time, and none is left that is
\* earlier than another of its product.
THEOREM NoHalfIndexings == Spec => []IndexingsAreWhole
<1>1. WholeInv => IndexingsAreWhole
  BY DEF WholeInv, IndexingsAreWhole, Images
<1> QED
  BY <1>1, WholeInvariant, PTL

-----------------------------------------------------------------------------
(* The search: the two products whose best vectors are nearest come first,   *)
(* whatever number of vectors the products have.                             *)

\* A set of natural numbers has a least one.
LEMMA Least ==
    ASSUME NEW T \in SUBSET Nat, T # {}
    PROVE  \E n \in T : \A m \in T : n <= m
<1>1. PICK n \in T : \A m \in T : ~(<<m, n>> \in OpToRel(<, Nat))
  BY NatLessThanWellFounded, WFMin
<1>2. \A m \in T : ~(m < n)
  BY <1>1 DEF OpToRel
<1> QED
  BY <1>2

\* How near two images are is a number.
LEMMA ScoreType ==
    ASSUME NEW r \in Req, call[r].image \in Image, NEW v \in Vector
    PROVE  Score(r, v) \in -100 .. 100
<1>1. v.picture \in Picture
  BY DEF Vector
<1>2. Similarity \in [Image -> [Picture -> -100 .. 100]]
  BY RecognitionAssumption
<1> QED
  BY <1>1, <1>2 DEF Score

\* Of some vectors one is the nearest.
LEMMA Nearest ==
    ASSUME NEW r \in Req, call[r].image \in Image, NEW S \in SUBSET Vector, S # {}
    PROVE  \E v \in S : \A w \in S : Score(r, w) <= Score(r, v)
<1> DEFINE T == {100 - Score(r, v) : v \in S}
<1>1. \A v \in S : Score(r, v) \in -100 .. 100
  BY ScoreType
<1>2. T \in SUBSET Nat /\ T # {}
  BY <1>1
<1>3. \E n \in T : \A m \in T : n <= m
  BY <1>2, Least
<1>4. PICK v \in S : \A w \in S : 100 - Score(r, v) <= 100 - Score(r, w)
  BY <1>3
<1>5. \A w \in S : Score(r, w) <= Score(r, v)
  BY <1>1, <1>4
<1> QED
  BY <1>5

\* A frame the fast path is looking for.
Searching(r) ==
    pc[r] = "await" /\ call[r].provider = "openclip"

\* Its hits are vectors of candidates.
LEMMA HitsType ==
    ASSUME TypeInv, NEW r \in Req, pc[r] = "await"
    PROVE  /\ call[r].image \in Image /\ Hits(r) \in SUBSET Vector
           /\ \A v \in Hits(r) : /\ v.product \in candidates[r] /\ v.product \in Product
                                 /\ Score(r, v) \in Int
           /\ \A v \in BestOfProducts(r) : v \in Hits(r)
<1>1. call[r].image \in Image
  BY DEF TypeInv, Begun
<1>2. Hits(r) \in SUBSET Vector
  BY DEF TypeInv, TypeOK, Hits
<1>3. \A v \in Hits(r) : v.product \in candidates[r]
  BY DEF Hits
<1>4. \A v \in Hits(r) : v.product \in Product
  BY <1>2 DEF Vector
<1>5. \A v \in Hits(r) : Score(r, v) \in Int
  BY <1>1, <1>2, ScoreType
<1> QED
  BY <1>1, <1>2, <1>3, <1>4, <1>5 DEF BestOfProducts

\* Every product with hits has a best one.
LEMMA BestExists ==
    ASSUME TypeInv, NEW r \in Req, pc[r] = "await", NEW v \in Hits(r)
    PROVE  \E b \in BestOfProducts(r) :
              b.product = v.product /\ Score(r, v) <= Score(r, b)
<1> DEFINE S == {w \in Hits(r) : w.product = v.product}
<1>1. S \in SUBSET Vector /\ S # {}
  BY HitsType
<1>2. PICK b \in S : \A w \in S : Score(r, w) <= Score(r, b)
  BY <1>1, HitsType, Nearest
<1>3. b \in BestOfProducts(r)
  BY <1>2 DEF BestOfProducts
<1> QED
  BY <1>2, <1>3

\* The first two are nearer than all the hits, those of the first one's product
\* aside.
LEMMA TopTwoIsTop ==
    ASSUME TypeInv, NEW r \in Req, pc[r] = "await", NEW pair \in TopTwo(r)
    PROVE  /\ pair[1] \in Hits(r) /\ pair[2] \in Hits(r)
           /\ pair[1].product # pair[2].product
           /\ \A v \in Hits(r) :
                 /\ Score(r, v) <= Score(r, pair[1])
                 /\ v.product # pair[1].product => Score(r, v) <= Score(r, pair[2])
<1>1. /\ pair[1] \in BestOfProducts(r) /\ pair[2] \in BestOfProducts(r)
      /\ pair[1].product # pair[2].product
      /\ \A b \in BestOfProducts(r) :
            /\ Score(r, b) <= Score(r, pair[1])
            /\ b.product = pair[1].product \/ Score(r, b) <= Score(r, pair[2])
  BY DEF TopTwo
<1>2. pair[1] \in Hits(r) /\ pair[2] \in Hits(r)
  BY <1>1, HitsType
<1>3. ASSUME NEW v \in Hits(r)
      PROVE  /\ Score(r, v) <= Score(r, pair[1])
             /\ v.product # pair[1].product => Score(r, v) <= Score(r, pair[2])
  <2>1. PICK b \in BestOfProducts(r) : b.product = v.product /\ Score(r, v) <= Score(r, b)
    BY BestExists
  <2>2. /\ Score(r, v) \in Int /\ Score(r, b) \in Int
        /\ Score(r, pair[1]) \in Int /\ Score(r, pair[2]) \in Int
    BY <1>2, HitsType
  <2>3. /\ Score(r, b) <= Score(r, pair[1])
        /\ b.product = pair[1].product \/ Score(r, b) <= Score(r, pair[2])
    BY <1>1
  <2> QED
    BY <2>1, <2>2, <2>3
<1> QED
  BY <1>1, <1>2, <1>3

\* A product one of whose hits is as near as every hit of the others comes first.
LEMMA TopTwoExists ==
    ASSUME TypeInv, NEW r \in Req, pc[r] = "await", NEW v \in Hits(r),
           \E w \in Hits(r) : w.product # v.product,
           \A w \in Hits(r) : w.product # v.product => Score(r, w) <= Score(r, v)
    PROVE  \E pair \in TopTwo(r) :
              pair[1].product = v.product /\ Score(r, v) <= Score(r, pair[1])
<1> DEFINE S == {w \in Hits(r) : w.product # v.product}
<1>1. S \in SUBSET Vector /\ S # {}
  BY HitsType
<1>2. PICK s \in S : \A w \in S : Score(r, w) <= Score(r, s)
  BY <1>1, HitsType, Nearest
<1>3. PICK first \in BestOfProducts(r) :
         first.product = v.product /\ Score(r, v) <= Score(r, first)
  BY BestExists
<1>4. s \in BestOfProducts(r)
  BY <1>2 DEF BestOfProducts
<1>5. \A b \in BestOfProducts(r) :
         /\ Score(r, b) <= Score(r, first)
         /\ b.product = first.product \/ Score(r, b) <= Score(r, s)
  <2>1. SUFFICES ASSUME NEW b \in BestOfProducts(r)
                 PROVE  /\ Score(r, b) <= Score(r, first)
                        /\ b.product = first.product \/ Score(r, b) <= Score(r, s)
    OBVIOUS
  <2>2. b \in Hits(r) /\ first \in Hits(r)
    BY HitsType
  <2>3. Score(r, b) \in Int /\ Score(r, first) \in Int /\ Score(r, v) \in Int
    BY <2>2, HitsType
  <2>4. CASE b.product = v.product
    <3>1. Score(r, b) <= Score(r, first)
      BY <1>3, <2>2, <2>4 DEF BestOfProducts
    <3> QED
      BY <1>3, <2>4, <3>1
  <2>5. CASE b.product # v.product
    <3>1. Score(r, b) <= Score(r, v) /\ Score(r, b) <= Score(r, s)
      BY <1>2, <2>2, <2>5
    <3> QED
      BY <1>3, <2>3, <3>1
  <2> QED
    BY <2>4, <2>5
<1>6. <<first, s>> \in TopTwo(r)
  BY <1>2, <1>3, <1>4, <1>5 DEF TopTwo
<1> QED
  BY <1>3, <1>6

\* What the fast path answers: the first product if it is convincing.
LEMMA FastPathAnswers ==
    ASSUME TypeInv, NEW r \in Req, OpenCLIPAnswers(r)
    PROVE  \/ /\ answer'[r] = "MATCHED"
              /\ \E pair \in TopTwo(r) :
                    Convincing(r, pair) /\ named'[r] = {pair[1].product}
           \/ /\ answer'[r] = "UNKNOWN" /\ named'[r] = {}
              /\ ~\E pair \in TopTwo(r) : Convincing(r, pair)
<1>0. TypeOK /\ pc[r] = "await" /\ named[r] = {}
  BY DEF TypeInv, Begun, OpenCLIPAnswers
<1>1. ASSUME NEW pair \in TopTwo(r), Convincing(r, pair),
             Settle(r, "MATCHED", {pair[1].product}, candidates[r])
      PROVE  answer'[r] = "MATCHED" /\ named'[r] = {pair[1].product}
  <2>1. pair[1].product \in candidates[r]
    BY <1>0, TopTwoIsTop, HitsType
  <2>2. Allowed({pair[1].product}, candidates[r]) = {pair[1].product}
    BY <2>1 DEF Allowed
  <2>3. Reply(r, "MATCHED") /\ named' = [named EXCEPT ![r] = {pair[1].product}]
    BY <1>1, <2>2 DEF Settle
  <2> QED
    BY <1>0, <2>3, ReplyType DEF TypeOK
<1>2. ASSUME Settle(r, "UNKNOWN", {}, candidates[r])
      PROVE  answer'[r] = "UNKNOWN" /\ named'[r] = {}
  <2>1. Reply(r, "UNKNOWN") /\ UNCHANGED named
    BY <1>2 DEF Settle
  <2> QED
    BY <1>0, <2>1, ReplyType
<1> QED
  BY <1>1, <1>2 DEF OpenCLIPAnswers

\* A frame that is searched for ends with the answer of the search, or with the
\* failure of the embedding.
LEMMA SearchEnds ==
    ASSUME TypeInv, NEW x \in Req, Acts(x), NEW r \in Req, Searching(r),
           answer'[r] # ""
    PROVE  OpenCLIPAnswers(r) \/ answer'[r] = "503"
<1>0. TypeOK /\ answer[r] = ""
  BY DEF TypeInv, Begun, Searching
<1>1. r = x
  BY <1>0, OneMoves
<1>2. pc[r] = "await" /\ call[r].provider = "openclip"
  BY DEF Searching
<1>3. ProviderFails(r) \/ OpenCLIPAnswers(r)
  BY <1>1, <1>2 DEF Acts, Frames, Indexes, Receive, OpenAIAnswers, IndexStart,
     IndexProduct, IndexDelete, IndexWait, IndexCommit, IndexStops, Seed,
     ChangeFiles, Send
<1>4. ProviderFails(r) => answer'[r] = "503"
  BY <1>0, ReplyType DEF ProviderFails
<1> QED
  BY <1>3, <1>4

\* A vector that is near enough, and nearer by the margin than those of every
\* other candidate, of which there is one.
Winners(r) ==
    {v \in Hits(r) :
        /\ Score(r, v) >= MatchThreshold
        /\ \E w \in Hits(r) : w.product # v.product
        /\ \A w \in Hits(r) : w.product # v.product =>
              Score(r, v) - Score(r, w) >= MarginThreshold}

\* A convincing first product has the only winners.
LEMMA ConvincingWins ==
    ASSUME TypeInv, MarginThreshold > 0, NEW r \in Req, pc[r] = "await",
           NEW pair \in TopTwo(r), Convincing(r, pair)
    PROVE  {v.product : v \in Winners(r)} = {pair[1].product}
<1>1. /\ pair[1] \in Hits(r) /\ pair[2] \in Hits(r)
      /\ pair[1].product # pair[2].product
      /\ \A v \in Hits(r) :
            /\ Score(r, v) <= Score(r, pair[1])
            /\ v.product # pair[1].product => Score(r, v) <= Score(r, pair[2])
  BY TopTwoIsTop
<1>2. \A v \in Hits(r) : Score(r, v) \in Int
  BY HitsType
<1>3. /\ Score(r, pair[1]) >= MatchThreshold
      /\ Score(r, pair[1]) - Score(r, pair[2]) >= MarginThreshold
  BY DEF Convincing
<1>4. MarginThreshold \in Int
  BY RecognitionAssumption
<1>5. \A w \in Hits(r) : w.product # pair[1].product =>
         Score(r, pair[1]) - Score(r, w) >= MarginThreshold
  BY <1>1, <1>2, <1>3, <1>4
<1>6. pair[1] \in Winners(r)
  BY <1>1, <1>3, <1>5 DEF Winners
<1>7. ASSUME NEW v \in Winners(r)
      PROVE  v.product = pair[1].product
  <2> SUFFICES ASSUME v.product # pair[1].product
               PROVE  FALSE
    OBVIOUS
  <2>1. v \in Hits(r) /\ Score(r, v) - Score(r, pair[1]) >= MarginThreshold
    BY <1>1 DEF Winners
  <2>2. Score(r, v) <= Score(r, pair[1])
    BY <1>1, <2>1
  <2>3. Score(r, v) \in Int /\ Score(r, pair[1]) \in Int
    BY <1>1, <1>2, <2>1
  <2> QED
    BY <1>4, <2>1, <2>2, <2>3
<1> QED
  BY <1>6, <1>7

\* And where no first product is convincing nothing wins.
LEMMA WinnersConvince ==
    ASSUME TypeInv, NEW r \in Req, pc[r] = "await", NEW v \in Winners(r)
    PROVE  \E pair \in TopTwo(r) :
              Convincing(r, pair) /\ pair[1].product = v.product
<1>1. /\ v \in Hits(r) /\ Score(r, v) >= MatchThreshold
      /\ \E w \in Hits(r) : w.product # v.product
      /\ \A w \in Hits(r) : w.product # v.product =>
            Score(r, v) - Score(r, w) >= MarginThreshold
  BY DEF Winners
<1>2. \A w \in Hits(r) : Score(r, w) \in Int
  BY HitsType
<1>3. MarginThreshold \in Int /\ MarginThreshold >= 0 /\ MatchThreshold \in Int
  BY RecognitionAssumption
<1>4. \A w \in Hits(r) : w.product # v.product => Score(r, w) <= Score(r, v)
  BY <1>1, <1>2, <1>3
<1>5. PICK pair \in TopTwo(r) :
         pair[1].product = v.product /\ Score(r, v) <= Score(r, pair[1])
  BY <1>1, <1>4, TopTwoExists
<1>6. /\ pair[1] \in Hits(r) /\ pair[2] \in Hits(r)
      /\ pair[1].product # pair[2].product
  BY TopTwoIsTop
<1>7. Score(r, v) - Score(r, pair[2]) >= MarginThreshold
  BY <1>1, <1>5, <1>6
<1>8. /\ Score(r, v) \in Int /\ Score(r, pair[1]) \in Int /\ Score(r, pair[2]) \in Int
  BY <1>1, <1>2, <1>6
<1>9. Convincing(r, pair)
  BY <1>1, <1>3, <1>5, <1>7, <1>8 DEF Convincing
<1> QED
  BY <1>5, <1>9

\* OpenCLIP's answer is the product of the winners, whatever number of vectors
\* the products have. With a margin of nothing two products may be equally
\* near, and either is named: the settings allow that, and it is excluded here.
THEOREM MatchesClear ==
    ASSUME MarginThreshold > 0
    PROVE  Spec => MatchesAreClear
<1> DEFINE Clear ==
      \A r \in Req :
          pc[r] = "await" /\ call[r].provider = "openclip"
            /\ answer'[r] \in {"MATCHED", "UNKNOWN"} =>
          LET winners == {v \in Hits(r) :
                  /\ Score(r, v) >= MatchThreshold
                  /\ \E w \in Hits(r) : w.product # v.product
                  /\ \A w \in Hits(r) : w.product # v.product =>
                        Score(r, v) - Score(r, w) >= MarginThreshold}
          IN  named'[r] = {v.product : v \in winners}
<1>1. ASSUME TypeInv, NEW x \in Req, Acts(x)
      PROVE  Clear
  <2>1. SUFFICES ASSUME NEW r \in Req, pc[r] = "await", call[r].provider = "openclip",
                        answer'[r] \in {"MATCHED", "UNKNOWN"}
                 PROVE  named'[r] = {v.product : v \in Winners(r)}
    BY DEF Winners
  <2>2. OpenCLIPAnswers(r)
    BY <1>1, <2>1, SearchEnds DEF Searching
  <2>3. CASE \E pair \in TopTwo(r) :
                Convincing(r, pair) /\ named'[r] = {pair[1].product}
    BY <1>1, <2>1, <2>3, ConvincingWins
  <2>4. CASE named'[r] = {} /\ ~\E pair \in TopTwo(r) : Convincing(r, pair)
    <3>1. Winners(r) = {}
      BY <1>1, <2>1, <2>4, WinnersConvince
    <3> QED
      BY <2>4, <3>1
  <2> QED
    BY <1>1, <2>2, <2>3, <2>4, FastPathAnswers
<1>2. TypeInv /\ [Next]_vars => [Clear]_vars
  BY <1>1, NextIs DEF Quiet
<1> QED
  BY <1>2, TypeInvariant, PTL DEF Spec, MatchesAreClear

-----------------------------------------------------------------------------
(* A product that is enabled and indexed is found, whatever indexings and    *)
(* seeds are under way: no commit leaves it without a vector, nothing takes  *)
(* it from the candidates, and the vectors it is found by are of pictures it *)
(* has had.                                                                  *)

\* Enabled from the beginning, and by no seed disabled.
StaysOn(p) ==
    /\ InitCatalogue[p] = "on"
    /\ \A q \in Req : call[q].op = "seed" => call[q].catalogue[p] # "off"

HasVector(p) == \E v \in vectors : v.product = p

\* What an indexing was told to do it has done or has left to do.
Progress(q) ==
    call[q].op = "index" =>
        /\ answer[q] = "indexed" => queue[q] = <<>>
        /\ \A n \in DOMAIN Listed(call[q]) :
              \/ HasVector(Listed(call[q])[n])
              \/ \E m \in DOMAIN queue[q] : queue[q][m] = Listed(call[q])[n]

Fits == Cardinality(EverEnabled) <= MaxCandidates

KnownInv ==
    /\ \A p \in Product : StaysOn(p) => Enabled(p)
    /\ \A p \in InitIndexed : HasVector(p)
    /\ \A q \in Req : Progress(q)
    /\ \A r \in Req, p \in Product :
          pc[r] = "await" /\ StaysOn(p) /\ Fits => p \in candidates[r]
    /\ KnownProductsAreFound

\* A product that is never disabled was not so far.
LEMMA StaysOnIsOld ==
    ASSUME TypeInv, NEW x \in Req, Acts(x), NEW p \in Product, StaysOn(p)'
    PROVE  StaysOn(p)
<1> SUFFICES ASSUME NEW q \in Req, call[q].op = "seed"
             PROVE  call[q].catalogue[p] # "off"
  BY DEF StaysOn
<1>1. call'[q] = call[q]
  BY CallsStay
<1> QED
  BY <1>1 DEF StaysOn

\* There are as many products as the list has, at most.
LEMMA ProductIsFinite == IsFiniteSet(Product)
<1> DEFINE D == 1 .. Len(ByProductId)
<1>1. ByProductId \in [D -> Product] /\ Len(ByProductId) \in Nat
  BY RecognitionAssumption, LenProperties
<1>2. DOMAIN ByProductId = D
  BY <1>1
<1>3. \A p \in Product : \E n \in D : ByProductId[n] = p
  BY <1>2 DEF Product
<1>4. ByProductId \in Surjection(D, Product)
  BY <1>1, <1>3, Fun_IsSurj
<1>5. IsFiniteSet(D)
  BY <1>1, FS_Interval
<1> QED
  BY <1>4, <1>5, FS_Surjection

\* Once there were too many, there always are.
LEMMA FitsIsOld ==
    ASSUME TypeInv, NEW x \in Req, Acts(x), Fits'
    PROVE  Fits
<1>1. PICK S \in SUBSET Product : S = EverEnabled
  BY DEF EverEnabled
<1>2. PICK T \in SUBSET Product : T = EverEnabled'
  BY DEF EverEnabled
<1>3. IsFiniteSet(T) /\ IsFiniteSet(S)
  BY ProductIsFinite, FS_Subset
<1>4. S \in SUBSET T
  BY <1>1, <1>2, EverEnabledGrows
<1>5. Cardinality(S) <= Cardinality(T)
  BY <1>3, <1>4, FS_Subset
<1>6. Cardinality(S) \in Nat /\ Cardinality(T) \in Nat /\ MaxCandidates \in Nat
  BY <1>3, FS_CardinalityType, RecognitionAssumption
<1>7. Cardinality(T) <= MaxCandidates
  BY <1>2 DEF Fits
<1>8. Cardinality(S) <= MaxCandidates
  BY <1>5, <1>6, <1>7
<1> QED
  BY <1>1, <1>8 DEF Fits

\* While there are not too many all that are enabled are candidates.
LEMMA CandidatesHave ==
    ASSUME TypeInv, EnabledInv, Fits, NEW p \in Product, Enabled(p)
    PROVE  p \in Candidates
<1>1. PICK n \in DOMAIN ByProductId : ByProductId[n] = p
  BY DEF Product
<1>2. PICK S \in SUBSET Product : S = EverEnabled
  BY DEF EverEnabled
<1>3. PICK T : T = EnabledUpTo(n)
  OBVIOUS
<1>4. T \in SUBSET S
  BY <1>2, <1>3 DEF EnabledUpTo, EnabledInv
<1>5. IsFiniteSet(S)
  BY ProductIsFinite, FS_Subset
<1>6. Cardinality(T) <= Cardinality(S) /\ IsFiniteSet(T)
  BY <1>4, <1>5, FS_Subset
<1>7. Cardinality(S) \in Nat /\ Cardinality(T) \in Nat /\ MaxCandidates \in Nat
  BY <1>5, <1>6, FS_CardinalityType, RecognitionAssumption
<1>8. Cardinality(S) <= MaxCandidates
  BY <1>2 DEF Fits
<1>9. Cardinality(EnabledUpTo(n)) <= MaxCandidates
  BY <1>3, <1>6, <1>7, <1>8
<1> QED
  BY <1>1, <1>9 DEF Candidates, FirstOf

\* A product that has vectors keeps some, and an indexing leaves some of the
\* product it commits.
LEMMA VectorsStay ==
    ASSUME TypeInv, WholeInv, NEW x \in Req, Acts(x)
    PROVE  /\ \A p : HasVector(p) => HasVector(p)'
           /\ IndexCommit(x) => \A p : p = Head(queue[x]) => HasVector(p)'
<1>1. CASE ~IndexCommit(x)
  <2>1. vectors' = vectors
    BY <1>1, DatabaseMoves
  <2> QED
    BY <1>1, <2>1 DEF HasVector
<1>2. CASE IndexCommit(x)
  <2> DEFINE p == Head(queue[x])
             D == deleted[x]
             new == VectorsOf(p, embedded[x], TurnOf(x))
  <2>1. /\ vectors' = (vectors \ D) \cup new
        /\ p \in Product /\ embedded[x] \in SUBSET Picture /\ embedded[x] # {}
        /\ TurnOf(x) \in Turn
    BY <1>2, CommitIs
  <2>2. /\ \A v \in new : v.product = p
        /\ \A i \in embedded[x] : \E v \in new : v.picture = i
    BY <2>1, VectorsType
  <2>3. \E v \in new : v.product = p
    BY <2>1, <2>2
  <2>4. \A v \in D : v.product = p
    BY DEF WholeInv, TurnInv
  <2>5. PICK o : o = p
    OBVIOUS
  <2> HIDE DEF new, D
  <2>6. \E v \in vectors' : v.product = o
    BY <2>1, <2>3, <2>5
  <2>7. ASSUME NEW a, \E v \in vectors : v.product = a
        PROVE  \E v \in vectors' : v.product = a
    BY <2>1, <2>4, <2>5, <2>6, <2>7
  <2>8. \A a : HasVector(a) => HasVector(a)'
    BY <2>7 DEF HasVector
  <2>9. \A a : a = Head(queue[x]) => HasVector(a)'
    BY <2>5, <2>6 DEF HasVector
  <2> QED
    BY <2>8, <2>9
<1> QED
  BY <1>1, <1>2

\* What is listed is a sequence.
LEMMA ListedType ==
    ASSUME NEW c \in Call, c.op = "index"
    PROVE  Listed(c) \in Seq(Product \cup {Stranger})
  BY CallFields, RecognitionAssumption DEF Listed

\* What is first in a queue is its head, and what comes later is in its tail.
LEMMA HeadOrTail ==
    ASSUME NEW S, NEW queued \in Seq(S), queued # <<>>, NEW m \in DOMAIN queued
    PROVE  \/ queued[m] = Head(queued)
           \/ \E k \in DOMAIN Tail(queued) : Tail(queued)[k] = queued[m]
<1>1. /\ Head(queued) = queued[1] /\ Tail(queued) \in Seq(S)
      /\ Len(Tail(queued)) = Len(queued) - 1
      /\ \A i \in 1 .. Len(Tail(queued)) : Tail(queued)[i] = queued[i + 1]
  BY HeadTailProperties
<1>2. Len(queued) \in Nat /\ DOMAIN queued = 1 .. Len(queued)
  BY LenProperties
<1>3. DOMAIN Tail(queued) = 1 .. Len(Tail(queued))
  BY <1>1, LenProperties
<1>4. CASE m = 1
  BY <1>1, <1>4
<1>5. CASE m # 1
  <2>1. m - 1 \in DOMAIN Tail(queued) /\ (m - 1) + 1 = m
    BY <1>1, <1>2, <1>3, <1>5
  <2>2. Tail(queued)[m - 1] = queued[m]
    BY <1>1, <1>3, <2>1
  <2> QED
    BY <2>1, <2>2
<1> QED
  BY <1>4, <1>5

\* An indexing passes no product without a vector of it, and says it has indexed
\* what it was told when nothing is left.
LEMMA StepKeepsProgress ==
    ASSUME TypeInv, WholeInv, NEW x \in Req, Acts(x), NEW q \in Req, Progress(q)
    PROVE  Progress(q)'
<1> SUFFICES ASSUME call'[q].op = "index"
             PROVE  /\ answer'[q] = "indexed" => queue'[q] = <<>>
                    /\ \A n \in DOMAIN Listed(call'[q]) :
                          \/ \E v \in vectors' : v.product = Listed(call'[q])[n]
                          \/ \E m \in DOMAIN queue'[q] :
                                queue'[q][m] = Listed(call'[q])[n]
  BY DEF Progress, HasVector
<1>0. TypeOK /\ Begun(x) /\ Begun(x)' /\ TypeOK'
  BY StepKeepsType DEF TypeInv
<1>1. CASE q # x
  <2>1. call'[q] = call[q] /\ answer'[q] = answer[q] /\ queue'[q] = queue[q]
    BY <1>0, <1>1, OneMoves, ScriptMoves
  <2>2. PICK list : list = Listed(call[q])
    OBVIOUS
  <2>3. /\ answer[q] = "indexed" => queue[q] = <<>>
        /\ \A n \in DOMAIN list :
              \/ HasVector(list[n])
              \/ \E m \in DOMAIN queue[q] : queue[q][m] = list[n]
    BY <2>1, <2>2 DEF Progress
  <2>4. \A n \in DOMAIN list : HasVector(list[n]) => \E v \in vectors' : v.product = list[n]
    BY VectorsStay DEF HasVector
  <2>5. Listed(call'[q]) = list
    BY <2>1, <2>2
  <2> QED
    BY <2>1, <2>3, <2>4, <2>5
<1>2. CASE q = x /\ pc[x] = "idle"
  <2>1. IndexStart(x)
    <3>1. pc[x] = "idle" /\ call'[x].op = "index"
      BY <1>2
    <3>2. ~Receive(x) /\ ~Seed(x) /\ ~ChangeFiles(x)
      BY <1>0, <3>1, SendType DEF Receive, Seed, ChangeFiles
    <3> QED
      BY <3>1, <3>2 DEF Acts, Frames, Indexes, ProviderFails, OpenAIAnswers,
         OpenCLIPAnswers, IndexProduct, IndexDelete, IndexWait, IndexCommit, IndexStops
  <2>2. PICK c \in CallsOf[x] : Send(x, c) /\ queue' = [queue EXCEPT ![x] = Listed(c)]
    BY <2>1 DEF IndexStart
  <2>3. call'[x] = c /\ queue'[x] = Listed(c)
    BY <1>0, <2>2, SendType DEF TypeOK
  <2>4. answer'[x] = ""
    BY <1>0, <1>2, <2>1, GotoType DEF IndexStart, Begun
  <2> QED
    BY <1>2, <2>3, <2>4
<1>3. CASE q = x /\ pc[x] # "idle"
  <2>1. call' = call /\ pc[x] # "done" /\ answer[x] = ""
    BY <1>0, <1>3, HowItGoesOn DEF Begun
  <2>2. PICK list \in Seq(Product \cup {Stranger}) : list = Listed(call[x])
    BY <1>0, <1>3, <2>1, ListedType DEF TypeOK
  <2>3. \A n \in DOMAIN list :
              HasVector(list[n]) \/ \E m \in DOMAIN queue[x] : queue[x][m] = list[n]
    BY <1>3, <2>1, <2>2 DEF Progress
  <2>4. Listed(call'[x]) = list
    BY <2>1, <2>2
  <2>5. answer'[x] = "indexed" => queue'[x] = <<>>
    <3>1. SUFFICES ASSUME answer'[x] = "indexed"
                   PROVE  queue'[x] = <<>>
      OBVIOUS
    <3>2. IndexProduct(x)
      <4>1. pc[x] \in Turning \cup {"product"}
        BY <1>0, <1>3, <2>1 DEF Begun, TypeOK, Turning
      <4>2. ~(IndexDelete(x) \/ IndexWait(x) \/ IndexCommit(x))
        BY <2>1, <3>1, GotoType DEF IndexDelete, IndexWait, IndexCommit, Goto
      <4>3. ~IndexStops(x)
        BY <1>0, <3>1, ReplyType DEF IndexStops
      <4> QED
        BY <4>1, <4>2, <4>3 DEF Acts, Frames, Indexes, Receive, ProviderFails,
           OpenAIAnswers, OpenCLIPAnswers, IndexStart, Seed, ChangeFiles, Send, Turning
    <3>3. ~Reply(x, "failed") /\ \A step \in {"delete"} : ~Goto(x, step)
      BY <1>0, <2>1, <3>1, ReplyType DEF Goto
    <3>4. queue[x] = <<>> /\ UNCHANGED queue
      BY <3>2, <3>3 DEF IndexProduct
    <3> QED
      BY <3>4
  <2>6. \A n \in DOMAIN list :
              \/ \E v \in vectors' : v.product = list[n]
              \/ \E m \in DOMAIN queue'[x] : queue'[x][m] = list[n]
    <3>1. SUFFICES ASSUME NEW n \in DOMAIN list
                   PROVE  \/ HasVector(list[n])'
                          \/ \E m \in DOMAIN queue'[x] : queue'[x][m] = list[n]
      BY DEF HasVector
    <3>2. CASE HasVector(list[n])
      BY <3>2, VectorsStay
    <3>3. CASE \E m \in DOMAIN queue[x] : queue[x][m] = list[n]
      <4>1. CASE ~IndexCommit(x)
        <5>1. queue'[x] = queue[x]
          BY <1>3, <4>1, QueuesShrink
        <5> QED
          BY <3>3, <5>1
      <4>2. CASE IndexCommit(x)
        <5>1. queue'[x] = Tail(queue[x])
          BY <1>3, <4>2, QueuesShrink
        <5>2. PICK m \in DOMAIN queue[x] : queue[x][m] = list[n]
          BY <3>3
        <5>3. queue[x] # <<>> /\ queue[x] \in Seq(Product \cup {Stranger})
          BY <1>0, <4>2, CommitIs DEF Begun, Turning, TypeOK
        <5>4. \/ queue[x][m] = Head(queue[x])
              \/ \E k \in DOMAIN Tail(queue[x]) : Tail(queue[x])[k] = queue[x][m]
          BY <5>3, HeadOrTail
        <5>5. queue[x][m] = Head(queue[x]) => HasVector(list[n])'
          BY <4>2, <5>2, VectorsStay
        <5> QED
          BY <5>1, <5>2, <5>4, <5>5
      <4> QED
        BY <4>1, <4>2
    <3> QED
      BY <2>3, <3>2, <3>3
  <2> QED
    BY <1>3, <2>4, <2>5, <2>6
<1> QED
  BY <1>1, <1>2, <1>3

\* What is always enabled is enabled, and among the candidates.
LEMMA StepKeepsCandidates ==
    ASSUME TypeInv, EnabledInv, KnownInv, NEW x \in Req, Acts(x), NEW p \in Product,
           StaysOn(p)'
    PROVE  /\ Enabled(p)'
           /\ \A r \in Req : pc'[r] = "await" /\ Fits' => p \in candidates'[r]
<1>0. TypeOK /\ StaysOn(p) /\ Enabled(p)
  BY StaysOnIsOld DEF TypeInv, KnownInv
<1>1. Enabled(p)'
  <2>1. CASE ~Seed(x)
    BY <1>0, <2>1, DatabaseMoves DEF Enabled
  <2>2. CASE Seed(x)
    <3>1. PICK c \in CallsOf[x] : /\ c.op = "seed" /\ Send(x, c)
                                  /\ catalogue' = [o \in Product |->
                                        IF c.catalogue[o] = "absent" THEN catalogue[o]
                                        ELSE c.catalogue[o]]
      BY <2>2 DEF Seed
    <3>2. call'[x] = c /\ c.catalogue \in [Product -> Entry]
      BY <1>0, <3>1, SendType, CallFields
    <3>3. c.catalogue[p] # "off"
      BY <3>1, <3>2 DEF StaysOn
    <3>4. c.catalogue[p] \in {"absent", "on"}
      BY <3>2, <3>3 DEF Entry
    <3> QED
      BY <1>0, <3>1, <3>4 DEF Enabled
  <2> QED
    BY <2>1, <2>2
<1>2. ASSUME NEW r \in Req, pc'[r] = "await", Fits'
      PROVE  p \in candidates'[r]
  <2>1. Fits
    BY <1>2, FitsIsOld
  <2>2. CASE pc[r] = "await"
    <3>1. p \in candidates[r]
      BY <1>0, <2>1, <2>2 DEF KnownInv
    <3>2. candidates'[r] = candidates[r]
      <4>1. CASE r # x
        BY <1>0, <4>1, FrameMoves
      <4>2. CASE r = x
        BY <2>2, <4>2 DEF Acts, Frames, Indexes, Receive, ProviderFails, OpenAIAnswers,
           OpenCLIPAnswers, IndexStart, IndexProduct, IndexDelete, IndexWait,
           IndexCommit, IndexStops, Seed, ChangeFiles, frame, Send
      <4> QED
        BY <4>1, <4>2
    <3> QED
      BY <3>1, <3>2
  <2>3. CASE pc[r] # "await"
    <3>1. r = x
      BY <1>0, <1>2, <2>3, OneMoves
    <3>2. Receive(x)
      <4>1. ASSUME Indexes(x) \/ Seed(x) \/ ChangeFiles(x) PROVE FALSE
        BY <1>0, <1>2, <3>1, <4>1, GotoType, ReplyType DEF Indexes, IndexStart,
           IndexProduct, IndexDelete, IndexWait, IndexCommit, IndexStops, Seed, ChangeFiles
      <4> QED
        BY <2>3, <3>1, <4>1 DEF Acts, Frames, ProviderFails, OpenAIAnswers,
           OpenCLIPAnswers
    <3>3. \/ candidates' = [candidates EXCEPT ![x] = Candidates]
          \/ \E code \in {"503", "400"} : Reply(x, code)
          \/ Settle(x, "UNKNOWN", {}, {})
          \/ Settle(x, ScriptedStatus, ScriptedIds, Candidates)
      BY <3>2 DEF Receive
    <3>4. /\ {} \in SUBSET Product /\ Candidates \in SUBSET Product
          /\ ScriptedStatus \in {"UNKNOWN", "AMBIGUOUS", "MATCHED"}
      BY CandidatesType, RecognitionAssumption DEF Candidates
    <3>5. pc'[x] # "done"
      BY <1>2, <3>1
    <3>6. /\ ~\E code \in {"503", "400"} : Reply(x, code)
          /\ ~Settle(x, "UNKNOWN", {}, {})
          /\ ~Settle(x, ScriptedStatus, ScriptedIds, Candidates)
      BY <1>0, <3>4, <3>5, SettleType, ReplyType
    <3>7. candidates'[x] = Candidates
      BY <1>0, <3>3, <3>6 DEF TypeOK
    <3> QED
      BY <1>0, <2>1, <3>1, <3>7, CandidatesHave
  <2> QED
    BY <2>2, <2>3
<1> QED
  BY <1>1, <1>2

\* The frame and the two products KnownProductsAreFound speaks of.
Asks(r, p, q) ==
    /\ call[r].op = "frame" /\ call[r].provider = "openclip"
    /\ call[r].image # Unreadable
    /\ p # q /\ Known(p, r) /\ Known(q, r) /\ Shows(call[r].image, p) /\ Fits

\* A frame showed before what it shows now: pictures are only added.
LEMMA ShowsIsOld ==
    ASSUME TypeInv, NEW x \in Req, Acts(x), NEW i, NEW p \in Product, Shows(i, p)'
    PROVE  Shows(i, p)
<1>1. \A o \in Product : Pictures(o) \subseteq Pictures(o)'
  BY PictureSetsGrow DEF Pictures
<1> QED
  BY <1>1 DEF Shows

\* What a frame knows it knew when it was sent.
LEMMA KnownIsOld ==
    ASSUME TypeInv, SentInTurn, NEW x \in Req, Acts(x), NEW r \in Req,
           NEW p \in Product, Known(p, r)',
           \A b \in Before[r] : pc[b] = "done"
    PROVE  Known(p, r)
<1>0. TypeOK
  BY DEF TypeInv
<1>1. StaysOn(p)
  BY StaysOnIsOld DEF Known, StaysOn
<1>2. ASSUME NEW b \in Before[r]
      PROVE  call'[b] = call[b] /\ answer'[b] = answer[b]
  <2>1. b \in Req /\ pc[b] = "done"
    BY RecognitionAssumption
  <2>2. b # x
    BY <1>0, <2>1, HowItGoesOn
  <2> QED
    BY <1>0, <2>1, <2>2, OneMoves
<1>3. CASE p \in InitIndexed
  BY <1>1, <1>3 DEF Known, StaysOn
<1>4. CASE \E b \in Before[r] :
             /\ call'[b].op = "index" /\ answer'[b] = "indexed"
             /\ \E n \in DOMAIN Listed(call'[b]) : Listed(call'[b])[n] = p
  <2>1. PICK b \in Before[r] :
             /\ call'[b].op = "index" /\ answer'[b] = "indexed"
             /\ \E n \in DOMAIN Listed(call'[b]) : Listed(call'[b])[n] = p
    BY <1>4
  <2>2. call'[b] = call[b] /\ answer'[b] = answer[b]
    BY <1>2
  <2>3. /\ call[b].op = "index" /\ answer[b] = "indexed"
        /\ \E n \in DOMAIN Listed(call[b]) : Listed(call[b])[n] = p
    BY <2>1, <2>2
  <2> QED
    BY <1>1, <2>3 DEF Known, StaysOn
<1> QED
  BY <1>3, <1>4 DEF Known

\* A known product has vectors.
LEMMA KnownHasVector ==
    ASSUME KnownInv, NEW r \in Req, NEW p \in Product, Known(p, r)
    PROVE  HasVector(p) /\ StaysOn(p) /\ Enabled(p)
<1>1. StaysOn(p) /\ Enabled(p)
  BY DEF KnownInv, Known, StaysOn
<1>2. CASE p \in InitIndexed
  BY <1>1, <1>2 DEF KnownInv
<1>3. CASE \E b \in Before[r] :
             /\ call[b].op = "index" /\ answer[b] = "indexed"
             /\ \E n \in DOMAIN Listed(call[b]) : Listed(call[b])[n] = p
  <2>1. PICK b \in Before[r] :
             /\ call[b].op = "index" /\ answer[b] = "indexed"
             /\ \E n \in DOMAIN Listed(call[b]) : Listed(call[b])[n] = p
    BY <1>3
  <2>2. b \in Req /\ Progress(b)
    BY RecognitionAssumption DEF KnownInv
  <2>3. PICK n \in DOMAIN Listed(call[b]) : Listed(call[b])[n] = p
    BY <2>1
  <2>4. queue[b] = <<>> /\ (HasVector(p) \/ \E m \in DOMAIN queue[b] : queue[b][m] = p)
    BY <2>1, <2>2, <2>3 DEF Progress
  <2>5. DOMAIN queue[b] = {}
    BY <2>4
  <2> QED
    BY <1>1, <2>4, <2>5
<1> QED
  BY <1>2, <1>3 DEF Known

\* The vectors of a product are of pictures it has had.
LEMMA PicturesOfVectors ==
    ASSUME WholeInv, NEW v \in vectors
    PROVE  v.picture \in Pictures(v.product)
<1>1. Images(v) \in PictureSets(v.product)
  BY DEF WholeInv
<1>2. v.picture \in Images(v)
  BY DEF Images
<1> QED
  BY <1>1, <1>2 DEF Pictures

\* A known product that the image shows wins the search.
LEMMA ShownWins ==
    ASSUME TypeInv, WholeInv, KnownInv, NEW r \in Req, pc[r] = "await",
           NEW p \in Product, NEW q \in Product, Asks(r, p, q)
    PROVE  \E v \in Winners(r) : v.product = p
<1>1. p # q /\ Known(p, r) /\ Known(q, r) /\ Shows(call[r].image, p) /\ Fits
  BY DEF Asks
<1>2. p \in candidates[r] /\ q \in candidates[r]
  BY <1>1, KnownHasVector DEF KnownInv
<1>3. PICK v \in vectors, w \in vectors : v.product = p /\ w.product = q
  BY <1>1, KnownHasVector DEF HasVector
<1>4. v \in Hits(r) /\ w \in Hits(r)
  BY <1>2, <1>3 DEF Hits
<1>5. v.picture \in Pictures(p)
  BY <1>3, PicturesOfVectors
<1>6. Score(r, v) >= MatchThreshold
  BY <1>1, <1>5 DEF Shows, Score
<1>7. ASSUME NEW u \in Hits(r), u.product # v.product
      PROVE  Score(r, v) - Score(r, u) >= MarginThreshold
  <2>1. u \in vectors /\ u.product \in Product \ {p}
    BY <1>3, <1>7, HitsType DEF Hits
  <2>2. u.picture \in Pictures(u.product)
    BY <2>1, PicturesOfVectors
  <2> QED
    BY <1>1, <1>5, <2>1, <2>2 DEF Shows, Score
<1>8. w.product # v.product
  BY <1>1, <1>3
<1>9. v \in Winners(r)
  BY <1>4, <1>6, <1>7, <1>8 DEF Winners
<1> QED
  BY <1>3, <1>9

\* The answer to a frame names the known product it shows.
LEMMA AnswerNames ==
    ASSUME MarginThreshold > 0, TypeInv, WholeInv, EnabledInv, KnownInv,
           NEW x \in Req, Acts(x), Begun(x)', NEW p \in Product, NEW q \in Product,
           answer[x] = "", answer'[x] # "",
           pc[x] # "idle" => Asks(x, p, q),
           call'[x].op = "frame", call'[x].provider = "openclip",
           call'[x].image # Unreadable, Enabled(p), Fits
    PROVE  \/ answer'[x] = "503"
           \/ answer'[x] = "MATCHED" /\ named'[x] = {p}
<1>0. TypeOK /\ Begun(x)
  BY DEF TypeInv
<1>1. CASE pc[x] = "idle"
  <2>1. Receive(x)
    <3>1. \A c \in CallsOf[x] : Send(x, c) => c.op = "frame"
      BY <1>0, SendType
    <3> QED
      BY <1>1, <3>1 DEF Acts, Frames, Indexes, ProviderFails, OpenAIAnswers,
         OpenCLIPAnswers, IndexStart, IndexProduct, IndexDelete, IndexWait,
         IndexCommit, IndexStops, Seed, ChangeFiles
  <2>2. PICK c \in CallsOf[x] :
          /\ Send(x, c)
          /\ \/ c.provider = "keyless"
             \/ c.image = Unreadable
             \/ Candidates = {}
             \/ c.provider = "scripted"
             \/ Goto(x, "await")
    BY <2>1 DEF Receive
  <2>3. call'[x] = c
    BY <1>0, <2>2, SendType
  <2>4. p \in Candidates
    BY CandidatesHave
  <2>5. Goto(x, "await")
    BY <2>2, <2>3, <2>4
  <2>6. answer'[x] = ""
    BY <1>0, <2>5, GotoType
  <2> QED
    BY <2>6
<1>2. CASE pc[x] # "idle"
  <2>1. call' = call /\ pc[x] # "done" /\ Asks(x, p, q)
    BY <1>0, <1>2, HowItGoesOn
  <2>2. pc[x] = "await"
    BY <1>0, <1>2, <2>1 DEF Begun, TypeOK, Turning
  <2>3. Searching(x)
    BY <2>1, <2>2 DEF Searching
  <2>4. OpenCLIPAnswers(x) \/ answer'[x] = "503"
    BY <2>3, SearchEnds
  <2>5. PICK v \in Winners(x) : v.product = p
    BY <2>1, <2>2, ShownWins
  <2>6. \E pair \in TopTwo(x) : Convincing(x, pair)
    BY <2>2, WinnersConvince
  <2>7. ASSUME OpenCLIPAnswers(x)
        PROVE  answer'[x] = "MATCHED" /\ named'[x] = {p}
    <3>1. /\ answer'[x] = "MATCHED"
          /\ \E pair \in TopTwo(x) : Convincing(x, pair) /\ named'[x] = {pair[1].product}
      BY <2>6, <2>7, FastPathAnswers
    <3>2. PICK pair \in TopTwo(x) : Convincing(x, pair) /\ named'[x] = {pair[1].product}
      BY <3>1
    <3>3. {u.product : u \in Winners(x)} = {pair[1].product}
      BY <2>2, <3>2, ConvincingWins
    <3>4. p = pair[1].product
      BY <2>5, <3>3
    <3> QED
      BY <3>1, <3>2, <3>4
  <2> QED
    BY <2>4, <2>7
<1> QED
  BY <1>1, <1>2

\* Every step keeps KnownInv.
LEMMA StepKeepsKnown ==
    ASSUME MarginThreshold > 0, TypeInv, SentInTurn, WholeInv, EnabledInv, KnownInv,
           NEW x \in Req, Acts(x)
    PROVE  KnownInv'
<1>0. TypeOK /\ Begun(x)' /\ \A r \in Req : Begun(r)
  BY StepKeepsType DEF TypeInv
<1>1. \A p \in Product : StaysOn(p)' => Enabled(p)'
  BY StepKeepsCandidates
<1>2. \A p \in InitIndexed : HasVector(p)'
  BY VectorsStay DEF KnownInv
<1>3. \A q \in Req : Progress(q)'
  BY StepKeepsProgress DEF KnownInv
<1>4. \A r \in Req, p \in Product :
         pc'[r] = "await" /\ StaysOn(p)' /\ Fits' => p \in candidates'[r]
  BY StepKeepsCandidates
<1>5. ASSUME NEW r \in Req, NEW p \in Product, NEW q \in Product,
             Asks(r, p, q)', answer'[r] # ""
      PROVE  \/ answer'[r] = "503"
             \/ answer'[r] = "MATCHED" /\ named'[r] = {p}
  <2>1. /\ Fits /\ p # q
        /\ call'[r].op = "frame" /\ call'[r].provider = "openclip"
        /\ call'[r].image # Unreadable
    BY <1>5, FitsIsOld DEF Asks
  <2>2. StaysOn(p) /\ Enabled(p)
    <3>1. StaysOn(p)'
      BY <1>5 DEF Asks, Known, StaysOn
    <3> QED
      BY <3>1, StaysOnIsOld DEF KnownInv
  <2>3. ASSUME pc[r] # "idle", call'[r] = call[r]
        PROVE  Asks(r, p, q)
    <3>1. \A b \in Before[r] : pc[b] = "done"
      BY <2>3 DEF SentInTurn
    <3>2. Known(p, r) /\ Known(q, r)
      BY <1>5, <3>1, KnownIsOld DEF Asks
    <3>3. PICK i : i = call[r].image
      OBVIOUS
    <3>4. Shows(i, p)'
      BY <1>5, <2>3, <3>3 DEF Asks, Shows
    <3>5. Shows(i, p)
      BY <3>4, ShowsIsOld
    <3> QED
      BY <2>1, <2>3, <3>2, <3>3, <3>5 DEF Asks
  <2>4. CASE answer[r] # ""
    <3>1. pc[r] = "done" /\ r # x
      BY <1>0, <2>4, HowItGoesOn DEF Begun
    <3>2. /\ call'[r] = call[r] /\ answer'[r] = answer[r] /\ named'[r] = named[r]
      BY <1>0, <3>1, OneMoves, FrameMoves
    <3>3. Asks(r, p, q)
      BY <2>3, <3>1, <3>2
    <3> QED
      BY <2>4, <3>2, <3>3 DEF KnownInv, KnownProductsAreFound, Asks, Fits
  <2>5. CASE answer[r] = ""
    <3>1. r = x
      BY <1>0, <1>5, <2>5, OneMoves
    <3>2. pc[x] # "idle" => Asks(x, p, q)
      BY <1>0, <2>3, <3>1, HowItGoesOn
    <3> QED
      BY <1>0, <1>5, <2>1, <2>2, <2>5, <3>1, <3>2, AnswerNames
  <2> QED
    BY <2>4, <2>5
<1>6. KnownProductsAreFound'
  BY <1>5 DEF KnownProductsAreFound, Asks, Fits
<1> QED
  BY <1>1, <1>2, <1>3, <1>4, <1>6 DEF KnownInv

\* At the beginning.
LEMMA InitKnown == Init => KnownInv
<1> SUFFICES ASSUME Init PROVE KnownInv
  OBVIOUS
<1>1. \A r \in Req : pc[r] = "idle" /\ call[r].op = "none"
  BY DEF Init, RequestInit, NoCall
<1>2. \A p \in Product : StaysOn(p) => Enabled(p)
  BY DEF Init, StaysOn, Enabled
<1>3. ASSUME NEW p \in InitIndexed
      PROVE  HasVector(p)
  <2>1. p \in Product /\ InitFiles[p] \in SUBSET Picture /\ InitFiles[p] # {}
    BY RecognitionAssumption
  <2>2. AtFirst \in Turn
    BY DEF AtFirst, Turn
  <2>3. /\ \A v \in VectorsOf(p, InitFiles[p], AtFirst) : v.product = p
        /\ \A i \in InitFiles[p] :
              \E v \in VectorsOf(p, InitFiles[p], AtFirst) : v.picture = i
    BY <2>1, <2>2, VectorsType
  <2>4. VectorsOf(p, InitFiles[p], AtFirst) \subseteq vectors
    BY DEF Init
  <2> QED
    BY <2>1, <2>3, <2>4 DEF HasVector
<1>4. \A q \in Req : Progress(q)
  BY <1>1 DEF Progress
<1>5. KnownProductsAreFound
  BY <1>1 DEF KnownProductsAreFound
<1> QED
  BY <1>1, <1>2, <1>3, <1>4, <1>5 DEF KnownInv

\* A frame that shows a product is answered with it, whatever indexings replace
\* its vectors or stop halfway meanwhile, once it is indexed and while it is
\* enabled and not more than the settings allow are. A margin of nothing, which
\* decides between equals by chance, is excluded.
THEOREM ShownProductsAreFound ==
    ASSUME MarginThreshold > 0
    PROVE  Spec => []KnownProductsAreFound
<1>1. TypeInv /\ KnownInv /\ UNCHANGED vars => KnownInv'
  <2> SUFFICES ASSUME TypeInv, KnownInv, UNCHANGED vars
               PROVE  KnownInv'
    OBVIOUS
  <2>1. UNCHANGED <<catalogue, files, vectors, pc, call, candidates, named, queue,
                    embedded, found, deleted, answer>>
    BY DEF vars, database, frame, script
  <2>2. \A p \in Product : /\ StaysOn(p)' => StaysOn(p) /\ Enabled(p)' = Enabled(p)
                           /\ \A r \in Req : Known(p, r)' => Known(p, r)
                           /\ \A i : Shows(i, p)' => Shows(i, p)
    BY <2>1 DEF StaysOn, Enabled, Known, Shows, Pictures, PictureSets
  <2>3. Fits' => Fits
    BY <2>1 DEF Fits, EverEnabled
  <2>4. \A q \in Req : Progress(q)'
    BY <2>1 DEF KnownInv, Progress, HasVector
  <2>5. KnownProductsAreFound'
    BY <2>1, <2>2, <2>3 DEF KnownInv, KnownProductsAreFound, Fits
  <2> QED
    BY <2>1, <2>2, <2>3, <2>4, <2>5 DEF KnownInv, HasVector
<1>2. TypeInv /\ WholeInv /\ SentInTurn /\ EnabledInv /\ KnownInv /\ [Next]_vars => KnownInv'
  BY <1>1, NextIs, StepKeepsKnown DEF Quiet
<1>3. KnownInv => KnownProductsAreFound
  BY DEF KnownInv
<1> QED
  BY <1>2, <1>3, InitKnown, TypeInvariant, EnabledInvariant, WholeInvariant, PTL DEF Spec

=============================================================================
