----------------------------- MODULE Recognition -----------------------------
(***************************************************************************)
(* From the upload of a frame to the product it shows: the check of the    *)
(* image, the choice of the candidates, the recognition providers, the     *)
(* search among the vectors of the reference images, and the script that   *)
(* replaces those vectors while the server runs.                           *)
(*                                                                         *)
(* The network that turns an image into a vector and the distance of two   *)
(* vectors are one table, Similarity. What is stored of a match is the     *)
(* business of Shopping; here a frame is answered with what it shows.      *)
(***************************************************************************)
EXTENDS Requests, Integers, Sequences, FiniteSets

CONSTANTS
    ByProductId,        \* the products in the order of product_id
    Stranger,           \* an id of no product
    Picture,            \* reference images
    Image,              \* frames, as the app crops them
    Unreadable,         \* an upload that is no JPEG or PNG, or too large
    Similarity,         \* Similarity[image][picture], in hundredths
    MatchThreshold,
    MarginThreshold,
    MaxCandidates,
    DefaultProductIds,  \* what the index script does when it is told nothing
    ScriptedStatus,     \* the answer of the scripted provider
    ScriptedProduct,    \* the id it is told to answer, or NoProduct
    NoProduct,
    InitCatalogue,
    InitFiles,
    InitIndexed,        \* the products with vectors at the beginning
    Stored              \* the indexing these are from

Product == {ByProductId[n] : n \in DOMAIN ByProductId}

\* A row of products: missing, or with metadata_json.recognitionEnabled.
Entry == {"absent", "off", "on"}

\* One product's turn in a run of the index script: the run, and how many
\* products it had left, as it may be told one product twice.
Turn == [run : Req \cup {Stored}, left : Nat]

Vector == [product : Product, picture : Picture, by : Turn]

Provider == {"openclip", "openai", "keyless", "scripted"}

Call ==
    [op : {"frame"}, image : Image \cup {Unreadable}, provider : Provider]
      \cup [op : {"index"}, products : Seq(Product \cup {Stranger})]
      \cup [op : {"seed"}, catalogue : [Product -> Entry]]
      \cup [op : {"files"}, files : [Product -> SUBSET Picture]]
      \cup {NoCall}

ASSUME RecognitionAssumption ==
    /\ CallsOf \in [Req -> SUBSET Call]
    /\ Before \in [Req -> SUBSET Req]
    /\ ByProductId \in Seq(Product)
    /\ DefaultProductIds \in Seq(Product \cup {Stranger})
    /\ InitIndexed \subseteq Product
    /\ Stored \notin Req
    /\ {Stranger, NoProduct} \cap Product = {}
    /\ Stranger # NoProduct
    /\ ScriptedStatus \in {"MATCHED", "AMBIGUOUS", "UNKNOWN"}
    /\ ScriptedProduct \in Product \cup {Stranger, NoProduct}
    /\ Unreadable \notin Image
    /\ \A m, n \in DOMAIN ByProductId : ByProductId[m] = ByProductId[n] => m = n
    /\ Similarity \in [Image -> [Picture -> -100 .. 100]]
    /\ MatchThreshold \in -100 .. 100
    /\ MarginThreshold \in 0 .. 200
    /\ MaxCandidates \in Nat \ {0}
    /\ InitCatalogue \in [Product -> Entry]
    /\ InitFiles \in [Product -> SUBSET Picture]
    /\ \A p \in InitIndexed : InitFiles[p] # {}

VARIABLES
    catalogue,   \* the products table
    files,       \* the reference images of each product on the disk
    vectors,     \* the product_embeddings table
    candidates,  \* of a frame: the products it may be
    named,       \* of a frame: the products its answer names
    queue,       \* of an indexing: the products still to do
    embedded,    \* of an indexing: the images it has embedded, of the first
                 \* product of its queue
    found,       \* of an indexing: the rows its DELETE sees
    deleted      \* of an indexing: the rows it has deleted and not committed

database == <<catalogue, files, vectors>>
frame    == <<candidates, named>>
script   == <<queue, embedded, found, deleted>>
vars     == <<database, pc, call, frame, script, answer>>

TypeOK ==
    /\ catalogue \in [Product -> Entry]
    /\ files \in [Product -> SUBSET Picture]
    /\ vectors \subseteq Vector
    /\ pc \in [Req -> {"idle", "await", "product", "delete", "wait", "insert",
                       "done"}]
    /\ call \in [Req -> Call]
    /\ answer \in [Req -> {"", "400", "503", "UNKNOWN", "AMBIGUOUS", "MATCHED",
                           "indexed", "failed", "killed"}]
    /\ candidates \in [Req -> SUBSET Product]
    /\ named \in [Req -> SUBSET Product]
    /\ queue \in [Req -> Seq(Product \cup {Stranger})]
    /\ embedded \in [Req -> SUBSET Picture]
    /\ found \in [Req -> SUBSET Vector]
    /\ deleted \in [Req -> SUBSET Vector]

VectorsOf(p, pictures, turn) ==
    {[product |-> p, picture |-> i, by |-> turn] : i \in pictures}

AtFirst == [run |-> Stored, left |-> 0]

Init ==
    /\ catalogue = InitCatalogue
    /\ files = InitFiles
    /\ vectors = UNION {VectorsOf(p, InitFiles[p], AtFirst) : p \in InitIndexed}
    /\ RequestInit
    /\ candidates = [r \in Req |-> {}]
    /\ named = [r \in Req |-> {}]
    /\ queue = [r \in Req |-> <<>>]
    /\ embedded = [r \in Req |-> {}]
    /\ found = [r \in Req |-> {}]
    /\ deleted = [r \in Req |-> {}]

-----------------------------------------------------------------------------
(* A frame: POST /sessions/{sessionId}/recognize. *)

\* A plausible bug: the products that are enabled are read once and kept.
EnabledAtFirst(p) == InitCatalogue[p] = "on"

Enabled(p) == catalogue[p] = "on"

EnabledUpTo(n) == {p \in Product : Enabled(p) /\ \E m \in 1 .. n : ByProductId[m] = p}

\* The first k of the enabled products.
FirstOf(k) ==
    {ByProductId[n] : n \in {m \in DOMAIN ByProductId :
        Enabled(ByProductId[m]) /\ Cardinality(EnabledUpTo(m)) <= k}}

\* As many as the settings allow.
Candidates == FirstOf(MaxCandidates)

\* A plausible bug: the ids of the provider are believed.
AllowedAnyway(ids, allowed) == ids \cap Product

AllowedUnchecked(ids, allowed) == ids

Allowed(ids, allowed) == ids \cap allowed

\* What the service makes of a decision: a status and the ids it names.
Settle(r, status, ids, allowed) ==
    LET known == Allowed(ids, allowed)
    IN  \/ /\ \/ status = "UNKNOWN"
              \/ status = "AMBIGUOUS" /\ Cardinality(known) < 2
              \/ status = "MATCHED" /\ known = {}
           /\ Reply(r, "UNKNOWN")
           /\ UNCHANGED named
        \/ /\ \/ status = "AMBIGUOUS" /\ Cardinality(known) >= 2
              \/ status = "MATCHED" /\ known # {}
           /\ Reply(r, status)
           /\ named' = [named EXCEPT ![r] = known]

\* The scripted provider answers as the settings say, without an await.
ScriptedIds ==
    IF ScriptedStatus = "AMBIGUOUS" THEN FirstOf(2) \cap Candidates
    ELSE IF ScriptedProduct = NoProduct THEN FirstOf(1) ELSE {ScriptedProduct}

\* The provider is made, the image is read and checked, the candidates are
\* read. Without any the providers settle for UNKNOWN.
Receive(r) ==
    /\ \E c \in CallsOf[r] :
          /\ c.op = "frame"
          /\ Send(r, c)
          /\ \/ /\ c.provider = "keyless"
                /\ Reply(r, "503")
                /\ UNCHANGED frame
             \/ /\ c.provider # "keyless" /\ c.image = Unreadable
                /\ Reply(r, "400")
                /\ UNCHANGED frame
             \/ /\ c.provider # "keyless" /\ c.image # Unreadable
                /\ Candidates = {}
                /\ Settle(r, "UNKNOWN", {}, {})
                /\ UNCHANGED candidates
             \/ /\ c.provider = "scripted" /\ c.image # Unreadable
                /\ Candidates # {}
                /\ Settle(r, ScriptedStatus, ScriptedIds, Candidates)
                /\ UNCHANGED candidates
             \/ /\ c.provider \in {"openclip", "openai"} /\ c.image # Unreadable
                /\ Candidates # {}
                /\ candidates' = [candidates EXCEPT ![r] = Candidates]
                /\ Goto(r, "await")
                /\ UNCHANGED named
    /\ UNCHANGED <<database, script>>

\* The image cannot be embedded; OpenAI times out, fails or answers nonsense.
ProviderFails(r) ==
    /\ pc[r] = "await"
    /\ Reply(r, "503")
    /\ UNCHANGED <<database, call, frame, script>>

\* OpenAI answers anything the schema of the answer lets through.
OpenAIAnswers(r) ==
    /\ pc[r] = "await" /\ call[r].provider = "openai"
    /\ \E ids \in SUBSET (Product \cup {Stranger}) :
          \/ Settle(r, "UNKNOWN", ids, candidates[r])
          \/ Settle(r, "AMBIGUOUS", ids, candidates[r])
          \/ Cardinality(ids) <= 1 /\ Settle(r, "MATCHED", ids, candidates[r])
    /\ UNCHANGED <<database, call, candidates, script>>

(* The search of the fast path. *)

Hits(r) == {v \in vectors : v.product \in candidates[r]}

Score(r, v) == Similarity[call[r].image][v.picture]

\* The vectors that come first and second; equals in any order.
BestVectors(r) ==
    {pair \in Hits(r) \X Hits(r) :
        /\ pair[1] # pair[2]
        /\ \A v \in Hits(r) : /\ Score(r, v) <= Score(r, pair[1])
                              /\ v = pair[1] \/ Score(r, v) <= Score(r, pair[2])}

\* A plausible bug: LIMIT 2 before the best vector of each product is taken.
TopTwoVectors(r) == BestVectors(r)

\* The best vector of each product.
BestOfProducts(r) ==
    {v \in Hits(r) : \A w \in Hits(r) :
        w.product = v.product => Score(r, w) <= Score(r, v)}

\* The two products that come first, by their best vectors.
TopTwo(r) ==
    {pair \in BestOfProducts(r) \X BestOfProducts(r) :
        /\ pair[1].product # pair[2].product
        /\ \A v \in BestOfProducts(r) :
              /\ Score(r, v) <= Score(r, pair[1])
              /\ v.product = pair[1].product \/ Score(r, v) <= Score(r, pair[2])}

\* Good enough by itself, and better than the next one by the margin: a
\* product with nothing to compare it to is not matched.
Convincing(r, pair) ==
    /\ Score(r, pair[1]) >= MatchThreshold
    /\ Score(r, pair[1]) - Score(r, pair[2]) >= MarginThreshold

\* The image is embedded; search, decision and answer run without an await.
OpenCLIPAnswers(r) ==
    /\ pc[r] = "await" /\ call[r].provider = "openclip"
    /\ \/ \E pair \in TopTwo(r) :
             /\ Convincing(r, pair)
             /\ Settle(r, "MATCHED", {pair[1].product}, candidates[r])
       \/ /\ ~\E pair \in TopTwo(r) : Convincing(r, pair)
          /\ Settle(r, "UNKNOWN", {}, candidates[r])
    /\ UNCHANGED <<database, call, candidates, script>>

-----------------------------------------------------------------------------
(* The index script: one product after another, each replaced in a         *)
(* transaction of its own.                                                 *)

Listed(c) == IF c.products = <<>> THEN DefaultProductIds ELSE c.products

IndexStart(r) ==
    /\ \E c \in CallsOf[r] :
          /\ c.op = "index"
          /\ Send(r, c)
          /\ queue' = [queue EXCEPT ![r] = Listed(c)]
    /\ Goto(r, "product")
    /\ UNCHANGED <<database, frame, embedded, found, deleted>>

HasImages(p) == files[p] # {}

\* Find the product and its images and embed them; the script stops at the
\* first product that is missing or has no image.
IndexProduct(r) ==
    /\ pc[r] = "product"
    /\ \/ /\ queue[r] = <<>>
          /\ Reply(r, "indexed")
          /\ UNCHANGED embedded
       \/ /\ queue[r] # <<>>
          /\ LET p == Head(queue[r])
             IN  IF p \in Product /\ catalogue[p] # "absent" /\ HasImages(p)
                 THEN /\ embedded' = [embedded EXCEPT ![r] = files[p]]
                      /\ Goto(r, "delete")
                 ELSE /\ Reply(r, "failed")
                      /\ UNCHANGED embedded
    /\ UNCHANGED <<database, call, frame, queue, found, deleted>>

\* DELETE: the rows there are when the statement starts, and of these the
\* ones that no other transaction has deleted once it has waited for them.
IndexDelete(r) ==
    /\ pc[r] = "delete"
    /\ found' = [found EXCEPT ![r] = {v \in vectors : v.product = Head(queue[r])}]
    /\ Goto(r, "wait")
    /\ UNCHANGED <<database, call, frame, queue, embedded, deleted>>

\* A plausible bug: the old vectors are left.
NothingDeleted(r) == {}

Deletable(r) == found[r] \cap vectors

\* A plausible bug: the DELETE is committed by itself.
IndexWaitCommits(r) ==
    /\ pc[r] = "wait"
    /\ vectors' = vectors \ found[r]
    /\ found' = [found EXCEPT ![r] = {}]
    /\ Goto(r, "insert")
    /\ UNCHANGED <<catalogue, files, call, frame, queue, embedded, deleted>>

IndexWait(r) ==
    /\ pc[r] = "wait"
    /\ \A q \in Req \ {r} : deleted[q] \cap found[r] = {}
    /\ deleted' = [deleted EXCEPT ![r] = Deletable(r)]
    /\ found' = [found EXCEPT ![r] = {}]
    /\ Goto(r, "insert")
    /\ UNCHANGED <<database, call, frame, queue, embedded>>

\* The INSERTs and the commit.
IndexCommit(r) ==
    LET turn == [run |-> r, left |-> Len(queue[r])]
    IN  /\ pc[r] = "insert"
        /\ vectors' = (vectors \ deleted[r])
                         \cup VectorsOf(Head(queue[r]), embedded[r], turn)
        /\ deleted' = [deleted EXCEPT ![r] = {}]
        /\ queue' = [queue EXCEPT ![r] = Tail(@)]
        /\ Goto(r, "product")
        /\ UNCHANGED <<catalogue, files, call, frame, embedded, found>>

\* The script is interrupted, or fails at an image or in the database:
\* whatever it has not committed is rolled back.
IndexStops(r) ==
    /\ pc[r] \in {"product", "delete", "wait", "insert"}
    /\ found' = [found EXCEPT ![r] = {}]
    /\ deleted' = [deleted EXCEPT ![r] = {}]
    /\ Reply(r, "killed")
    /\ UNCHANGED <<database, call, frame, queue, embedded>>

-----------------------------------------------------------------------------
(* Around them: the catalogue is seeded, the reference images are changed. *)

Seed(r) ==
    /\ \E c \in CallsOf[r] :
          /\ c.op = "seed"
          /\ Send(r, c)
          /\ catalogue' = [p \in Product |->
                             IF c.catalogue[p] = "absent" THEN catalogue[p]
                             ELSE c.catalogue[p]]
    /\ Reply(r, "indexed")
    /\ UNCHANGED <<files, vectors, frame, script>>

ChangeFiles(r) ==
    /\ \E c \in CallsOf[r] :
          /\ c.op = "files"
          /\ Send(r, c)
          /\ files' = c.files
    /\ Reply(r, "indexed")
    /\ UNCHANGED <<catalogue, vectors, frame, script>>

Quiet ==
    /\ AllAnswered
    /\ UNCHANGED vars

Next ==
    \/ \E r \in Req :
          \/ Receive(r) \/ ProviderFails(r) \/ OpenAIAnswers(r)
          \/ OpenCLIPAnswers(r)
          \/ IndexStart(r) \/ IndexProduct(r) \/ IndexDelete(r) \/ IndexWait(r)
          \/ IndexCommit(r) \/ IndexStops(r)
          \/ Seed(r) \/ ChangeFiles(r)
    \/ Quiet

Spec == Init /\ [][Next]_vars

-----------------------------------------------------------------------------
(* Correctness. *)

\* The reference images of product p, all of one time and of all times.
PictureSets(p) ==
    {InitFiles[p]} \cup {call[q].files[p] : q \in {u \in Req : call[u].op = "files"}}

Pictures(p) == UNION PictureSets(p)

\* Image i shows p: every picture of p is like it, none of another product.
Shows(i, p) ==
    \A picture \in Pictures(p) :
        /\ Similarity[i][picture] >= MatchThreshold
        /\ \A q \in Product \ {p} : \A other \in Pictures(q) :
              Similarity[i][picture] - Similarity[i][other] >= MarginThreshold

\* The products that are or have been set to be recognised.
EverEnabled ==
    {p \in Product : \/ InitCatalogue[p] = "on"
                     \/ \E q \in Req : call[q].op = "seed" /\ call[q].catalogue[p] = "on"}

\* p is enabled from before r on, and was indexed before it was sent.
Known(p, r) ==
    /\ InitCatalogue[p] = "on"
    /\ \A q \in Req : call[q].op = "seed" => call[q].catalogue[p] # "off"
    /\ \/ p \in InitIndexed
       \/ \E q \in Before[r] :
             /\ call[q].op = "index" /\ answer[q] = "indexed"
             /\ \E n \in DOMAIN Listed(call[q]) : Listed(call[q])[n] = p

\* A frame that shows a known product is answered with that product, or with
\* a failure of the embedding: whatever indexings replace its vectors, or
\* stop halfway, while it is served (replace_product, search).
KnownProductsAreFound ==
    \A r \in Req, p, q \in Product :
        /\ call[r].op = "frame" /\ call[r].provider = "openclip"
        /\ call[r].image # Unreadable /\ answer[r] # ""
        /\ p # q /\ Known(p, r) /\ Known(q, r)
        /\ Shows(call[r].image, p)
        /\ Cardinality(EverEnabled) <= MaxCandidates
        => \/ answer[r] = "503"
           \/ answer[r] = "MATCHED" /\ named[r] = {p}

\* OpenCLIP's answer is a product exactly if one of its vectors is near enough
\* and nearer, by the margin, than every vector of every other candidate: a
\* product with many images does not compete with itself
\* (select_best_product_matches, OpenCLIPRecognitionProvider.recognize).
MatchesAreClear ==
    [][\A r \in Req :
          pc[r] = "await" /\ call[r].provider = "openclip"
            /\ answer'[r] \in {"MATCHED", "UNKNOWN"} =>
          LET winners == {v \in Hits(r) :
                  /\ Score(r, v) >= MatchThreshold
                  /\ \E w \in Hits(r) : w.product # v.product
                  /\ \A w \in Hits(r) : w.product # v.product =>
                        Score(r, v) - Score(r, w) >= MarginThreshold}
          IN  named'[r] = {v.product : v \in winners}]_vars

\* The seeds that set p to entry.
SeedsAs(p, entry) == {q \in Req : call[q].op = "seed" /\ call[q].catalogue[p] = entry}

\* A product that is named was enabled when the frame came: from the start or
\* by a seed that was not after the frame, and again by a later one if a seed
\* that came before the frame switched it off. What the provider makes up
\* never gets out, and neither does what was read for an earlier frame; what
\* is switched off while the provider is awaited may still be named
\* (RecognitionService.recognize).
OnlyEnabledProductsNamed ==
    \A r \in Req : \A p \in named[r] :
        MayFind(r, InitCatalogue[p] = "on", SeedsAs(p, "on"), SeedsAs(p, "off"))

Earlier(x, y) ==
    y.run # Stored /\ \/ x.run = Stored \/ x.run \in Before[y.run]
                      \/ x.run = y.run /\ x.left > y.left

\* The vectors one turn of an indexing leaves of a product are those of all the
\* images the product had at one time, never a part of them, and none of them
\* outlives an indexing that was sent, or a turn that came, after: an indexing
\* that is stopped leaves whole products behind, and the next one replaces
\* them; only where indexings overlap are there those of several
\* (replace_product).
IndexingsAreWhole ==
    \A v \in vectors :
        /\ {w.picture : w \in {u \in vectors : u.product = v.product /\ u.by = v.by}}
             \in PictureSets(v.product)
        /\ \A w \in vectors : w.product = v.product => ~Earlier(v.by, w.by)
=============================================================================
