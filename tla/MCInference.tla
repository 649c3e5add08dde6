----------------------------- MODULE MCInference -----------------------------
(* Instances of SemanticCache: a Creator asks the same question in two     *)
(* Conversations with the same history.                                    *)
EXTENDS SemanticCache

ReserveChain == <<"freellmapi", "chatgpt", "openai">>

(* Requests before these left the first circuit open and the second one    *)
(* failure short of it.                                                    *)
SomeFailures == [p \in Providers |->
    CASE p = ReserveChain[1] -> 2 [] p = ReserveChain[2] -> 1 [] OTHER -> 0]

Explain(c) ==
    [creator |-> "creator", query |-> "what is it", history |-> "none", conversation |-> c,
     bypass |-> FALSE, acts |-> FALSE, words |-> {"explanation"}, declared |-> "none",
     retrieval |-> FALSE, version |-> FALSE, sensitivity |-> "PRIVATE"]

TwoConversations == [r \in Requests |-> Explain(IF r = "r1" THEN "c1" ELSE "c2")]

(* The key normalises case and spaces and the embedding does not, so the   *)
(* same key may be found again at any similarity.                          *)
Itself == {<<q, q>> : q \in Questions}

(* No declaration makes a request cacheable that acts, that asks for live  *)
(* state or for an authorization, or whose documents carry no version.     *)
Declared == CacheableIntents \cup {"none", "UNKNOWN", "LIVE_STATE"}
ASSUME \A d \in Declared, acts, version \in BOOLEAN,
          words \in SUBSET {"live", "authorization", "explanation"} :
    LET m == [Explain("c1") EXCEPT !.declared = d, !.acts = acts, !.words = words,
                                   !.version = version]
    IN Eligible(m) =>
          ~acts /\ words \subseteq {"explanation"} /\ Intent(m) # "DOCUMENT_QA"
=============================================================================
