----------------------------- MODULE Transcript -----------------------------
(***************************************************************************)
(* What the conversation write path promises: a conversation is a list of  *)
(* exchanges, each a prompt with one current reply; only the last exchange *)
(* is ever re-answered, and a reply is settled once.  No locks, handlers,  *)
(* crashes or reaper here: MessageStream is shown to implement this.       *)
(***************************************************************************)
EXTENDS Naturals, Sequences

CONSTANTS Conversations, Keys, NoKey, Replies

VARIABLES
    exchanges,   \* exchanges[c]: sequence of [key, reply]
    outcome,     \* "none", "streaming" or how the reply ended
    content      \* what the reply says

tvars == <<exchanges, outcome, content>>

Outcomes == {"complete", "error", "interrupted"}

Asked(k) == \E c \in Conversations : \E i \in 1..Len(exchanges[c]) : exchanges[c][i].key = k

TInit ==
    /\ exchanges = [c \in Conversations |-> <<>>]
    /\ outcome = [r \in Replies |-> "none"]
    /\ content = [r \in Replies |-> {}]

Ask(c, k, r) ==
    /\ k = NoKey \/ ~Asked(k)
    /\ outcome[r] = "none"
    /\ exchanges' = [exchanges EXCEPT ![c] = Append(@, [key |-> k, reply |-> r])]
    /\ outcome' = [outcome EXCEPT ![r] = "streaming"]
    /\ UNCHANGED content

Reanswer(c, r) ==
    LET n == Len(exchanges[c])
        p == exchanges[c][n].reply IN
    /\ n > 0
    /\ outcome[r] = "none"
    /\ exchanges' = [exchanges EXCEPT ![c][n].reply = r]
    /\ outcome' = [outcome EXCEPT ![p] = IF @ = "streaming" THEN "interrupted" ELSE @,
                                  ![r] = "streaming"]
    /\ UNCHANGED content

Settle(r) ==
    /\ outcome[r] = "streaming"
    /\ \E o \in Outcomes, said \in SUBSET Replies :
        /\ outcome' = [outcome EXCEPT ![r] = o]
        /\ content' = [content EXCEPT ![r] = said]
    /\ UNCHANGED exchanges

TNext ==
    \/ \E c \in Conversations, r \in Replies :
        Reanswer(c, r) \/ \E k \in Keys \cup {NoKey} : Ask(c, k, r)
    \/ \E r \in Replies : Settle(r)

TSpec == TInit /\ [][TNext]_tvars
=============================================================================
