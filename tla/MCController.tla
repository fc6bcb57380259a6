---------------------------- MODULE MCController ----------------------------
(* Two requests at a time, of three kinds: a lookup with tools given, a       *)
(* lookup that discovers them, and a dry run; a catalog whose first query     *)
(* misses nearly, with a routed row and endpoints that fit or do not; and one *)
(* earlier call in the ledger.                                                *)
EXTENDS Controller, TLC
CONSTANTS r1, r2

MCAlias == [n \in {"domain", "full_name", "first_name", "account"} |->
              IF n = "domain" THEN {"company_domain"} ELSE IF n = "full_name" THEN {"person"} ELSE {}]
Entry0 == [routed |-> FALSE, supported |-> TRUE, unbindable |-> FALSE,
           required |-> {"domain"}, optional |-> {"full_name", "first_name"}, fixed |-> {}]
MCDetail == ( "t1" :> Entry0 ) @@ ( "t2" :> [Entry0 EXCEPT !.optional = {}] )
              @@ ( "t3" :> [Entry0 EXCEPT !.required = {"domain", "account"}] )
              @@ ( "parent" :> [Entry0 EXCEPT !.routed = TRUE] )

Row(id, kind, score, children) ==
    [id |-> id, kind |-> kind, capability |-> "email", score |-> score, children |-> children]
Missed(near) == [rows |-> <<>>, near |-> near]
Full == {"return", "verified", "work", "email"}
MCSearch ==
    ( Full :> Missed(<<{"verified", "return"}, {"verified"}>>) )
      @@ ( {"return", "work", "email"} :> Missed(<<>>) )
      @@ ( {"verified", "work", "email"} :> Missed(<<>>) )
      @@ ( WorkEmail :> [rows |-> << Row("t3", "endpoint", 1, <<>>), Row("parent", "routed", 2, <<"t1", "t2">>),
                                     Row("t1", "endpoint", 1, <<>>) >>, near |-> <<>>] )
      @@ ( {"fax"} :> Missed(<<>>) ) @@ ( {"verified", "phone"} :> Missed(<<>>) ) @@ ( {"phone"} :>
              [rows |-> << Row("t2", "endpoint", 1, <<>>), Row("t3", "endpoint", 1, <<>>) >>, near |-> <<>>] )

Lookup == [email |-> TRUE, domain |-> TRUE, person |-> TRUE]
Other == [email |-> FALSE, domain |-> FALSE, person |-> FALSE]
Ask(task, words, facts, tools, attempts, dry) ==
    [task |-> task, objective |-> words, literals |-> {"Ada"}, facts |-> facts,
     tools |-> tools, attempts |-> attempts, dry |-> dry]
Verified == {"find", "return", "verified", "professional", "email", "Ada"}
MCRequest ==
    ( r1 :> { Ask(Lookup, {"find"}, {}, <<"t1", "t2">>, 2, FALSE),
              Ask(Other, {"verified", "phone"}, {"company_domain"}, <<>>, 1, TRUE) } )
      @@ ( r2 :> { Ask(Lookup, Verified, {"person", "company_domain"}, <<>>, 1, FALSE),
                   Ask(Lookup, {"fax"}, {"person"}, <<>>, 1, FALSE) } )

Silent == [kind |-> "object", address |-> "expected", identity |-> "silent", person |-> "silent",
           smtp |-> "silent", validity |-> "silent", verification |-> "silent"]
Ends(output, settles, charged) == [output |-> output, settles |-> settles, charged |-> charged]
MCEndings ==
    { Ends([Silent EXCEPT !.kind = "error"], "late", FALSE),
      Ends(Silent, "now", FALSE),
      Ends([Silent EXCEPT !.smtp = "for", !.person = "for"], "now", TRUE),
      Ends([Silent EXCEPT !.smtp = "for", !.person = "against"], "never", FALSE) }
MCEarlier == << [call |-> <<Nothing, 0>>, endpoint |-> "t1", kind |-> "reserve"],
                [call |-> <<Nothing, 0>>, endpoint |-> "t1", kind |-> "settle"] >>
=============================================================================
