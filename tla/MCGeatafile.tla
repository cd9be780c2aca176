----------------------------- MODULE MCGeatafile -----------------------------
(* Every text of up to six characters, every site of up to four directives,  *)
(* every file of up to four blocks , and a watched file of up to two.        *)
EXTENDS Geatafile

Word(w) == [kind |-> "text", text |-> w, quoted |-> FALSE]
InQuotes(w) == [kind |-> "text", text |-> w, quoted |-> TRUE]
Open == [kind |-> "open", text |-> "", quoted |-> FALSE]
Close == [kind |-> "close", text |-> "", quoted |-> FALSE]
Line(w) == [i \in DOMAIN w |-> Word(w[i])]
Block(head, body) == Line(head) \o <<Open>> \o Line(body) \o <<Close>>

MCDirectives ==
  {Line(<<"reverse_proxy", "backend">>), Line(<<"respond", "204">>),
   Line(<<"respond", "pay">>), Line(<<"respond", "hello", "404">>),
   <<Word("respond"), InQuotes("204")>>, <<Word("respond"), Word("hello"), InQuotes("204")>>,
   Line(<<"rate_limit", "1/s", "burst", "1">>), Line(<<"pay", "1", "sat", "m1">>),
   Line(<<"pay", "0", "sat", "m1">>), Line(<<"pay", "1", "sat">>),
   Line(<<"lightning_pay", "1", "sat", "node">>), Line(<<"lightning_pay", "1", "sat", "mint">>),
   Line(<<"lightning_headers", "none">>), <<Word("lightning_headers"), Word("cookie"), InQuotes("pay")>>,
   Line(<<"lightning_headers", "authorization", "cookie">>),
   Line(<<"lightning_protocols", "l402">>), Line(<<"lightning_protocols">>),
   Line(<<"lightning_origin", "https://a.com">>), Line(<<"max_inflight", "off">>),
   Line(<<"max_inflight", "1">>), Line(<<"ipv6_prefix", "204">>)}

Ldk(path, key) ==
  Block(<<"lightning", "node">>,
        <<"network", "testnet", "endpoint", "https://ldk", "macaroon_file", "/f",
          "tls_cert_file", path, "pay_to", key>>)
Node == Ldk("/f", "02")
Mint == Block(<<"lightning", "mint">>, <<"mint", "m1", "network", "mainnet">>)
Payout(mint) == Block(<<"cashu_payout">>,
                      <<"request", "any", "mint", mint, "amount", "1", "max_fee", "0", "threshold", "1">>)
Hello(address) == Block(<<address>>, <<"respond", "hello">>)
Sold(address, receiver, protocol) ==
  Block(<<address>>, <<"lightning_pay", "1", "sat", receiver, "lightning_headers", "none",
                       "lightning_protocols", protocol, "respond", "204">>)

MCBlocks ==
  {Node, Mint, Ldk("f", "02"), Payout("m1"), Payout("m1/"), Payout("m2"),
   Block(<<"cashu_payout">>, <<"mint", "m3", "request", "priced", "max_fee", "1", "interval", "1h">>),
   Hello("a.com"), Hello("http://a.com"), Hello("A.COM"), Hello("b.com"), Hello("localhost"),
   Sold("a.com", "node", "x402"), Sold("a.com", "mint", "x402"), Sold("a.com", "mint", "l402"),
   Hello("http://::1"), Sold("http://::1", "node", "x402"),
   <<Close>>, <<Word("b.com"), Open>>}

MCWatched == {Hello("a.com"), Hello("b.com"), Sold("a.com", "mint", "l402"), Mint, <<Word("b.com"), Open>>}

MCPieces ==
  [characters |-> {Space, Newline, Quote, Backslash, "{", "#", "n"},
   directives |-> MCDirectives, blocks |-> MCBlocks, watched |-> MCWatched]
MCMaxPieces == [characters |-> 6, directives |-> 4, blocks |-> 4, watched |-> 2]
MCInitial == <<Hello("a.com")>>
MCBefore == Node \o Mint \o <<Word("a.com"), Open>>
MCAfter == <<Close>>

MCNumber == [n \in {"0", "1", "204", "404"} |->
               CASE n = "0" -> 0 [] n = "1" -> 1 [] n = "204" -> 204 [] n = "404" -> 404]
MCRate == [r \in {"0/s", "1/s"} |-> IF r = "1/s" THEN 1 ELSE 0]
MCInterval == [i \in {"1h", "0s"} |-> IF i = "1h" THEN 3600 ELSE 0]
Site(name, https, dotted, origin) ==
  [name |-> name, https |-> https, ip |-> FALSE, dotted |-> dotted, local |-> FALSE, labels |-> TRUE,
   origin |-> origin]
MCAddress ==
  [a \in {"a.com", "A.COM", "http://a.com", "b.com", "localhost", "http://::1"} |->
     CASE a \in {"a.com", "A.COM"} -> Site("a.com", TRUE, TRUE, "https://a.com")
       [] a = "http://a.com" -> Site("a.com", FALSE, TRUE, "http://a.com")
       [] a = "b.com" -> Site("b.com", TRUE, TRUE, "https://b.com")
       [] a = "localhost" -> Site("localhost", TRUE, FALSE, "https://localhost")
       [] a = "http://::1" -> [Site("::1", FALSE, FALSE, "http://::1") EXCEPT !.ip = TRUE]]
MCOrigin == [o \in {"https://a.com", "http://a.com", "https://b.com"} |->
               [host |-> IF o = "https://b.com" THEN "b.com" ELSE "a.com", https |-> o # "http://a.com"]]
MCUpstreams == {"backend", "respond", "pay"}
MCMints == [m \in {"m1", "m1/", "m2", "m3"} |-> IF m = "m1/" THEN "m1" ELSE m]
MCPaths == {"/f"}
MCNodeKeys == {"02"}
MCEndpoints == {"https://ldk"}
MCNames == {"node", "mint"}
MCHeader == [h \in {"authorization", "cookie", "pay"} |->
               CASE h = "authorization" -> 1 [] h = "cookie" -> 2 [] h = "pay" -> 3]
Asked(amounts) == [payable |-> TRUE, preferred |-> FALSE, mints |-> {}, amounts |-> amounts,
                   single_use |-> FALSE]
MCRequest == [r \in {"any", "priced"} |-> Asked(IF r = "any" THEN {} ELSE {2})]
===============================================================================
