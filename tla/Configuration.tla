---------------------------- MODULE Configuration ----------------------------
(* What a configuration file means: tokens to blocks, a block's words to its  *)
(* directives, and the sites, receivers and payouts they make (config.rs).    *)
(*                                                                            *)
(* What a word means as a number, an address, a URL or a payment request is   *)
(* given by tables: the parsers of single values come from libraries, what is *)
(* built on them is here.  Rejections differ only in wording and line.        *)
EXTENDS Integers, Sequences, FiniteSets, Functions

CONSTANTS
  Number, Rate, Interval,  \* words that are numbers (no leading zero),
                           \* "<number>/s", durations in seconds
  Address,        \* words that are site addresses: name, scheme, shape, and
                  \* the origin its scheme and name are written as
  Origin,         \* words that are canonical origins: host and scheme
  Mints,          \* words that are mint URLs, with the mint each one is
  Upstreams, Endpoints, Names,  \* words accepted as such
  Paths, NodeKeys,  \* absolute paths; compressed lowercase public keys
  Header,         \* lowercase header names a site may bind, with their rank
  Request,        \* words that decode to a Cashu payment request
  MAX_PAYOUTS     \* payout blocks a file may have

Rejected == [ok |-> FALSE]

-----------------------------------------------------------------------------
(* The words of a site's block to its directives.                            *)

IsText(t) == t.kind = "text"
Words(tokens) == [i \in DOMAIN tokens |-> tokens[i].text]
Has(table, word) == word \in DOMAIN table

site_directive(word) ==
  word \in {"reverse_proxy", "respond", "rate_limit", "pay", "lightning_pay",
            "lightning_headers", "lightning_protocols", "lightning_origin",
            "max_body_bytes", "request_timeout", "ipv6_prefix",
            "payment_verify_limit", "max_inflight"}

\* An argument that may not be the next directive's name: a list of names, or
\* the optional status of `respond', ends before an unquoted one.
Argument(t) == t.quoted \/ ~site_directive(t.text)

\* How many of the tokens the first directive takes.
Count(tokens) ==
  LET head == tokens[1].text
      after == {i \in 2 .. Len(tokens) : ~Argument(tokens[i])}
      wanted ==
        CASE head \in {"rate_limit", "payment_verify_limit", "pay", "lightning_pay"} -> 4
          [] head \in {"reverse_proxy", "max_inflight", "max_body_bytes",
                       "request_timeout", "ipv6_prefix", "lightning_origin"} -> 2
          [] head \in {"lightning_headers", "lightning_protocols"} ->
               IF after = {} THEN Len(tokens) ELSE (CHOOSE i \in after : \A j \in after : i <= j) - 1
          [] head = "respond" ->
               IF Len(tokens) >= 3 /\ Argument(tokens[3]) THEN 3 ELSE 2
          [] OTHER -> 1
  IN IF wanted <= Len(tokens) THEN wanted ELSE Len(tokens)

Directives(tokens) ==
  LET Rest(i) == SubSeq(tokens, i, Len(tokens))
      From[i \in 1 .. Len(tokens) + 1] ==
        IF i > Len(tokens) THEN <<>>
        ELSE <<SubSeq(Rest(i), 1, Count(Rest(i)))>> \o From[i + Count(Rest(i))]
  IN From[1]

Positive(word) == Has(Number, word) /\ Number[word] > 0

\* One unquoted three-digit word is a status; otherwise the body comes first
\* and the status is optional.  Statuses 204, 205 and 304 carry no body.
parse_response(args) ==
  LET ThreeDigits(t) == Has(Number, t.text) /\ Number[t.text] \in 100 .. 999
      status_only == Len(args) = 1 /\ ~args[1].quoted /\ ThreeDigits(args[1])
      given == status_only \/ Len(args) = 2
      status == IF given THEN Number[args[Len(args)].text] ELSE 200
      body == IF status_only THEN "" ELSE args[1].text
  IN IF /\ Len(args) \in 1 .. 2
        /\ given => ThreeDigits(args[Len(args)]) /\ status \in 200 .. 599
        /\ status \in {204, 205, 304} => body = ""
     THEN [ok |-> TRUE, value |-> <<body, status>>]
     ELSE Rejected

\* One protocol or both, none of them twice.
Protocols(names) ==
  /\ names # <<>>
  /\ Range(names) \subseteq {"x402", "l402"}
  /\ \A i, j \in DOMAIN names : names[i] = names[j] => i = j

\* What one directive is accepted with.
Accepts(args) ==
  LET w == Words(args)
      n == Len(w)
  IN CASE w[1] = "reverse_proxy" -> n = 2 /\ w[2] \in Upstreams
       [] w[1] = "respond" -> parse_response(Tail(args)).ok
       [] w[1] \in {"rate_limit", "payment_verify_limit"} ->
            n = 4 /\ Has(Rate, w[2]) /\ Rate[w[2]] > 0 /\ w[3] = "burst" /\ Positive(w[4])
       [] w[1] = "pay" -> n = 4 /\ Positive(w[2]) /\ w[3] = "sat" /\ Has(Mints, w[4])
       [] w[1] = "max_inflight" ->
            n = 2 /\ (w[2] = "off" \/ (Positive(w[2]) /\ Number[w[2]] <= 1000000))
       [] w[1] \in {"max_body_bytes", "request_timeout"} ->
            n = 2 /\ (w[2] = "off" \/ Positive(w[2]))
       [] w[1] = "ipv6_prefix" -> n = 2 /\ Has(Number, w[2]) /\ Number[w[2]] <= 128
       [] w[1] = "lightning_pay" -> n = 4
       [] w[1] = "lightning_origin" -> n = 2
       [] w[1] = "lightning_headers" ->
            n >= 2 /\ (n > 2 => \A i \in 2 .. n : w[i] # "none")
       [] w[1] = "lightning_protocols" -> Protocols(Tail(w))
       [] OTHER -> FALSE

\* Directives that exclude one another share a slot.
SlotOf(args) == IF args[1].text \in {"reverse_proxy", "respond"} THEN "handler" ELSE args[1].text

\* No slot is filled twice.
GivenOnce(args) == \A i, j \in DOMAIN args : SlotOf(args[i]) = SlotOf(args[j]) => i = j

-----------------------------------------------------------------------------
(* A site's Lightning policy, receivers, payouts.                            *)

\* Settings written as name-value pairs, each known and given once.
Paired(w, known) ==
  LET names == {w[i] : i \in {j \in DOMAIN w : j % 2 = 1}}
  IN /\ Len(w) % 2 = 0
     /\ names \subseteq known
     /\ 2 * Cardinality(names) = Len(w)
Fields(w) ==
  [name \in {w[i] : i \in {j \in DOMAIN w : j % 2 = 1}} |->
     w[1 + CHOOSE i \in DOMAIN w : i % 2 = 1 /\ w[i] = name]]

\* parse_mint: two spellings of a mint are one mint from here on.
WithMint(f) == [name \in DOMAIN f |-> IF name = "mint" THEN Mints[f[name]] ELSE f[name]]

\* LdkReceiverConfig::validate.
AcceptsNode(f) ==
  /\ f["endpoint"] \in Endpoints
  /\ {f["macaroon_file"], f["tls_cert_file"]} \subseteq Paths
  /\ f["pay_to"] \in NodeKeys
  /\ "expiry_seconds" \in DOMAIN f =>
       Positive(f["expiry_seconds"]) /\ Number[f["expiry_seconds"]] <= 86400

\* ReceiverConfig::parse: a Cashu mint and nothing of an LDK Server, or an
\* LDK Server's settings.
ParseReceiver(w) ==
  LET f == Fields(w)
  IN IF /\ Paired(w, {"mint", "endpoint", "macaroon_file", "tls_cert_file", "pay_to",
                      "network", "expiry_seconds"})
        /\ "network" \in DOMAIN f /\ f["network"] \in {"mainnet", "testnet"}
        /\ IF "mint" \in DOMAIN f
           THEN DOMAIN f = {"mint", "network"} /\ Has(Mints, f["mint"])
           ELSE /\ {"endpoint", "macaroon_file", "tls_cert_file", "pay_to"} \subseteq DOMAIN f
                /\ AcceptsNode(f)
     THEN [ok |-> TRUE, fields |-> WithMint(f)]
     ELSE Rejected

\* validate_request: a payment request that takes this mint, and one amount,
\* named by the request, by the policy, or by both alike.
AcceptsRequest(request, mint, amounts) ==
  /\ request.payable
  /\ request.preferred \/ request.mints = {} \/ mint \in request.mints
  /\ \E amount \in request.amounts \union amounts :
       amount > 0 /\ request.amounts \union amounts = {amount}

ParsePayout(w) ==
  LET f == Fields(w)
      IsNumber(name) == name \in DOMAIN f => Has(Number, f[name])
      amounts == {Number[f[name]] : name \in {"amount"} \intersect DOMAIN f}
  IN IF /\ Paired(w, {"mint", "request", "amount", "max_fee", "interval", "threshold"})
        /\ {"mint", "request", "max_fee"} \subseteq DOMAIN f
        /\ \A name \in {"amount", "max_fee", "threshold"} : IsNumber(name)
        /\ Has(Mints, f["mint"])
        /\ Has(Request, f["request"])
        /\ AcceptsRequest(Request[f["request"]], Mints[f["mint"]], amounts)
        /\ ~Request[f["request"]].single_use
        /\ "threshold" \in DOMAIN f => Positive(f["threshold"])
        /\ "interval" \in DOMAIN f =>
             Has(Interval, f["interval"]) /\ Interval[f["interval"]] \in 1 .. 31536000
        /\ {"interval", "threshold"} \intersect DOMAIN f # {}
     THEN [ok |-> TRUE, mint |-> Mints[f["mint"]], fields |-> WithMint(f)]
     ELSE Rejected

\* A mint sells L402 only, L402 takes Authorization for itself, and the bound
\* headers are listed in order.
AcceptsBinding(receiver, protocols, headers) ==
  /\ "mint" \in DOMAIN receiver => protocols = {"l402"}
  /\ "l402" \in protocols => "authorization" \notin Range(headers)
  /\ \A i \in DOMAIN headers : Has(Header, headers[i])
  /\ \A i \in 2 .. Len(headers) : Header[headers[i - 1]] < Header[headers[i]]

\* The policy of a site, from the words each lightning_* directive was given:
\* its receiver exists, and its origin, stated or derived from the site's
\* address, is canonical and the site's.
AcceptsPolicy(given, receivers, site) ==
  LET pay == given["lightning_pay"]
      names == given["lightning_headers"]
      headers == IF names = <<"none">> THEN <<>> ELSE names
      protocols == IF "lightning_protocols" \in DOMAIN given
                   THEN Range(given["lightning_protocols"]) ELSE {"x402"}
      origin == IF "lightning_origin" \in DOMAIN given
                THEN given["lightning_origin"][1] ELSE site.origin
  IN /\ pay[3] \in DOMAIN receivers
     /\ "lightning_headers" \in DOMAIN given
     /\ Positive(pay[1]) /\ pay[2] = "sat"
     /\ AcceptsBinding(receivers[pay[3]], protocols, headers)
     /\ Has(Origin, origin)
     /\ Origin[origin] = [host |-> site.name, https |-> site.https]

LightningWords == {"lightning_headers", "lightning_origin", "lightning_protocols"}

\* The slots that are filled, and the directive that fills a slot.
Slots(args) == {SlotOf(args[i]) : i \in DOMAIN args}
ArgsOf(args, slot) == args[CHOOSE i \in DOMAIN args : SlotOf(args[i]) = slot]
Given(args) == [slot \in Slots(args) |-> Words(Tail(ArgsOf(args, slot)))]

\* Directives that make a site: each is accepted, one is its handler, and
\* those about Lightning come with a price.
AcceptsSite(args, receivers, site) ==
  /\ \A i \in DOMAIN args : Accepts(args[i])
  /\ GivenOnce(args)
  /\ "handler" \in Slots(args)
  /\ IF "lightning_pay" \in Slots(args)
     THEN AcceptsPolicy(Given(args), receivers, site)
     ELSE Slots(args) \intersect LightningWords = {}

HandlerOf(args) ==
  IF args[1].text = "respond" THEN parse_response(Tail(args)).value ELSE <<args[2].text>>

\* The policy of a site holds its receiver, not the receiver's name.
ReceiverOf(given, receivers) ==
  IF "lightning_pay" \in DOMAIN given THEN receivers[given["lightning_pay"][3]] ELSE <<>>

MaxInflight(given) ==
  IF "max_inflight" \notin DOMAIN given THEN 128
  ELSE IF given["max_inflight"][1] = "off" THEN 0
  ELSE Number[given["max_inflight"][1]]

\* A site from its directives.
SiteOf(args, receivers, site) ==
  IF AcceptsSite(args, receivers, site)
  THEN [ok |-> TRUE, name |-> site.name, https |-> site.https,
        handler |-> HandlerOf(ArgsOf(args, "handler")),
        settings |-> [slot \in Slots(args) \ {"handler"} |-> Given(args)[slot]],
        receiver |-> ReceiverOf(Given(args), receivers),
        max_inflight |-> MaxInflight(Given(args))]
  ELSE Rejected

\* A site from the tokens of its block.
parse_directives(body, receivers, site) == SiteOf(Directives(body), receivers, site)

-----------------------------------------------------------------------------
(* The blocks of a file.                                                     *)

Malformed == [address |-> "", name |-> "", body |-> <<>>, ok |-> FALSE]

\* An address (for a receiver, "lightning" and its name), an opening brace, the
\* words, a closing brace.  A brace inside the words is an error.
Blocks(tokens) ==
  LET From[i \in 1 .. Len(tokens) + 1] ==
        IF i > Len(tokens) THEN <<>>
        ELSE LET lightning == IsText(tokens[i]) /\ tokens[i].text = "lightning"
                 open == IF lightning THEN i + 2 ELSE i + 1
                 ends == {j \in open + 1 .. Len(tokens) : ~IsText(tokens[j])}
                 end == CHOOSE j \in ends : \A k \in ends : j <= k
             IN IF /\ IsText(tokens[i])
                   /\ open <= Len(tokens)
                   /\ lightning => IsText(tokens[i + 1]) /\ tokens[i + 1].text \in Names
                   /\ tokens[open].kind = "open"
                   /\ ends # {} /\ tokens[end].kind = "close"
                THEN <<[address |-> tokens[i].text, ok |-> TRUE,
                        name |-> IF lightning THEN tokens[i + 1].text ELSE "",
                        body |-> SubSeq(tokens, open + 1, end - 1)]>> \o From[end + 1]
                ELSE <<Malformed>>
  IN From[1]

\* An IP address or a single label serves HTTP only, and so do local names.
valid_domain(site) ==
  \/ site.ip /\ ~site.https
  \/ ~site.ip /\ site.labels /\ (site.https => site.dotted /\ ~site.local)

\* Mutant: the sites are resolved while the file is read.
VisibleAbove(receivers, i) == {j \in receivers : j < i}

\* The receivers a site may name: those of the whole file, before it or after.
Visible(receivers, i) == receivers

\* The blocks of a file, by what they describe.
ReceiverBlocks(blocks) == {i \in DOMAIN blocks : blocks[i].address = "lightning"}
PayoutBlocks(blocks) == {i \in DOMAIN blocks : blocks[i].address = "cashu_payout"}
SiteBlocks(blocks) == DOMAIN blocks \ (PayoutBlocks(blocks) \union ReceiverBlocks(blocks))

\* The receivers by their names, as a site sees them, and what each block says.
ReceiverAt(blocks, i) == ParseReceiver(Words(blocks[i].body))
PayoutAt(blocks, i) == ParsePayout(Words(blocks[i].body))
Known(blocks, i) ==
  [n \in {blocks[j].name : j \in Visible(ReceiverBlocks(blocks), i)} |->
     ReceiverAt(blocks, CHOOSE j \in ReceiverBlocks(blocks) : blocks[j].name = n).fields]
SiteAt(blocks, i) ==
  parse_directives(blocks[i].body, Known(blocks, i), Address[blocks[i].address])

\* Mutant: a receiver replaces an earlier one of its name.
ReceiversOverride(blocks) == \A i \in ReceiverBlocks(blocks) : ReceiverAt(blocks, i).ok

\* Receivers have names of their own, payouts mints of their own, and sites
\* domains of their own; there is a site.
AcceptsReceivers(blocks) ==
  /\ \A i \in ReceiverBlocks(blocks) : ReceiverAt(blocks, i).ok
  /\ \A i, j \in ReceiverBlocks(blocks) : blocks[i].name = blocks[j].name => i = j
AcceptsPayouts(blocks) ==
  /\ \A i \in PayoutBlocks(blocks) : PayoutAt(blocks, i).ok
  /\ \A i, j \in PayoutBlocks(blocks) :
       PayoutAt(blocks, i).mint = PayoutAt(blocks, j).mint => i = j
  /\ Cardinality(PayoutBlocks(blocks)) <= MAX_PAYOUTS
AcceptsSites(blocks) ==
  /\ \A i \in SiteBlocks(blocks) :
       /\ Has(Address, blocks[i].address)
       /\ valid_domain(Address[blocks[i].address])
       /\ SiteAt(blocks, i).ok
  /\ \A i, j \in SiteBlocks(blocks) :
       Address[blocks[i].address].name = Address[blocks[j].address].name => i = j
  /\ SiteBlocks(blocks) # {}

\* A configuration from the blocks of its file.
ConfigOf(blocks) ==
  IF /\ \A i \in DOMAIN blocks : blocks[i].ok
     /\ AcceptsReceivers(blocks)
     /\ AcceptsPayouts(blocks)
     /\ AcceptsSites(blocks)
  THEN [ok |-> TRUE, sites |-> {SiteAt(blocks, i) : i \in SiteBlocks(blocks)},
        payouts |-> {PayoutAt(blocks, i) : i \in PayoutBlocks(blocks)}]
  ELSE Rejected

\* Config::parse, after tokenize.
Parse(tokens) == ConfigOf(Blocks(tokens))
===============================================================================
