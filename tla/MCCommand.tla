---------------------------- MODULE MCCommand ------------------------------
(* Small sites of a home page, a second page in a subdirectory and a third *)
(* one: links in several spellings and with another port, forms that are   *)
(* closed, left open, nested or empty, endpoints several pages name, pages *)
(* behind a failing one, a page with a bare question mark, more pages than *)
(* the crawl may visit. Two parameters and a tracking one; a category with *)
(* a budget that bites, one without budget, and one whose payload file is  *)
(* cut off before the first. Networks on which everything answers but may  *)
(* fail, only one scheme answers, HEAD is not answered, a port accepts     *)
(* connections and stays silent or speaks the other scheme, or the host    *)
(* does not resolve; and one set of flags for each way the command can go. *)
EXTENDS Command

Url(origin, dir, name, query, spelling) ==
  [origin |-> origin, dir |-> dir, name |-> name, query |-> query, spelling |-> spelling]

(* A reference within the directory, from the root, and to a host. *)
Here(name)           == <<Url("", 0, name, <<>>, "plain")>>
Path(dir, name, q)   == <<Url("", dir, name, q, "plain")>>
Variant(dir, name, q) == <<Url("", dir, name, q, "variant")>>
At(origin, dir, name) == <<Url(origin, dir, name, <<>>, "plain")>>

Token(tag, ref, method, name) == [tag |-> tag, ref |-> ref, method |-> method, name |-> name]
Link(ref)         == Token("link", ref, "", "")
Form(method, ref) == Token("form", ref, method, "")
EmptyForm(ref)    == Token("form/", ref, "POST", "")
EndForm           == Token("endform", <<>>, "", "")
Field(name)       == Token("field", <<>>, "", name)

root == 1
sub == 2

MCDirs == {root, sub}
MCNames == 1..4
MCQueries == {<<>>, <<"a">>}

MCTargets == {Url("site", root, 1, <<>>, "plain"), Url("site:80", root, 1, <<>>, "variant")}

MCDefaultPort == [o \in {"site", "site:80", "elsewhere"} |-> IF o = "site:80" THEN "site" ELSE o]

LinksOnly == <<Link(Path(sub, 2, <<>>)), Link(Variant(sub, 2, <<>>)), Link(Path(root, 3, <<"a">>))>>

Homes == {
  LinksOnly,
  <<Form("POST", <<>>), Field("a"), Field("utm"), Field("a"), EndForm,
    Link(At("site:80", sub, 2)), Link(At("elsewhere", root, 1))>>,
  <<Form("GET", Path(root, 3, <<>>)), Field("a"), Form("POST", Path(root, 3, <<>>)), Field("b"),
    Link(At("site", sub, 2))>>,
  <<EmptyForm(Path(sub, 2, <<>>)), Field("utm"), Link(Variant(root, 1, <<>>)), Link(Path(root, 4, <<>>)),
    Link(Path(root, 3, <<"a">>))>> }

Seconds == {
  <<Form("GET", Here(3)), Field("b"), EndForm, Field("a")>>,
  <<Form("POST", Path(root, 1, <<>>)), Field("b"), EndForm, Link(Path(root, 3, <<>>))>> }

Thirds == { <<>>, <<Field("b"), Form("POST", <<>>), EndForm, Form("POST", Path(root, 3, <<>>)), Field("a")>> }

MCSites == {(<<root, 1>> :> h) @@ (<<sub, 2>> :> s) @@ (<<root, 3>> :> t) : h \in Homes, s \in Seconds, t \in Thirds}

(* Any order of the spellings will do: one of each URL is canonical. *)
MCOrigins == <<"elsewhere", "site", "site:80">>
Place(u) ==
  <<CHOOSE i \in 1..3 : MCOrigins[i] = u.origin, u.dir, u.name, Len(u.query), IF u.spelling = "plain" THEN 0 ELSE 1>>
MCAlphabetical(u, v) ==
  \E i \in 1..5 : Place(u)[i] < Place(v)[i] /\ \A j \in 1..(i - 1) : Place(u)[j] = Place(v)[j]

MCNoise == {"utm"}
MCFallback == <<"q", "a">>
MCCategories == <<"XSS", "CRLF", "XXE">>

Line(file, n, unreserved) ==
  [file |-> file, id |-> n, usable |-> TRUE, overlong |-> FALSE, unreserved |-> unreserved]
Comment(file) == [Line(file, 0, TRUE) EXCEPT !.usable = FALSE]
Overlong(file) == [Comment(file) EXCEPT !.overlong = TRUE]

(* A payload in two files, one of them cut off, and a category without     *)
(* payloads.                                                               *)
MCLines ==
  [XSS |-> <<Comment(1), Line(1, 1, FALSE), Line(1, 2, TRUE), Overlong(1), Line(1, 6, FALSE),
             Line(2, 1, FALSE), Line(2, 3, FALSE)>>,
   CRLF |-> <<Line(1, 4, FALSE)>>,
   XXE |-> <<Comment(1), Overlong(1), Line(1, 5, FALSE)>>]

MCBudget ==
  [quick |-> [XSS |-> 1, CRLF |-> 0, XXE |-> 1],
   standard |-> [XSS |-> 2, CRLF |-> 0, XXE |-> 1]]

MCEscaping == {"XSS"}

Server(open, speaks, head) == [open |-> open, speaks |-> speaks, head |-> head]
Closed == Server(FALSE, {}, FALSE)

Network(resolves, lossy, http, https) ==
  [resolves |-> resolves, lossy |-> lossy, at |-> [http |-> http, https |-> https]]

Answering == Network(TRUE, TRUE, Server(TRUE, {"http"}, TRUE), Server(TRUE, {"https"}, TRUE))

MCNetworks == {
  Answering,
  Network(TRUE, FALSE, Server(TRUE, {"http"}, FALSE), Closed),
  Network(TRUE, FALSE, Server(TRUE, {}, TRUE), Server(TRUE, {"http", "https"}, TRUE)),
  Network(FALSE, FALSE, Closed, Closed) }

FlagsWith(set) == [f \in {"accepted", "preflightOnly", "skipPreflight", "corpus", "budget", "earlier"} |-> f \in set]

Unchecked == FlagsWith({"accepted", "corpus", "skipPreflight"})

MCFlags == {
  FlagsWith({"accepted", "corpus", "earlier"}),
  FlagsWith({"accepted", "corpus", "budget"}),
  Unchecked,
  FlagsWith({"accepted", "preflightOnly"}),
  FlagsWith({"accepted", "preflightOnly", "skipPreflight"}),
  FlagsWith({"accepted"}),
  FlagsWith({"corpus", "earlier"}) }

(* All sites and modes without the gate, and one site with all the rest. *)
OneSite == CHOOSE s \in MCSites : s[<<root, 1>>] = LinksOnly /\ s[<<root, 3>>] = <<>>
MCConsidered(f, met) ==
  \/ f = Unchecked /\ met.network = Answering /\ met.scheme = "http"
  \/ met.site = OneSite /\ met.mode = "quick"
=============================================================================
