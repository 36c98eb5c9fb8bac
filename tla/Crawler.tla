------------------------------ MODULE Crawler ------------------------------
(***************************************************************************)
(* The crawler, pkg/crawler/crawler.go and canonical.go: a breadth-first   *)
(* search over canonical URLs, bounded by MaxPages, that turns each page   *)
(* and each of its forms into an endpoint.                                 *)
(*                                                                         *)
(* A URL is [origin, dir, name, query, spelling]: origin is the host with  *)
(* its port as written ("" in a relative reference), dir a number (0 in a  *)
(* reference within the directory), query the names of its parameters, and *)
(* spelling what CanonicalizeURL removes besides the default port (case, a *)
(* fragment, the order of the query).  All use one scheme, http or https.  *)
(* A name in Marked is written with a question mark that no parameter      *)
(* follows.                                                                *)
(* A page is the sequence of its tokens that matter.                       *)
(***************************************************************************)
EXTENDS Integers, Sequences, FiniteSets, SequencesExt, Lists

CONSTANTS
  Dirs, Names, Queries,  \* the parts of the URLs of the target
  Marked,         \* names
  Targets,        \* URLs Scan is called with
  Sites,          \* functions from <<dir, name>> to pages
  DefaultPort,    \* DefaultPort[o]: origin o without an explicit default port
  Alphabetical(_, _),  \* the order of canonical URLs as strings
  MaxPages

Spellings == {"plain", "variant"}
Origins == DOMAIN DefaultPort
URL == [origin : Origins, dir : Dirs, name : Names, query : Queries, spelling : Spellings]
Reference == URL \cup [origin : {""}, dir : Dirs \cup {0}, name : Names, query : Queries, spelling : Spellings]

(* Tokens are [tag, ref, method, name]: a link, a form's start tag, a form *)
(* without content, a form's end tag, a field.  ref is <<>> or <<URL>>.    *)
Tokens ==
  {t \in [tag : {"link", "form", "form/", "endform", "field"}, ref : {r \in Seq(Reference) : Len(r) <= 1},
          method : {"", "GET", "POST"}, name : STRING] :
     /\ t.tag \in {"endform", "field"} => t.ref = <<>>
     /\ t.tag \in {"form", "form/"} => t.method # ""}

ASSUME CrawlerAssumption ==
  /\ MaxPages \in Nat \ {0}
  /\ 0 \notin Dirs /\ Queries \subseteq Seq(STRING)
  /\ DefaultPort \in [Origins -> Origins]
  /\ \A o \in Origins : DefaultPort[DefaultPort[o]] = DefaultPort[o]
  /\ Targets \subseteq URL
  /\ \A s \in Sites : \A p \in DOMAIN s : s[p] \in Seq(Tokens)

VARIABLES
  site, target,
  queue,    \* URLs to visit, as found
  seen,     \* canonical URLs visited
  eps,      \* endpoints by canonical URL and method
  log,      \* the requests made: URL and whether it was answered
  found     \* what Crawl returned; <<>> before

crawlVars == <<site, target, queue, seen, eps, log, found>>

-----------------------------------------------------------------------------
(* Slip: fragments, case and query order are kept. *)
CanonicalPortOnly(u) == [u EXCEPT !.origin = DefaultPort[@]]

Canonical(u) == [u EXCEPT !.origin = DefaultPort[@], !.spelling = "plain"]

CanonicalURL == {u \in URL : Canonical(u) = u}

(* Strings are ordered. *)
ASSUME AlphabeticalAssumption ==
  \A u, v, w \in CanonicalURL :
    /\ ~Alphabetical(u, u)
    /\ u = v \/ Alphabetical(u, v) \/ Alphabetical(v, u)
    /\ Alphabetical(u, v) /\ Alphabetical(v, w) => Alphabetical(u, w)

Resolve(base, ref) ==
  [ref EXCEPT !.origin = IF ref.origin = "" THEN base.origin ELSE @,
              !.dir = IF ref.origin = "" /\ ref.dir = 0 THEN base.dir ELSE @]

AddNew(out, x) == IF x \in Range(out) THEN out ELSE Append(out, x)
uniq(s) == FoldLeft(AddNew, <<>>, s)

NewForm(t) == [method |-> t.method, action |-> t.ref, fields |-> <<>>]
AddField(form, name) == [form EXCEPT !.fields = Append(@, name)]

(* current is <<>> or the form that is open; opening a form while another  *)
(* is open replaces it.                                                    *)
NextToken(page, t) ==
  CASE t.tag = "link"    -> [page EXCEPT !.links = @ \o t.ref]
    [] t.tag = "form"    -> [page EXCEPT !.links = @ \o t.ref, !.current = <<NewForm(t)>>]
    [] t.tag = "form/"   -> [page EXCEPT !.links = @ \o t.ref, !.forms = Append(@, NewForm(t))]
    [] t.tag = "endform" -> [page EXCEPT !.forms = @ \o page.current, !.current = <<>>]
    [] t.tag = "field"   -> [page EXCEPT
         !.names = Append(@, t.name), !.current = [i \in DOMAIN @ |-> AddField(@[i], t.name)]]

EmptyPage == [links |-> <<>>, names |-> <<>>, forms |-> <<>>, current |-> <<>>]

(* A form still open at the end of the document is kept. *)
parsePage(tokens) ==
  LET end == FoldLeft(NextToken, EmptyPage, tokens)
  IN  [links |-> end.links, names |-> end.names, forms |-> end.forms \o end.current]

(* Slip: an endpoint found again replaces the earlier one. *)
addEndpointOver(known, url, method, params, form) ==
  LET key == <<url, method>>
      new == [params |-> uniq(params), form |-> uniq(form)]
  IN  [k \in DOMAIN known \cup {key} |-> IF k = key THEN new ELSE known[k]]

addEndpoint(known, url, method, params, form) ==
  LET key == <<url, method>>
      old == IF key \in DOMAIN known THEN known[key] ELSE [params |-> <<>>, form |-> <<>>]
      new == [params |-> uniq(old.params \o params), form |-> uniq(old.form \o form)]
  IN  [k \in DOMAIN known \cup {key} |-> IF k = key THEN new ELSE known[k]]

(* An action is resolved against the page; a form without fields has       *)
(* nothing to probe.                                                       *)
ActionOf(u, form) == Canonical(IF form.action = <<>> THEN u ELSE Resolve(u, form.action[1]))

addForm(known, u, form) ==
  IF form.fields = <<>> THEN known
  ELSE IF form.method = "POST" THEN addEndpoint(known, ActionOf(u, form), "POST", <<>>, form.fields)
  ELSE addEndpoint(known, ActionOf(u, form), "GET", form.fields, <<>>)

addForms(known, u, forms) == FoldLeft(LAMBDA acc, form : addForm(acc, u, form), known, forms)

(* The endpoint of the page itself, then those of its forms. *)
pageEndpoints(known, u, page) ==
  LET params == uniq(u.query \o page.names)
      withPage == IF params = <<>> /\ u.name \notin Marked THEN known
                  ELSE addEndpoint(known, u, "GET", params, <<>>)
  IN  addForms(withPage, u, page.forms)

(* Links are resolved against the target, wherever they were found; the    *)
(* host comparison looks at the port as written.                           *)
Absolute(page) == [i \in DOMAIN page.links |-> Resolve(target, page.links[i])]
Followed(page, visited) ==
  LET urls == Absolute(page)
  IN  Sublist(urls, {i \in DOMAIN urls : urls[i].origin = target.origin /\ Canonical(urls[i]) \notin visited})

Body(u) == IF <<u.dir, u.name>> \in DOMAIN site THEN site[<<u.dir, u.name>>] ELSE <<>>

-----------------------------------------------------------------------------
CrawlInit ==
  /\ site \in Sites /\ target \in Targets
  /\ queue = <<target>>
  /\ seen = {} /\ eps = <<>> /\ log = <<>> /\ found = <<>>

Crawling == found = <<>> /\ queue # <<>> /\ Cardinality(seen) < MaxPages

Current == Canonical(Head(queue))

SkipSeen ==
  /\ Crawling /\ Current \in seen
  /\ queue' = Tail(queue)
  /\ UNCHANGED <<site, target, seen, eps, log, found>>

(* Slip: a page that cannot be fetched ends the crawl. *)
VisitFailsAborts ==
  /\ Crawling /\ Current \notin seen
  /\ seen' = seen \cup {Current}
  /\ log' = Append(log, [url |-> Current, answered |-> FALSE])
  /\ queue' = <<>>
  /\ UNCHANGED <<site, target, eps, found>>

(* The request fails; the page counts as visited all the same. *)
VisitFails ==
  /\ Crawling /\ Current \notin seen
  /\ seen' = seen \cup {Current}
  /\ log' = Append(log, [url |-> Current, answered |-> FALSE])
  /\ queue' = Tail(queue)
  /\ UNCHANGED <<site, target, eps, found>>

Visit ==
  LET page == parsePage(Body(Current)) IN
  /\ Crawling /\ Current \notin seen
  /\ seen' = seen \cup {Current}
  /\ log' = Append(log, [url |-> Current, answered |-> TRUE])
  /\ eps' = pageEndpoints(eps, Current, page)
  /\ queue' = Tail(queue) \o Followed(page, seen')
  /\ UNCHANGED <<site, target, found>>

KeyBefore(a, b) ==
  \/ Alphabetical(a[1], b[1])
  \/ a[1] = b[1] /\ a[2] = "GET" /\ b[2] = "POST"
KeyOrder(keys) == {p \in keys \X keys : KeyBefore(p[1], p[2])}

(* Without any endpoint the target itself is one. *)
FinishCrawl ==
  /\ found = <<>> /\ ~Crawling
  /\ LET all == IF eps # <<>> THEN eps
                ELSE addEndpoint(eps, Canonical(target), "GET", <<>>, <<>>)
         keys == Listing(DOMAIN all, KeyOrder(DOMAIN all))
     IN  found' = [i \in DOMAIN keys |->
                     [url |-> keys[i][1], method |-> keys[i][2],
                      params |-> all[keys[i]].params, form |-> all[keys[i]].form]]
  /\ UNCHANGED <<site, target, queue, seen, eps, log>>

CrawlNext == SkipSeen \/ VisitFails \/ Visit \/ FinishCrawl

-----------------------------------------------------------------------------
Answered == {log[i].url : i \in {n \in DOMAIN log : log[n].answered}}
Requested == {log[i].url : i \in DOMAIN log}

(* URLs "differing only by scheme/host case, an explicit default port, a   *)
(* fragment, or query-parameter order" (crawler.go 236-240) are one page:  *)
(* no page is requested twice, and the budget counts pages.                *)
SamePage(u, v) ==
  /\ DefaultPort[u.origin] = DefaultPort[v.origin]
  /\ u.dir = v.dir /\ u.name = v.name /\ u.query = v.query
VisitsOnce ==
  /\ \A i, j \in DOMAIN log : SamePage(log[i].url, log[j].url) => i = j
  /\ Len(log) <= MaxPages

(* A crawl that the page limit did not cut short has requested the target  *)
(* and every link to its host on every page that answered: a failed page,  *)
(* a link found twice or a URL already queued hides nothing.               *)
CrawlIsClosed ==
  (found # <<>> /\ Len(log) < MaxPages) =>
    /\ Canonical(target) \in Requested
    /\ \A u \in Answered : \A i \in DOMAIN Body(u) :
         LET t == Body(u)[i] IN
         (t.ref # <<>> /\ Resolve(target, t.ref[1]).origin = target.origin) =>
           Canonical(Resolve(target, t.ref[1])) \in Requested

(* The form at token i, when it is one that parsePage reports: the next    *)
(* form tag closes it, or none follows.                                    *)
IsFormTag(t) == t.tag \in {"form", "endform"}
ReportedForm(ts, i) ==
  /\ ts[i].tag = "form"
  /\ \A k \in (i + 1)..Len(ts) :
       (IsFormTag(ts[k]) /\ \A m \in (i + 1)..(k - 1) : ~IsFormTag(ts[m])) => ts[k].tag = "endform"
FieldsOf(ts, i) ==
  {ts[k].name : k \in {n \in (i + 1)..Len(ts) :
                         ts[n].tag = "field" /\ \A m \in (i + 1)..n : ~IsFormTag(ts[m])}}

(* What the answered pages say about an endpoint: all of them, merged. *)
PageParams(u) == Range(u.query) \cup {Body(u)[i].name : i \in {n \in DOMAIN Body(u) : Body(u)[n].tag = "field"}}
FormsOf(method) ==
  UNION {{[url |-> Canonical(IF Body(u)[i].ref = <<>> THEN u ELSE Resolve(u, Body(u)[i].ref[1])),
           fields |-> FieldsOf(Body(u), i)] :
            i \in {n \in DOMAIN Body(u) : ReportedForm(Body(u), n) /\ Body(u)[n].method = method}}
         : u \in Answered}
ParamsOf(url) ==
  UNION ({PageParams(u) : u \in Answered \cap {url}} \cup {f.fields : f \in {g \in FormsOf("GET") : g.url = url}})
FormParamsOf(url) == UNION {f.fields : f \in {g \in FormsOf("POST") : g.url = url}}

(* Crawl returns one endpoint for each URL and method, with the parameters *)
(* of all pages and forms that name it, "unioned and deduplicated rather   *)
(* than one overwriting the other" (crawler.go 216-219), sorted.  A page   *)
(* with a question mark is an endpoint even without parameters.            *)
SurfaceIsUnion ==
  found # <<>> =>
    /\ \A i, j \in DOMAIN found :
         i < j => KeyBefore(<<found[i].url, found[i].method>>, <<found[j].url, found[j].method>>)
    /\ \A i \in DOMAIN found : IsInjective(found[i].params) /\ IsInjective(found[i].form)
    /\ \A i \in DOMAIN found :
         /\ found[i].method = "GET" => found[i].form = <<>> /\ Range(found[i].params) = ParamsOf(found[i].url)
         /\ found[i].method = "POST" => found[i].params = <<>> /\ Range(found[i].form) = FormParamsOf(found[i].url)
    /\ \A u \in Answered \cup {f.url : f \in FormsOf("GET")} :
         (ParamsOf(u) # {} \/ (u \in Answered /\ u.name \in Marked)) =>
           \E i \in DOMAIN found : found[i].url = u /\ found[i].method = "GET"
    /\ \A f \in FormsOf("POST") :
         f.fields # {} => \E i \in DOMAIN found : found[i].url = f.url /\ found[i].method = "POST"
=============================================================================
