------------------------------ MODULE Factory ------------------------------
(***************************************************************************)
(* Job factories (factory.py): an entry of `jobs` whose key has            *)
(* placeholders stands for a family of jobs, one per namespace of its      *)
(* pipeline.                                                               *)
(*                                                                         *)
(* A string is the sequence of the words between its dashes; a key is a    *)
(* sequence of elements, each a word or a placeholder, with dashes between *)
(* them; a node_namespaces template or a namespace is a sequence of        *)
(* segments, and a segment of a namespace is a string: `north-america` is  *)
(* one segment of two words.  What a project defines is a record `p` with  *)
(* the fields `jobs` (key -> entry) and `pipelines` (name -> nodes).       *)
(***************************************************************************)
EXTENDS Naturals, Sequences, FiniteSets, SequencesExt

CONSTANTS
  WordLength,  \* word -> the number of its characters
  KeyRank      \* key -> its place in alphabetical order

Token(t) == [kind |-> "token", text |-> t]
Word(w) == [kind |-> "word", text |-> w]

(* Keys and templates. *)

Tokens(template) == {e.text : e \in {d \in Range(template) : d.kind = "token"}}
IsFactory(key) == Tokens(key) # {}

\* Characters that are not a placeholder's: those of the words, and the dashes.
Words(key) == {i \in DOMAIN key : key[i].kind = "word"}
LiteralLen(key) ==
  Cardinality(UNION {{i} \X (1..WordLength[key[i].text]) : i \in Words(key)}) + Len(key) - 1

\* The words after the last placeholder.
JobSuffix(key) ==
  LET last == CHOOSE i \in DOMAIN key : key[i].kind = "token"
                /\ \A j \in DOMAIN key : key[j].kind = "token" => j <= i
  IN [i \in 1..(Len(key) - last) |-> key[last + i].text]

\* str.format, which gives the string back unchanged when a value is missing.
Fills(values, template) == Tokens(template) \subseteq DOMAIN values
Filled(e, values) == IF e.kind = "token" THEN values[e.text] ELSE <<e.text>>
Render(key, values) == FlattenSeq([i \in DOMAIN key |-> Filled(key[i], values)])
RenderTemplate(template, values) == [i \in DOMAIN template |-> Filled(template[i], values)]

(* Bindings. *)

Factories(p) == {key \in DOMAIN p.jobs : IsFactory(key)}
Literals(p) == DOMAIN p.jobs \ Factories(p)

\* Only the first template of an entry counts, and an entry without a template
\* or with an unregistered pipeline derives nothing.
Deriving(p) == {f \in Factories(p) : p.jobs[f].templates # <<>> /\ p.jobs[f].pipeline \in DOMAIN p.pipelines}
Axis(p, f) == p.jobs[f].templates[1]
Unbindable(p, f) == ~(Tokens(f) \subseteq Tokens(Axis(p, f)))

\* The distinct namespaces at the template's depth.
Namespaces(p, f) == LET depth == Len(Axis(p, f)) IN
  {SubSeq(n.namespace, 1, depth) : n \in {m \in p.pipelines[p.jobs[f].pipeline] : Len(m.namespace) >= depth}}

\* A segment that is a word must be the namespace's; one that is a placeholder
\* takes its string.
BindsTo(template, namespace) == \A i \in DOMAIN template :
  template[i].kind = "word" => namespace[i] = <<template[i].text>>
BindNamespace(template, namespace) ==
  [t \in Tokens(template) |-> namespace[CHOOSE i \in DOMAIN template : template[i] = Token(t)]]

\* The bindings of all factories are one set: a binding two factories derive is
\* rendered once.
BindingsOf(p, f) ==
  {[values |-> BindNamespace(Axis(p, f), ns), job |-> JobSuffix(f)] :
     ns \in {n \in Namespaces(p, f) : BindsTo(Axis(p, f), n)}}
DerivedBindings(p) == UNION {BindingsOf(p, f) : f \in Deriving(p)}

(* Resolution. *)

\* A name ends in the job type; nothing ends in the empty one.
MatchesJobType(name, job) == job # <<>> /\ IsSuffix(job, name)

Candidates(p, b) ==
  {f \in Factories(p) : Fills(b.values, f) /\ MatchesJobType(Render(f, b.values), b.job)}

MoreLiteral(f, g) ==
  LiteralLen(f) > LiteralLen(g) \/ (LiteralLen(f) = LiteralLen(g) /\ KeyRank[f] >= KeyRank[g])
MoreGeneral(f, g) ==
  LET m == Cardinality(Tokens(f))  n == Cardinality(Tokens(g))
  IN m > n \/ (m = n /\ MoreLiteral(f, g))

\* The candidate with most placeholders gives the name.
CanonicalKey(p, b) == CHOOSE f \in Candidates(p, b) : \A g \in Candidates(p, b) : MoreGeneral(f, g)
Canonical(p, b) == Render(CanonicalKey(p, b), b.values)

\* Bug: the factory that gave the name also gives the configuration.
MostGeneralWins(p, b) == CanonicalKey(p, b)

\* Of those that render this name, the most literal gives the configuration.
Winner(p, b) ==
  LET applicable == {f \in Candidates(p, b) : Render(f, b.values) = Canonical(p, b)}
  IN CHOOSE f \in applicable : \A g \in applicable : MoreLiteral(f, g)

\* A job: the entry it comes from and the values its strings are filled with.
NoValues == [t \in {} |-> <<>>]
JobOf(key, values) == [key |-> key, values |-> values]

\* enumerate_jobs raises instead of giving a map.
EnumerationFails(p) ==
  \/ \E f \in Deriving(p) : Unbindable(p, f)
  \/ \E b \in DerivedBindings(p) : Candidates(p, b) = {}
  \/ \E b, d \in DerivedBindings(p) : b # d /\ Canonical(p, b) = Canonical(p, d)

LiteralNames(p) == {Render(k, NoValues) : k \in Literals(p)}
LiteralJob(p, name) == JobOf(CHOOSE k \in Literals(p) : Render(k, NoValues) = name, NoValues)
RenderedNames(p) == {Canonical(p, b) : b \in DerivedBindings(p)}
RenderedJob(p, name) ==
  LET b == CHOOSE d \in DerivedBindings(p) : Canonical(p, d) = name IN JobOf(Winner(p, b), b.values)

\* Bug: a rendered job replaces the literal one of its name.
RenderedOverLiteral(p) == [n \in LiteralNames(p) \cup RenderedNames(p) |->
  IF n \in RenderedNames(p) THEN RenderedJob(p, n) ELSE LiteralJob(p, n)]

\* enumerate_jobs, when it succeeds; a literal wins over a rendered job.
EnumerateJobs(p) == [n \in LiteralNames(p) \cup RenderedNames(p) |->
  IF n \in LiteralNames(p) THEN LiteralJob(p, n) ELSE RenderedJob(p, n)]

\* resolve_jobs: literal names need no enumeration, the others are looked up.
Resolvable(p, names) == LET rest == names \ LiteralNames(p) IN
  rest # {} => Factories(p) # {} /\ ~EnumerationFails(p) /\ rest \subseteq RenderedNames(p)
ResolveJobs(p, names) == [n \in names |->
  IF n \in LiteralNames(p) THEN LiteralJob(p, n) ELSE EnumerateJobs(p)[n]]
=============================================================================
