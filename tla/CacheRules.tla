----------------------------- MODULE CacheRules -----------------------------
(***************************************************************************)
(* The pure part of the cache (pkg/config/cache.go): how options are put   *)
(* together and how keys are built, taken apart and checked.               *)
(*                                                                         *)
(* A text is the sequence of its parts between the separators ":", so that *)
(* joining texts by a separator is \o.  Times are in milliseconds.         *)
(***************************************************************************)
EXTENDS Integers, Sequences, SequencesExt

CONSTANTS
  Sizes, Policies, Intervals, TTLs,  \* the arguments callers give to options
  Names,     \* parts a text may have: names without a separator
  KeyTexts   \* the keys that callers build cache keys from

ASSUME RulesAssumption ==
  /\ Sizes \subseteq Int /\ Intervals \subseteq Int /\ TTLs \subseteq Int
  /\ Policies \subseteq STRING
  /\ Names \subseteq STRING
  /\ KeyTexts \subseteq Seq(STRING)

DefaultMaxSize       == 1000
DefaultCleanupTicker == 5 * 60 * 1000
DefaultTTL           == 5 * 60 * 1000
MinTTL               == 1000
MaxTTL               == 24 * 60 * 60 * 1000

EvictionPolicies == {"lru", "lfu", "random", "none"}

(* Zero stands for the default.                                            *)
VaildateTTL(ttl) == ttl = 0 \/ ttl \in MinTTL..MaxTTL

DefaultCacheOptions ==
  [maxSize |-> DefaultMaxSize, policy |-> "lru", interval |-> DefaultCleanupTicker,
   ttl |-> DefaultTTL, stats |-> TRUE]

(* An option is the field it sets and the value it sets it to.             *)
Option(field, value) == [field |-> field, value |-> value]

(* A negative size is accepted.                                            *)
WithMaxSize(size) == Option("maxSize", IF size = 0 THEN DefaultMaxSize ELSE size)

WithEvictionPolicy(policy) ==
  Option("policy", IF policy \in EvictionPolicies THEN policy ELSE "lru")

(* Mutant: only an interval of zero is replaced.                           *)
WithCleanupInterval_Zero(built, applied) ==
  Option("interval", IF built = 0 THEN DefaultCleanupTicker ELSE applied)

(* The interval is behind a pointer, which is read when the option is      *)
(* built and again when it is applied; nil is an interval of 0.            *)
WithCleanupInterval(built, applied) ==
  Option("interval", IF built <= 0 THEN DefaultCleanupTicker ELSE applied)

WithDefaultTTL(ttl) == Option("ttl", IF VaildateTTL(ttl) THEN ttl ELSE DefaultTTL)

WithEnableStats(enable) == Option("stats", enable)

(* What callers may pass to NewMemoryCache; steady are the options whose   *)
(* interval nobody changes after they are built.                           *)
ValueOptions ==
  {WithMaxSize(n) : n \in Sizes} \cup {WithEvictionPolicy(p) : p \in Policies} \cup
  {WithDefaultTTL(t) : t \in TTLs} \cup {WithEnableStats(b) : b \in BOOLEAN}

Options       == ValueOptions \cup {WithCleanupInterval(i, j) : i, j \in Intervals}
SteadyOptions == ValueOptions \cup {WithCleanupInterval(i, i) : i \in Intervals}

(* NewMemoryCache applies its options in their order.                      *)
Configured(options) ==
  FoldLeft(LAMBDA opts, o : [opts EXCEPT ![o.field] = o.value],
           DefaultCacheOptions, options)

---------------------------------------------------------------------------
KeyPrefixConfig    == <<"config", "">>
KeyPrefixNamespace == <<"ns", "">>
KeyPrefixMetadata  == <<"meta", "">>

(* A prefix that ends in a separator, and the text after it.               *)
Prefixed(prefix, text) == Front(prefix) \o text
HasPrefix(text, prefix) == IsPrefix(Front(prefix), text) /\ Len(prefix) <= Len(text)

(* Mutant: AddNamespace leaves the namespace out.                          *)
BuildKey_Flat(prefix, namespace, key) == prefix \o KeyPrefixNamespace \o key

(* AddPrefix, AddNamespace, AddKey and Build.                              *)
BuildKey(prefix, namespace, key) ==
  prefix \o Prefixed(KeyPrefixNamespace, namespace) \o key

BuildConfigKey(namespace, key)   == BuildKey(KeyPrefixConfig, namespace, key)
BuildMetadataKey(namespace, key) == BuildKey(KeyPrefixMetadata, namespace, key)

(* The key is split at every separator, and the namespace looked for in a  *)
(* part that starts with "ns:": there is none.                             *)
ParseCacheKey(text) ==
  LET Found == {i \in 2..Len(text) : HasPrefix(<<text[i]>>, KeyPrefixNamespace)}
  IN  IF Len(text) < 3
      THEN [prefix |-> <<"">>, namespace |-> <<"">>, key |-> text]
      ELSE IF Found = {}
      THEN [prefix |-> <<text[1]>>, namespace |-> <<"">>, key |-> <<"">>]
      ELSE LET i == CHOOSE i \in Found : \A j \in Found : i <= j
           IN  [prefix |-> <<text[1]>>, namespace |-> <<text[i]>>,
                key |-> IF i = Len(text) THEN <<"">> ELSE SubSeq(text, i + 1, Len(text))]

VaildateCacheKey(text) == text # <<"">> /\ Len(text) <= 256
=============================================================================
