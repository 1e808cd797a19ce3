----------------------------- MODULE Catalogue -----------------------------
(***************************************************************************)
(* Partners.tla, Voucher.tla, Feedback.tla and MappingResolver.tla side by *)
(* side.  They share no state that their properties are about, so every    *)
(* history belongs to one of them.                                         *)
(***************************************************************************)
EXTENDS Integers, FiniteSets, Sequences

CONSTANTS
    Partner, Offer, Bill, Member, Nothing, Time,
    VoucherId, Code, Terms, MaxUsed, LastDay,
    ReviewId, Destination, Tour, Cooperation, Asked, NoOne, Star, Worker,
    Legacy, Reform, Clause, LegacyHint, ReformHint, MaxClauses

VARIABLES
    scope,              \* the module this history is of
    partner, offer, bill, favorites,
    voucher, today,
    review, rating, total, alive, request, torn,
    phase, clause, pending, index, progress, records, global, recent, rows

Keys == INSTANCE Partners WITH
    Partner <- Partner, Offer <- Offer, Bill <- Bill, User <- Member, Nothing <- Nothing,
    Time <- Time, partner <- partner, offer <- offer, bill <- bill, favorite <- favorites

Codes == INSTANCE Voucher WITH
    VoucherId <- VoucherId, Code <- Code, Dto <- Terms, MaxUsed <- MaxUsed, MaxDay <- LastDay,
    voucher <- voucher, today <- today

Stars == INSTANCE Feedback WITH
    ReviewId <- ReviewId, User <- Member, Destination <- Destination, Route <- Tour,
    Cooperation <- Cooperation, Asked <- Asked, Nobody <- NoOne, Star <- Star,
    Worker <- Worker, review <- review, rating <- rating, total <- total, alive <- alive,
    request <- request, torn <- torn

Mapping == INSTANCE MappingResolver WITH
    Legacy <- Legacy, Reform <- Reform, Clause <- Clause, None <- NoOne,
    LegacyHint <- LegacyHint, ReformHint <- ReformHint, MaxClauses <- MaxClauses,
    phase <- phase, clause <- clause, pending <- pending, index <- index,
    progress <- progress, records <- records, global <- global, recent <- recent,
    rows <- rows

\* No partner and no offer is called nothing; departures are numbers.
ASSUME KeysAssumption == Nothing \notin Partner \cup Offer /\ Time \subseteq Int

\* What callers ask create and update of a voucher for is what the columns
\* take, and no voucher has the code of an id that is not used.
ASSUME VouchersAssumption ==
    /\ LastDay \in Nat /\ MaxUsed \in Nat
    /\ "none" \notin Code
    /\ Terms \subseteq [type : {"fixed", "percentage"}, value : Nat, maxDiscount : Nat,
                        minOrder : Nat, maxUsage : Nat, startsAt : 0 .. LastDay,
                        expiresAt : 0 .. LastDay + 1]

\* The tables have different rows, and a review has at least one star.
ASSUME FeedbackAssumption ==
    /\ IsFiniteSet(ReviewId)
    /\ Star \subseteq Nat \ {0}
    /\ Member \cap (Destination \cup Tour \cup Cooperation) = {}
    /\ Tour \cap (Destination \cup Cooperation) = {} /\ Destination \cap Cooperation = {}

\* The data sets are finite, a clause lists what it merges, and equal spellings
\* are normalized alike, of a unit as of a name in the text.
ASSUME MappingAssumption ==
    /\ IsFiniteSet(Legacy) /\ IsFiniteSet(Reform)
    /\ \A c \in Clause :
          /\ c.from \in Seq({c.from[i] : i \in DOMAIN c.from})
          /\ \A i \in DOMAIN c.from, w \in Legacy :
                w.spelling = c.from[i].spelling => w.name = c.from[i].name
          /\ \A w \in Reform : w.spelling = c.to.spelling => w.name = c.to.name

partners == <<partner, offer, bill, favorites>>
vouchers == <<voucher, today>>
reviews == <<review, rating, total, alive, request, torn>>
mappings == <<phase, clause, pending, index, progress, records, global, recent, rows>>

CatalogueInit ==
    /\ scope \in {"partners", "vouchers", "feedback", "mapping"}
    /\ Keys!Init /\ Codes!Init /\ Stars!Init /\ Mapping!Init

CatalogueNext ==
    /\ UNCHANGED scope
    /\ \/ scope = "partners" /\ Keys!Next /\ UNCHANGED <<vouchers, reviews, mappings>>
       \/ scope = "vouchers" /\ Codes!Next /\ UNCHANGED <<partners, reviews, mappings>>
       \/ scope = "feedback" /\ Stars!Next /\ UNCHANGED <<partners, vouchers, mappings>>
       \/ scope = "mapping" /\ Mapping!Next /\ UNCHANGED <<partners, vouchers, reviews>>

CatalogueSpec ==
    CatalogueInit /\ [][CatalogueNext]_<<scope, partners, vouchers, reviews, mappings>>

-----------------------------------------------------------------------------
\* Bills name what was bought and from whom: see Partners.tla.
BillsKeepTheirOffer == Keys!BillsKeepTheirOffer

\* The stored flag of a voucher hides none that could still be used: see
\* Voucher.tla.
NoUsableIsHidden == Codes!NoUsableIsHidden

\* The averages follow the reviews: see Feedback.tla.
RatingsFollow == Stars!RatingsFollow

\* The text of a resolution decides: see MappingResolver.tla.
TextDecides == Mapping!TextDecides

=============================================================================
