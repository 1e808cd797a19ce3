---------------------------- MODULE MCCatalogue ----------------------------
(***************************************************************************)
(* Values of Catalogue.tla for TLC.                                        *)
(***************************************************************************)
EXTENDS Catalogue, TLC

CONSTANTS lake, tour, inn

\* Vouchers without limits, with a limit of one use, and with a term.
SomeVouchers ==
    {[type |-> t, value |-> 10, maxDiscount |-> m, minOrder |-> 0, maxUsage |-> n,
      startsAt |-> s, expiresAt |-> e] :
        t \in {"fixed"}, m \in {0}, n \in {0, 1}, s \in {1}, e \in {1, LastDay + 1}}

SomeTargets == {{lake, tour}, {tour, inn}}

\* Six wards, three of which are called "My An", two of them alike in all
\* but the district.
Ward(spelling, name, kind, district, districtName, province) ==
    [spelling |-> spelling, name |-> name, kind |-> kind, district |-> district,
     districtName |-> districtName, province |-> province]
OldWards ==
    {Ward("My An", "my an", "xa", 1, "thoai son", "an giang"),
     Ward("My An", "my an", "xa", 2, "cho moi", "an giang"),
     Ward("My An'", "my an", "phuong", 3, "thoai son", "kien giang"),
     Ward("Phu Hoa", "phu hoa", "xa", 2, "cho moi", "an giang"),
     Ward("Phu Hoa", "phu hoa", "xa", 4, "giong rieng", "kien giang"),
     Ward("Phu Hoa", "phu hoa", "phuong", 5, "giong rieng", "an giang")}
NewWards ==
    {Ward("My An", "my an", "xa", 0, NoOne, "an giang"),
     Ward("My An", "my an", "phuong", 0, NoOne, "kien giang"),
     Ward("Phu Hoa'", "phu hoa", "xa", 0, NoOne, "an giang")}

Named(spelling, name, kind, parent) ==
    [spelling |-> spelling, name |-> name, kind |-> kind, parent |-> parent]
MyAn == Named("My An", "my an", "xa", NoOne)
PhuHoa == Named("Phu Hoa", "phu hoa", "xa", NoOne)
TanLap == Named("Tan Lap", "tan lap", NoOne, NoOne)
SomeSources ==
    {Named("My An", "my an", k, p) : k \in {NoOne, "xa"}, p \in {NoOne, "thoai son", "cho moi"}}
    \cup {Named("My An'", "my an", k, NoOne) : k \in {NoOne, "phuong"}}
    \cup {Named("Phu Hoa", "phu hoa", "xa", p) : p \in {NoOne, "giong rieng", "kien giang"}}
    \cup {TanLap}
SomeClauses ==
    {[from |-> <<s, t>>, to |-> MyAn] : s \in SomeSources, t \in SomeSources \cap {MyAn, PhuHoa}}
    \cup {[from |-> <<s>>, to |-> t] : s \in SomeSources, t \in {MyAn, PhuHoa}}
    \cup {[from |-> <<PhuHoa>>, to |-> TanLap]}

Symmetry == Permutations(Offer)

=============================================================================
