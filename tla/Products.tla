------------------------------ MODULE Products -------------------------------
(***************************************************************************)
(* internal/catalog and internal/store/products.go: products, each one kit,*)
(* and the listings of the shops that are in them.  collect changes the    *)
(* listings and regroups at its end; link, unlink, match and the review    *)
(* page may run at any time.  Each of them is one transaction that decides *)
(* from what it read: one step here.  One that fails changes nothing.      *)
(***************************************************************************)
EXTENDS Matcher

CONSTANTS
    NameLength,     \* of each listing
    Barcode,        \* the digits its shop or a lookup may give for it, or <<>>
    MaxProduct,     \* bound: product ids in use
    MaxChanges,     \* bound: changes of what the shops list
    MaxEdits,       \* bound: links and unlinks
    Judged          \* bound: pairs somebody dismisses, in the order of the request

ASSUME ProductsAssumption == MaxProduct \in Nat /\ Judged \subseteq Listings \X Listings

VARIABLES
    listing,    \* listing[i]: "unknown" (no row), "active" or "removed"
    ean,        \* the barcode stored for it
    product,    \* the product it is in, 0 for none
    method,     \* how it got there
    products,   \* the rows of products: id to the listing that names it, and grade
    dismissed,  \* pairs hidden from the review
    changes,    \* changes of what the shops list, so far
    edits,      \* links and unlinks, so far
    fresh,      \* history: nothing was changed since the last Regroup
    linked,     \* history: pairs linked by hand, until a link or unlink parts them
    parted,     \* history: those of them a Regroup found with one off sale
    pinned      \* history: listings put in a product of their own by hand

table == <<product, method, products>>
shopVars == <<listing, ean>>
history == <<fresh, linked, parted, pinned>>
vars == <<table, shopVars, dismissed, changes, edits, history>>

Known == {i \in Listings : listing[i] # "unknown"}
Active == {i \in Listings : listing[i] = "active"}

Entries ==
    [i \in Active |->
        [ean |-> NormalizeEAN(ean[i]), product |-> product[i], manual |-> method[i] = "manual"]]

\* Every variable keeps its type, and no product is left without a listing
\* nor a listing with a product that is not there, whatever was merged, split,
\* linked and pruned.
TypeOK ==
    /\ listing \in [Listings -> {"unknown", "active", "removed"}]
    /\ \A i \in Listings : ean[i] \in {<<>>, Barcode[i]}
    /\ product \in [Listings -> 0 .. MaxProduct]
    /\ method \in [Listings -> {"ean", "name", "manual", None}]
    /\ \A i \in Listings : method[i] # None => product[i] # 0
    /\ DOMAIN products = {product[i] : i \in Listings} \ {0}
    /\ dismissed \subseteq {p \in Listings \X Listings : p[1] < p[2]}

Init ==
    /\ \E S \in SUBSET Listings : listing = [i \in Listings |-> IF i \in S THEN "active" ELSE "unknown"]
    /\ ean = [i \in Listings |-> <<>>]
    /\ product = [i \in Listings |-> 0]
    /\ method = [i \in Listings |-> None]
    /\ products = <<>>
    /\ dismissed = {}
    /\ changes = 0 /\ edits = 0
    /\ fresh = FALSE /\ linked = {} /\ parted = {} /\ pinned = {}

-----------------------------------------------------------------------------
(* collect: what one shop lists.                                           *)

Appears(i) ==
    /\ changes < MaxChanges
    /\ listing[i] # "active"
    /\ listing' = [listing EXCEPT ![i] = "active"]
    /\ changes' = changes + 1
    /\ fresh' = FALSE
    /\ UNCHANGED <<table, ean, dismissed, edits, linked, parted, pinned>>

Disappears(i) ==
    /\ changes < MaxChanges
    /\ listing[i] = "active"
    /\ listing' = [listing EXCEPT ![i] = "removed"]
    /\ changes' = changes + 1
    /\ fresh' = FALSE
    /\ UNCHANGED <<table, ean, dismissed, edits, linked, parted, pinned>>

\* By the scrape or by a lookup; a barcode once stored stays.
RecordEAN(i) ==
    /\ changes < MaxChanges
    /\ i \in Known /\ ean[i] = <<>> /\ Barcode[i] # <<>>
    /\ ean' = [ean EXCEPT ![i] = Barcode[i]]
    /\ changes' = changes + 1
    /\ fresh' = FALSE
    /\ UNCHANGED <<table, listing, dismissed, edits, linked, parted, pinned>>

-----------------------------------------------------------------------------
(* Regroup.                                                                *)

\* The name of the shortest-named member, the grade of the first that has one.
Canonical(members) ==
    LET shortest == {i \in members : \A j \in members : NameLength[i] <= NameLength[j]}
        graded == {i \in members : Grade[i] # None}
    IN  [name |-> Least(shortest), grade |-> IF graded = {} THEN None ELSE Grade[Least(graded)]]

NextId(rows) == IF rows = {} THEN 1 ELSE 1 + CHOOSE p \in rows : \A q \in rows : q <= p

Ids(root, i) == {product[j] : j \in GroupOf(root, i)} \ {0}

\* The lowest of the ids a group's members have, or a new one.
ChooseId(claims, used) == IF claims = {} THEN NextId(DOMAIN products \cup used) ELSE Least(claims)

\* Mutations of Claim: an earlier group's id is taken again; the id a lone
\* listing has is not kept.
ClaimForgetsUsed(root, i, used) == ChooseId(Ids(root, i), used)
ClaimRenumbersSingles(root, i, used) ==
    ChooseId(IF GroupOf(root, i) = {i} THEN {} ELSE Ids(root, i) \ used, used)
\* The product of the group that i is the first member of; used are those of
\* the groups before it.
Claim(root, i, used) == ChooseId(Ids(root, i) \ used, used)

Firsts(root) == {i \in DOMAIN root : \A j \in GroupOf(root, i) : i <= j}

Claims(root) ==
    LET claim[i \in Firsts(root)] == Claim(root, i, {claim[j] : j \in {k \in Firsts(root) : k < i}})
    IN  claim

Plan(root) == [i \in DOMAIN root |-> Claims(root)[Least(GroupOf(root, i))]]

\* Mutation of Pruned: listings off sale do not count.
PrunedOffSale(rows, prod) == [p \in DOMAIN rows \cap {prod[i] : i \in Active} |-> rows[p]]
\* Products that some listing, on sale or not, is in.
Pruned(rows, prod) == [p \in DOMAIN rows \cap {prod[i] : i \in Listings} |-> rows[p]]

Regroup ==
    \E root \in {MatchRoots(Entries)} : \E plan \in {Plan(root)} :
        LET planned == {plan[i] : i \in Active}
            prod == [i \in Listings |-> IF i \in Active THEN plan[i] ELSE product[i]]
            rows == [p \in DOMAIN products \cup planned |->
                        IF p \in planned THEN Canonical({i \in Active : plan[i] = p}) ELSE products[p]]
        IN  /\ planned \subseteq 1 .. MaxProduct
            /\ product' = prod
            /\ method' = [i \in Listings |-> IF i \in Active THEN Method(Entries, root, i) ELSE method[i]]
            /\ products' = Pruned(rows, prod)
            /\ fresh' = TRUE
            /\ parted' = parted \cup {p \in linked : ~(p \subseteq Active)}
            /\ UNCHANGED <<shopVars, dismissed, changes, edits, linked, pinned>>

-----------------------------------------------------------------------------
(* link, unlink and the review page.                                       *)

Grouped(a) == a \in Known /\ product[a] # 0

\* Both listings leave what an earlier link or unlink said of them, except
\* that a stays with those it was linked to.
Link(a, b) ==
    /\ edits < MaxEdits
    /\ Grouped(a) /\ b \in Known
    /\ LET prod == [product EXCEPT ![b] = product[a]]
       IN  /\ product' = prod
           /\ method' = [method EXCEPT ![a] = "manual", ![b] = "manual"]
           /\ products' = Pruned(products, prod)
    /\ linked' = IF a = b THEN linked ELSE {p \in linked : b \notin p} \cup {{a, b}}
    /\ parted' = IF a = b THEN parted ELSE {p \in parted : b \notin p}
    /\ pinned' = IF a = b THEN pinned ELSE pinned \ {a, b}
    /\ fresh' = FALSE
    /\ edits' = edits + 1
    /\ UNCHANGED <<shopVars, dismissed, changes>>

Pin(i) == [method EXCEPT ![i] = "manual"]

Unlink(i) ==
    /\ edits < MaxEdits
    /\ i \in Known
    /\ LET pid == NextId(DOMAIN products)
           prod == [product EXCEPT ![i] = pid]
           row == [name |-> i, grade |-> Grade[i]]
       IN  /\ pid <= MaxProduct
           /\ product' = prod
           /\ method' = Pin(i)
           /\ products' = Pruned([p \in DOMAIN products \cup {pid} |->
                                     IF p = pid THEN row ELSE products[p]], prod)
    /\ linked' = {p \in linked : i \notin p}
    /\ parted' = {p \in parted : i \notin p}
    /\ pinned' = pinned \cup {i}
    /\ fresh' = FALSE
    /\ edits' = edits + 1
    /\ UNCHANGED <<shopVars, dismissed, changes>>

NearMisses(includeDismissed) ==
    {it \in ReviewItems(Entries) : includeDismissed \/ <<it.a, it.b>> \notin dismissed}

Sorted(p) == IF p[1] > p[2] THEN <<p[2], p[1]>> ELSE p

\* Of any two listings, whether the review lists them or not.
DismissMatch(p) ==
    /\ {p[1], p[2]} \subseteq Known /\ p[1] # p[2]
    /\ dismissed' = dismissed \cup {Sorted(p)}
    /\ UNCHANGED <<table, shopVars, changes, edits, history>>

RestoreMatch(p) ==
    /\ dismissed' = dismissed \ {Sorted(p)}
    /\ UNCHANGED <<table, shopVars, changes, edits, history>>

Next ==
    \/ Regroup
    \/ \E i \in Listings : Appears(i) \/ Disappears(i) \/ RecordEAN(i) \/ Unlink(i)
    \/ \E a, b \in Listings : Link(a, b)
    \/ \E p \in Judged : DismissMatch(p) \/ RestoreMatch(p)

Spec == Init /\ [][Next]_vars

-----------------------------------------------------------------------------
(* Properties.                                                             *)

Automatic(i) == i \in Active /\ method[i] # "manual"

\* Listings linked by hand stay in one product, through every Regroup, merge
\* and split around them, while both are on sale whenever Regroup runs.
LinkHolds == \A p \in linked \ parted : \A i, j \in p : product[i] = product[j]

\* A listing given a product of its own by hand stays alone in it.
UnlinkHolds == \A i \in pinned : \A j \in Listings \ {i} : product[j] # product[i]

\* What was linked or unlinked by hand outlasts the automatic grouping.
EditsHold == LinkHolds /\ UnlinkHolds

\* After a Regroup no product holds two active listings of one shop, unless
\* they were put there by hand; and no listing joined one that was.
OneListingPerShop ==
    fresh => \A i, j \in Active :
        i # j /\ product[i] = product[j] /\ (Automatic(i) \/ Automatic(j))
            => Shop[i] # Shop[j] /\ Automatic(i) /\ Automatic(j)

\* After a Regroup a listing is in one product with the first listing that has
\* its barcode, unless another one of its shop that has the barcode is there.
BarcodesJoin ==
    fresh => \A i \in Active :
        LET same == {j \in Active : Automatic(j) /\ NormalizeEAN(ean[j]) = NormalizeEAN(ean[i])}
            first == Least(same)
        IN  i \in same /\ NormalizeEAN(ean[i]) # NoBarcode
            => \/ product[i] = product[first]
               \/ \E k \in same : Shop[k] = Shop[i] /\ product[k] = product[first]

\* Neither the review nor match lists a pair that is in one product already.
ReviewIsApart ==
    fresh => /\ \A it \in NearMisses(TRUE) : product[it.a] # product[it.b]
             /\ \A p \in Suggestions(Entries) : product[p[1]] # product[p[2]]

\* Grouping twice with nothing new changes nothing.
RegroupIsStable == [][fresh /\ fresh' => UNCHANGED table]_vars

\* NOT TRUE (see the README): what was linked by hand stays together, also
\* when one of the listings was off sale for a while.
LinkIsNeverUndone ==
    fresh => \A p \in linked : p \subseteq Active => \A i, j \in p : product[i] = product[j]
=============================================================================
