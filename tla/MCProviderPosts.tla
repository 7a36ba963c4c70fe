--------------------------- MODULE MCProviderPosts ---------------------------
EXTENDS ProviderPosts, TLC

\* Products are alike; so are the requests of the staff
Alike == Permutations(Listings) \cup Permutations(Makers)
==============================================================================
