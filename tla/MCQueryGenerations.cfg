SPECIFICATION FairSpec
CONSTANTS
  r1 = r1 r2 = r2 s1 = s1 s2 = s2 x1 = x1 x2 = x2 y1 = y1 y2 = y2
  Requests = {r1, r2}
  Sources = {s1, s2}
  Canonicals = {1, 2, 3}
  Items = {x1, x2, y1, y2}
  Catalog <- TwoLists
  FirstCanonical <- Resolved
  Twins <- FirstItems
  Counting = {s1}
  Batch = 1
  Ends = {3}
  Storages = {"sqlite", "d1"}
  MaxGenerations <- Generations
  MaxFailures <- Failures
  MaxWrites <- StateWrites
INVARIANTS ListIsSound NothingSkipped ExhaustedIsComplete ListsFollowState
PROPERTIES EveryRequestEnds
CHECK_DEADLOCK FALSE
