SPECIFICATION Spec
CONSTANTS
    Engine <- EvalQuery
    Catalog <- MCCatalog
    MergeFn <- MCMergeFn
    Database <- MCDatabase
    Requests <- MCRequests
INVARIANT ArtifactMeansSource
 
INVARIANT BudgetBoundsTree
INVARIANT InspectionIsTrue
INVARIANT StatesAreMerged
\* A query's way ends with its result or with a refusal.
CHECK_DEADLOCK FALSE
