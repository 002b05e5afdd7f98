SPECIFICATION FairSpec
CONSTANTS
  t1 = t1
  t2 = t2
  t3 = t3
  Thread = {t1, t2, t3}
  NumCores = 2
  bucketOf <- MCBucketOf
INVARIANTS TypeOK Exclusion
PROPERTIES ImplementsRWLock WriterServed ReaderServed
