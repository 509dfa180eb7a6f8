SPECIFICATION Spec
CONSTANT MaxJobs = 1
PROPERTY ClosesAfterwards
